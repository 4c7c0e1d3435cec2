------------------------- MODULE AcquisitionProofs -------------------------
(***************************************************************************)
(* Every result is filed under the zone it was measured in, and the ROI    *)
(* moves between ranges only, for every choice of the times that satisfies *)
(* AcquisitionAssumption and any number of failures and delays.            *)
(***************************************************************************)
EXTENDS Acquisition, TLAPS

SensorOK ==
  /\ roi \in Fields /\ ranging \in BOOLEAN /\ range \in Fields \cup {NONE}
  /\ since \in 0 .. Guard /\ result \in Fields \cup {NONE}

ClockOK == age \in 0 .. Guard /\ left \in 0 .. Settle /\ lull \in 0 .. Slip
FlagsOK == started \in BOOLEAN /\ settling \in BOOLEAN
FiledOK == filed \in [zone : Zones \cup {NONE}, field : Fields \cup {NONE}]

\* Where the channel stands says what it believes of the sensor.
Positions ==
  /\ pc \in {"poll", "get", "clear", "file", "stop"} => started
  /\ pc \in {"roi", "start", "drain", "rearm", "aim", "launch", "stamp"} => ~started
  /\ pc \in {"roi", "start", "drain"} => ~settling
  /\ pc \in {"rearm", "aim", "launch"} => settling /\ left = 0
  /\ started => ~settling

Measuring == started \/ pc = "stamp"

\* No autonomous range can have begun.
Early == started => age < Guard - Slip

\* A sensor that was started with the ROI of the current zone has seen no other.
OwnField ==
  /\ Measuring => ranging /\ roi = zone /\ range \in {NONE, zone} /\ result \in {NONE, zone}
  /\ pc = "get" => result # NONE
  /\ pc \in {"clear", "file"} => got = zone
  /\ pc \in {"start", "launch"} => roi = zone

\* The clocks of the channel and the sensor agree until the sensor goes on by itself.
InTime ==
  /\ pc = "stamp" => since <= lull
  /\ started /\ Early => since <= age + Slip
  /\ pc = "stop" => age < Guard - Margin + lull

\* Until then one range gives one result, and nothing comes after it.
OneRange ==
  /\ Measuring /\ Early /\ result # NONE => range = NONE
  /\ pc \in {"get", "clear", "file", "stop"} /\ Early => range = NONE
  /\ pc \in {"file", "stop"} /\ Early => result = NONE
  /\ pc \in {"roi", "start"} => ~ranging /\ range = NONE /\ result = NONE

\* A stopped sensor is left alone until its last range is complete.
Drained ==
  /\ settling /\ pc # "stamp" => ~ranging
  /\ settling /\ pc # "stamp" /\ range # NONE => since + left >= Settle /\ left > 0
  /\ pc \in {"aim", "launch"} => result = NONE

Inv == TypeOK /\ Positions /\ OwnField /\ InTime /\ OneRange /\ Drained /\ FiledUnderItsZone

LEMMA Times ==
  /\ Budget \in Nat /\ Guard \in Nat /\ Margin \in Nat /\ Settle \in Nat /\ Slip \in Nat
  /\ MaxFaults \in Nat /\ MaxStalls \in Nat
  /\ Budget < Settle /\ Settle <= Guard
  /\ 2 * Slip <= Margin /\ 0 < Margin /\ Margin <= Guard
BY AcquisitionAssumption

LEMMA InitInv == Init => Inv
<1> USE Times DEF Init, Fields, Zones, Places, NONE, MIXED
<1>1. Init => roi \in Fields /\ range = NONE /\ result = NONE /\ since = Guard /\ ranging = FALSE
  BY DEF Fields
<1>2. Init => since \in 0 .. Guard /\ age \in 0 .. Guard
  OBVIOUS
<1>3. Init => left \in 0 .. Settle /\ lull \in 0 .. Slip
  OBVIOUS
<1>4. Init => faults \in 0 .. MaxFaults /\ stalls \in 0 .. MaxStalls
  OBVIOUS
<1>5. Init => filed \in [zone : Zones \cup {NONE}, field : Fields \cup {NONE}]
  OBVIOUS
<1>6. Init => zone \in Zones /\ pc \in Places /\ got = NONE /\ started = FALSE /\ settling = FALSE
  OBVIOUS
<1>7. Init => TypeOK
  BY <1>1, <1>2, <1>3, <1>4, <1>5, <1>6 DEF TypeOK
<1>8. Init => Positions /\ OwnField /\ InTime /\ OneRange /\ Drained /\ FiledUnderItsZone
  BY DEF Positions, OwnField, InTime, OneRange, Drained, FiledUnderItsZone, Measuring, Early
<1> QED
  BY <1>7, <1>8 DEF Inv

LEMMA AgeTypes == ClockOK /\ [Next]_vars => age' \in 0 .. Guard
BY Times DEF ClockOK, Next, Channel, vars, Pass, CheckForDataReady, GetResult, ClearInterrupt, File, GiveUp,
   SwitchStop, SwitchZone, SwitchStart, Stamp, DrainStop, Rearm, Aim, Launch, PowerCycle, Finish, Tick, More

LEMMA LeftTypes == ClockOK /\ [Next]_vars => left' \in 0 .. Settle
BY Times DEF ClockOK, Next, Channel, vars, Pass, CheckForDataReady, GetResult, ClearInterrupt, File, GiveUp,
   SwitchStop, SwitchZone, SwitchStart, Stamp, DrainStop, Rearm, Aim, Launch, PowerCycle, Finish, Tick, Less

LEMMA LullTypes == ClockOK /\ [Next]_vars => lull' \in 0 .. Slip
BY Times DEF ClockOK, Next, Channel, vars, Pass, CheckForDataReady, GetResult, ClearInterrupt, File, GiveUp,
   SwitchStop, SwitchZone, SwitchStart, Stamp, DrainStop, Rearm, Aim, Launch, PowerCycle, Finish, Tick, Works, Fails, Write

LEMMA FlagTypes == FlagsOK /\ [Next]_vars => FlagsOK'
BY DEF FlagsOK, Next, Channel, vars, Pass, CheckForDataReady, GetResult, ClearInterrupt, File, GiveUp,
   SwitchStop, SwitchZone, SwitchStart, Stamp, DrainStop, Rearm, Aim, Launch, PowerCycle, Finish, Tick, Works, Fails, Write

LEMMA PlaceTypes == pc \in Places /\ [Next]_vars => pc' \in Places
BY DEF Places, Next, Channel, vars, Pass, CheckForDataReady, GetResult, ClearInterrupt, File, GiveUp,
   SwitchStop, SwitchZone, SwitchStart, Stamp, DrainStop, Rearm, Aim, Launch, PowerCycle, Finish, Tick, Works, Fails, Write

LEMMA FaultTypes == faults \in 0 .. MaxFaults /\ [Next]_vars => faults' \in 0 .. MaxFaults
BY Times DEF Next, Channel, vars, budgets, Pass, CheckForDataReady, GetResult, ClearInterrupt, File, GiveUp,
   SwitchStop, SwitchZone, SwitchStart, Stamp, DrainStop, Rearm, Aim, Launch, PowerCycle, Finish, Tick, Works, Fails, Write
LEMMA StallTypes == stalls \in 0 .. MaxStalls /\ [Next]_vars => stalls' \in 0 .. MaxStalls
BY Times DEF Next, Channel, vars, budgets, Pass, CheckForDataReady, GetResult, ClearInterrupt, File, GiveUp,
   SwitchStop, SwitchZone, SwitchStart, Stamp, DrainStop, Rearm, Aim, Launch, PowerCycle, Finish, Tick, Works, Fails, Write
LEMMA ZoneTypes == zone \in Zones /\ [Next]_vars => zone' \in Zones
BY DEF Zones, Opposite, Next, Channel, vars, Pass, CheckForDataReady, GetResult, ClearInterrupt, File, GiveUp,
   SwitchStop, SwitchZone, SwitchStart, Stamp, DrainStop, Rearm, Aim, Launch, PowerCycle, Finish, Tick
LEMMA SensorTypes == SensorOK /\ zone \in Zones /\ [Next]_vars => SensorOK'
<1> USE Times DEF sensor, Write
<1> SUFFICES ASSUME SensorOK, zone \in Zones, [Next]_vars PROVE SensorOK' OBVIOUS
<1>1. CASE Begun
  BY <1>1 DEF SensorOK, Begun, Spoilt, Fields
<1>2. CASE Stopped
  BY <1>2 DEF SensorOK, Stopped
<1>3. CASE Cleared
  BY <1>3 DEF SensorOK, Cleared
<1>4. CASE \E f \in Fields : Aimed(f)
  BY <1>4 DEF SensorOK, Aimed, Spoilt, Fields
<1>5. CASE UNCHANGED sensor
  BY <1>5 DEF SensorOK
<1>6. CASE SwitchZone \/ Aim
  <2>1. \A z \in Zones : z \in Fields /\ Opposite(z) \in Fields
     BY DEF Zones, Fields, Opposite
  <2>2. \A z \in Fields : AimFailed(z) => \E f \in Fields : Aimed(f)
     BY DEF AimFailed, Fields, SensorOK
  <2> QED
  BY <1>4, <1>6, <2>1, <2>2 DEF SwitchZone, Aim
<1>7. CASE PowerCycle
  <2>1. roi' \in Fields /\ range' = NONE /\ result' = NONE /\ ranging' = FALSE /\ since' = Guard
    BY <1>7 DEF PowerCycle, Fields, Zones
  <2>2. since' \in 0 .. Guard
    BY <2>1
  <2> QED
    BY <2>1, <2>2 DEF SensorOK
<1>8. CASE Finish
  BY <1>8 DEF Finish, SensorOK
<1>9. CASE Tick
  <2>1. range' \in Fields \cup {NONE}
    BY <1>9 DEF Tick, SensorOK, Spoilt, Fields
  <2>2. since' \in 0 .. Guard
    BY <1>9 DEF Tick, SensorOK, More
  <2> QED
    BY <1>9, <2>1, <2>2 DEF Tick, SensorOK
<1> QED
  BY <1>1, <1>2, <1>3, <1>5, <1>6, <1>7, <1>8, <1>9 DEF Next, Channel, vars, Pass, CheckForDataReady, GetResult, ClearInterrupt, File, GiveUp,
   SwitchStop, SwitchStart, Stamp, DrainStop, Rearm, Launch

LEMMA FiledTypes == FiledOK /\ got \in Fields \cup {NONE} /\ zone \in Zones /\ [Next]_vars => FiledOK'
BY DEF FiledOK, Next, Channel, vars, Pass, CheckForDataReady, GetResult, ClearInterrupt, File, GiveUp,
   SwitchStop, SwitchZone, SwitchStart, Stamp, DrainStop, Rearm, Aim, Launch, PowerCycle, Finish, Tick
LEMMA GotTypes == got \in Fields \cup {NONE} /\ result \in Fields \cup {NONE} /\ [Next]_vars => got' \in Fields \cup {NONE}
BY DEF Next, Channel, vars, Pass, CheckForDataReady, GetResult, ClearInterrupt, File, GiveUp,
   SwitchStop, SwitchZone, SwitchStart, Stamp, DrainStop, Rearm, Aim, Launch, PowerCycle, Finish, Tick

LEMMA NextTypes == TypeOK /\ [Next]_vars => TypeOK'
<1> SUFFICES ASSUME TypeOK, [Next]_vars PROVE TypeOK'
  OBVIOUS
<1>1. SensorOK' /\ zone' \in Zones /\ got' \in Fields \cup {NONE} /\ FiledOK'
  BY SensorTypes, ZoneTypes, GotTypes, FiledTypes DEF TypeOK, SensorOK, FiledOK
<1>2. age' \in 0 .. Guard /\ left' \in 0 .. Settle /\ lull' \in 0 .. Slip
  BY AgeTypes, LeftTypes, LullTypes DEF TypeOK, ClockOK
<1>3. FlagsOK' /\ pc' \in Places
  BY FlagTypes, PlaceTypes DEF TypeOK, FlagsOK
<1>4. faults' \in 0 .. MaxFaults /\ stalls' \in 0 .. MaxStalls
  BY FaultTypes, StallTypes DEF TypeOK
<1> QED
  BY <1>1, <1>2, <1>3, <1>4 DEF TypeOK, SensorOK, FiledOK, FlagsOK

LEMMA NextInv == Inv /\ [Next]_vars => Inv'
<1> SUFFICES ASSUME Inv, [Next]_vars PROVE Inv'
  OBVIOUS
<1>0. TypeOK'
  BY NextTypes DEF Inv
<1> USE Times DEF Inv, TypeOK, Positions, OwnField, InTime, OneRange, Drained,
  FiledUnderItsZone, Measuring, Early, Fields, Zones, Places, NONE, MIXED, sensor, budgets
<1>1. CASE Pass
  <2>2. Positions' /\ FiledUnderItsZone'
    BY <1>1 DEF Pass, Works, Late
  <2>3. OwnField'
    BY <1>1 DEF Pass, Works, Late
  <2>4. InTime'
    BY <1>1 DEF Pass, Works, Late
  <2>5. OneRange'
    BY <1>1 DEF Pass, Works, Late
  <2>6. Drained'
    BY <1>1 DEF Pass, Works, Late
  <2> QED
    BY <1>0, <2>2, <2>3, <2>4, <2>5, <2>6
<1>2. CASE CheckForDataReady
  BY <1>0, <1>2 DEF CheckForDataReady, Works, Fails
<1>3. CASE GetResult
  BY <1>0, <1>3 DEF GetResult, Works, Fails
<1>4. CASE ClearInterrupt
  <2>2. Positions' /\ FiledUnderItsZone'
    BY <1>4 DEF ClearInterrupt, Write, Works, Fails, Cleared
  <2>3. OwnField'
    BY <1>4 DEF ClearInterrupt, Write, Works, Fails, Cleared
  <2>4. InTime'
    BY <1>4 DEF ClearInterrupt, Write, Works, Fails, Cleared
  <2>5. OneRange'
    BY <1>4 DEF ClearInterrupt, Write, Works, Fails, Cleared
  <2>6. Drained'
    BY <1>4 DEF ClearInterrupt, Write, Works, Fails, Cleared
  <2> QED
    BY <1>0, <2>2, <2>3, <2>4, <2>5, <2>6
<1>5. CASE File
  BY <1>0, <1>5 DEF File, Works, Late
<1>6. CASE GiveUp
  <2>2. Positions' /\ FiledUnderItsZone'
    BY <1>6 DEF GiveUp, Works, Late
  <2>3. OwnField'
    BY <1>6 DEF GiveUp, Works, Late
  <2>4. InTime'
    BY <1>6 DEF GiveUp, Works, Late
  <2>5. OneRange'
    BY <1>6 DEF GiveUp, Works, Late
  <2>6. Drained'
    BY <1>6 DEF GiveUp, Works, Late
  <2> QED
    BY <1>0, <2>2, <2>3, <2>4, <2>5, <2>6
<1>7. CASE SwitchStop
  <2>2. Positions' /\ FiledUnderItsZone'
    BY <1>7 DEF SwitchStop, Write, Works, Fails, Stopped
  <2>3. OwnField'
    BY <1>7 DEF SwitchStop, Write, Works, Fails, Stopped
  <2>4. InTime'
    BY <1>7 DEF SwitchStop, Write, Works, Fails, Stopped
  <2>1. age < Guard - Slip
    BY <1>7 DEF SwitchStop
  <2>7. range = NONE /\ result = NONE
    BY <1>7, <2>1 DEF SwitchStop
  <2>5. OneRange'
    BY <1>7, <2>7 DEF SwitchStop, Write, Works, Fails, Stopped
  <2>6. Drained'
    BY <1>7 DEF SwitchStop, Write, Works, Fails, Stopped
  <2> QED
    BY <1>0, <2>2, <2>3, <2>4, <2>5, <2>6
<1>8. CASE SwitchZone
  <2>2. Positions' /\ FiledUnderItsZone'
    BY <1>0, <1>8 DEF SwitchZone, Works, Fails, Aimed, AimFailed, Spoilt, Opposite
  <2>3. OwnField'
    BY <1>0, <1>8 DEF SwitchZone, Works, Fails, Aimed, AimFailed, Spoilt, Opposite
  <2>4. InTime'
    BY <1>0, <1>8 DEF SwitchZone, Works, Fails, Aimed, AimFailed, Spoilt, Opposite
  <2>5. OneRange'
    BY <1>0, <1>8 DEF SwitchZone, Works, Fails, Aimed, AimFailed, Spoilt, Opposite
  <2>6. Drained'
    BY <1>0, <1>8 DEF SwitchZone, Works, Fails, Aimed, AimFailed, Spoilt, Opposite
  <2> QED
    BY <1>0, <2>2, <2>3, <2>4, <2>5, <2>6
<1>9. CASE SwitchStart
  <2>2. Positions' /\ FiledUnderItsZone'
    BY <1>9 DEF SwitchStart, Write, Works, Fails, Begun, Spoilt
  <2>3. OwnField'
    BY <1>9 DEF SwitchStart, Write, Works, Fails, Begun, Spoilt
  <2>4. InTime'
    BY <1>9 DEF SwitchStart, Write, Works, Fails, Begun, Spoilt
  <2>5. OneRange'
    BY <1>9 DEF SwitchStart, Write, Works, Fails, Begun, Spoilt
  <2>6. Drained'
    BY <1>9 DEF SwitchStart, Write, Works, Fails, Begun, Spoilt
  <2> QED
    BY <1>0, <2>2, <2>3, <2>4, <2>5, <2>6
<1>10. CASE Stamp
  <2>2. Positions' /\ FiledUnderItsZone'
    BY <1>10 DEF Stamp, Works
  <2>3. OwnField'
    BY <1>10 DEF Stamp, Works
  <2>4. InTime'
    BY <1>10 DEF Stamp, Works
  <2>5. OneRange'
    BY <1>10 DEF Stamp, Works
  <2>6. Drained'
    BY <1>10 DEF Stamp, Works
  <2> QED
    BY <1>0, <2>2, <2>3, <2>4, <2>5, <2>6
<1>11. CASE DrainStop
  <2>2. Positions' /\ FiledUnderItsZone'
    BY <1>11 DEF DrainStop, Works, Fails, Stopped
  <2>3. OwnField'
    BY <1>11 DEF DrainStop, Works, Fails, Stopped
  <2>4. InTime'
    BY <1>11 DEF DrainStop, Works, Fails, Stopped
  <2>5. OneRange'
    BY <1>11 DEF DrainStop, Works, Fails, Stopped
  <2>6. Drained'
    BY <1>11 DEF DrainStop, Works, Fails, Stopped
  <2> QED
    BY <1>0, <2>2, <2>3, <2>4, <2>5, <2>6
<1>12. CASE Rearm
  BY <1>0, <1>12 DEF Rearm, Write, Works, Fails, Cleared
<1>13. CASE Aim
  BY <1>0, <1>13 DEF Aim, Works, Fails, Aimed, AimFailed, Spoilt
<1>14. CASE Launch
  <2>1. range = NONE /\ result = NONE
    BY <1>14 DEF Launch
  <2>2. Positions' /\ FiledUnderItsZone'
    BY <1>0, <1>14, <2>1 DEF Launch, Works, Fails, Begun, Spoilt
  <2>3. OwnField'
    BY <1>0, <1>14, <2>1 DEF Launch, Works, Fails, Begun, Spoilt
  <2>7. started' = FALSE /\ pc' # "stop" /\ lull' = 0 /\ (pc' = "stamp" => since' = 0)
    BY <1>14 DEF Launch, Works, Fails, Begun
  <2>4. InTime'
    BY <2>7
  <2>5. OneRange'
    BY <1>0, <1>14, <2>1 DEF Launch, Works, Fails, Begun, Spoilt
  <2>6. Drained'
    BY <1>0, <1>14, <2>1 DEF Launch, Works, Fails, Begun, Spoilt
  <2> QED
    BY <1>0, <2>2, <2>3, <2>4, <2>5, <2>6
<1>15. CASE PowerCycle
  <2>2. Positions' /\ FiledUnderItsZone'
    BY <1>15 DEF PowerCycle, Fails
  <2>3. OwnField'
    BY <1>15 DEF PowerCycle, Fails
  <2>4. InTime'
    BY <1>15 DEF PowerCycle, Fails
  <2>5. OneRange'
    BY <1>15 DEF PowerCycle, Fails
  <2>6. Drained'
    BY <1>15 DEF PowerCycle, Fails
  <2> QED
    BY <1>0, <2>2, <2>3, <2>4, <2>5, <2>6
<1>16. CASE Finish
  BY <1>0, <1>16 DEF Finish
<1>17. CASE Tick
  <2>2. Positions' /\ FiledUnderItsZone'
    BY <1>0, <1>17 DEF Tick, More, Less, Spoilt, Prompt
  <2>3. OwnField'
    BY <1>0, <1>17 DEF Tick, More, Less, Spoilt, Prompt
  <2>1. (ranging /\ since + 1 >= Guard) \/ since' <= since + 1
    BY <1>17 DEF Tick, More
  <2>7. pc \in Prompt => lull' = lull + 1
    BY <1>17 DEF Tick
  <2>8. pc' = pc /\ started' = started /\ age' <= age + 1 /\ (age' = age + 1 \/ age' = Guard)
    BY <1>0, <1>17 DEF Tick, More
  <2>9. lull' <= Slip /\ lull <= Slip /\ since \in Nat /\ since' \in Nat /\ age \in Nat /\ age' \in Nat
    BY <1>0
  <2>10. (pc = "stamp" => since' <= lull')
    BY <2>1, <2>7, <2>9 DEF Prompt
  <2>11. started' /\ Early' => since' <= age' + Slip
    <3>1. SUFFICES ASSUME started, age' < Guard - Slip PROVE since' <= age' + Slip
      BY <2>8
    <3>2. age' = age + 1 /\ since <= age + Slip /\ since + 1 < Guard
      BY <2>8, <2>9, <3>1
    <3> QED
      BY <2>1, <2>9, <3>2
  <2>12. pc = "stop" => age' < Guard - Margin + lull'
    BY <2>7, <2>8, <2>9 DEF Prompt
  <2>4. InTime'
    BY <2>8, <2>10, <2>11, <2>12
  <2>5. OneRange'
    BY <1>0, <1>17 DEF Tick, More, Less, Spoilt, Prompt
  <2>13. ASSUME settling, pc # "stamp", range # NONE
         PROVE  since' = since + 1 /\ left' = left - 1 /\ since + left >= Settle /\ left > 1
    BY <1>17, <2>9, <2>13 DEF Tick, More, Less
  <2>14. settling /\ pc # "stamp" => range' = range /\ ~ranging
    BY <1>17 DEF Tick
  <2>15. UNCHANGED <<settling, pc, ranging, result>>
    BY <1>17 DEF Tick
  <2>16. left \in Nat
    OBVIOUS
  <2>17. settling' /\ pc' # "stamp" /\ range' # NONE => since' + left' >= Settle /\ left' > 0
    BY <2>9, <2>13, <2>14, <2>15, <2>16
  <2>6. Drained'
    BY <2>14, <2>15, <2>17
  <2> QED
    BY <1>0, <2>2, <2>3, <2>4, <2>5, <2>6
<1>18. CASE UNCHANGED vars
  BY <1>0, <1>18 DEF vars
<1> QED
  BY <1>1, <1>2, <1>3, <1>4, <1>5, <1>6, <1>7, <1>8, <1>9, <1>10, <1>11, <1>12, <1>13, <1>14,
     <1>15, <1>16, <1>17, <1>18 DEF Next, Channel

LEMMA Invariance == Spec => []Inv
BY InitInv, NextInv, PTL DEF Spec

\* The types hold, for all constants.
THEOREM AcquisitionTypes == Spec => []TypeOK
<1>1. Inv => TypeOK
  BY DEF Inv
<1> QED
  BY <1>1, Invariance, PTL

\* No result is filed under another zone than the one it was measured in, for all
\* periods and delays and any number of transfers that fail.
THEOREM ResultsAreTheirZones == Spec => []FiledUnderItsZone
<1>1. Inv => FiledUnderItsZone
  BY DEF Inv
<1> QED
  BY <1>1, Invariance, PTL

\* The ROI does not move under a range in progress, which may still be filed.
THEOREM RangesKeepTheirROI == Spec => AimedBetweenRanges
<1>1. Inv /\ [Next]_vars => [range # NONE /\ range' # NONE => roi' = roi]_vars
  <2> SUFFICES ASSUME Inv, Next, range # NONE, range' # NONE PROVE roi' = roi
    BY DEF vars, sensor
  <2>1. CASE SwitchZone
    BY <2>1 DEF SwitchZone, Inv, OneRange
  <2>2. CASE Aim
    BY <2>2 DEF Aim, Inv, Positions, Drained
  <2>3. CASE PowerCycle
    BY <2>3 DEF PowerCycle
  <2>4. CASE Finish \/ Tick
    BY <2>4 DEF Finish, Tick
  <2>5. CASE Pass \/ CheckForDataReady \/ GetResult \/ ClearInterrupt \/ File \/ GiveUp
    BY <2>5 DEF Pass, CheckForDataReady, GetResult, ClearInterrupt, File, GiveUp, Write, Cleared, sensor
  <2>6. CASE SwitchStop \/ SwitchStart \/ Stamp \/ DrainStop \/ Rearm \/ Launch
    BY <2>6 DEF SwitchStop, SwitchStart, Stamp, DrainStop, Rearm, Launch, Write, Stopped, Begun, Cleared, sensor
  <2> QED
    BY <2>1, <2>2, <2>3, <2>4, <2>5, <2>6 DEF Next, Channel
<1> QED
  BY <1>1, Invariance, PTL DEF Spec, AimedBetweenRanges
=============================================================================
