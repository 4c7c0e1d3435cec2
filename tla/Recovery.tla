------------------------------ MODULE Recovery ------------------------------
(***************************************************************************)
(* service_recovery_ of tof_overdoor_counter.cpp: the power cycle that     *)
(* brings a sensor into service, one sensor at a time, while the others    *)
(* go on ranging.  Every sensor wakes up at the same default address and is*)
(* moved from there to its own, so two of them must not wake up together.  *)
(*                                                                         *)
(* One step is one pass of update(): all channels are read, and then the   *)
(* recovery takes at most one step.  A deadline is kept as what is left of *)
(* it.  The bus is quiet or disturbed: while it is disturbed any transfer  *)
(* may fail, a sensor may lose its supply for a moment and an operator may *)
(* ask for a rediscovery.                                                  *)
(***************************************************************************)
EXTENDS Integers, FiniteSets

CONSTANTS
  N,            \* channels, in the order they are served
  OffMs,        \* how long a sensor is held in XSHUT
  WakeMs, TimeoutMs, SettleMs, \* wake_delay_ms_, timeout_ms_, post_address_delay_ms_
  InitSteps,    \* passes SensorInit needs
  InitRetries,  \* init_retries_
  BaseMs, MaxMs, MaxAttempts,  \* the back-off
  RecoveredMs,  \* earliest next power cycle of a recovered sensor
  Disturbances, \* what goes on while the bus is disturbed: "transfers" fail, and a
                \* "supply" drops for a moment; empty if it never is
  Steps         \* milliseconds between two passes

Channels == 1 .. N
DEFAULT == 0
Addresses == {DEFAULT} \cup Channels

\* The configuration is refused unless the time limit covers the staged
\* initialization (__init__.py).
ASSUME RecoveryAssumption ==
  /\ N \in Nat \ {0}
  /\ {OffMs, WakeMs, TimeoutMs, SettleMs, BaseMs, MaxMs, RecoveredMs} \subseteq Nat
  /\ {InitSteps, InitRetries, MaxAttempts} \subseteq Nat
  /\ Disturbances \subseteq {"transfers", "supply"}
  /\ Steps \subseteq Nat \ {0}
  /\ \A step \in Steps : (InitSteps + 2) * step < TimeoutMs

VARIABLES
  device,       \* what stands behind each channel: "good", "absent", or "failing",
                \* which comes up and then delivers no result or only hardware faults
  powered,      \* XSHUT is high
  address,      \* where the device answers, DEFAULT since it was powered
  initialized,
  faulty,       \* three errors or hardware faults in a row, or no result in time
  attempts,     \* recovery_attempts
  due,          \* what is left until next_recovery_ms
  stage, index, \* recovery_stage_, recovery_index_
  deadline,     \* what is left until recovery_deadline_, or of SensorInit's limit
  steps,        \* SensorInit::step_
  wire,         \* wire_initialized_, with the channels discovered
  disturbed,
  dropped       \* observer: a supply has dropped

recovery == <<stage, index, deadline, steps>>
channel == <<powered, address, initialized, attempts>>
vars == <<device, channel, faulty, due, recovery, wire, disturbed, dropped>>

Stages == {"IDLE", "POWER_OFF", "BOOT", "ADDRESS_SETTLE", "INIT_REGISTERS", "CONFIGURE"}
Kinds == {"good", "absent", "failing"}

Left(t, step) == IF t > step THEN t - step ELSE 0

\* The devices that take part in a transfer with an address.
Answering(a) == {i \in Channels : powered[i] /\ address[i] = a /\ device[i] # "absent"}

-----------------------------------------------------------------------------
(* read_channel_ for every initialized channel.                            *)

\* No device answers at a channel's address with results.
NoResult(i) == \A d \in Answering(i) : device[d] = "failing"

\* What reading may find of a channel.  Without results it is faulty sooner or
\* later: after three errors or hardware faults, or at the time limit for a result;
\* the next result ends that.  A disturbed transfer, or two devices at one
\* address, may show anything.
Readings(i) ==
  IF ~initialized[i] THEN {faulty[i]}
  ELSE IF NoResult(i) THEN {faulty[i], TRUE}
  ELSE IF disturbed \/ Cardinality(Answering(i)) > 1 THEN BOOLEAN
  ELSE {faulty[i], FALSE}

Found == {f \in [Channels -> BOOLEAN] : \A i \in Channels : f[i] \in Readings(i)}

\* What is left of the waiting times; a valid result ends that of its channel.
Remaining(f, step) ==
  LET valid == {i \in Channels : initialized[i] /\ ~f[i] /\ ~NoResult(i)}
  IN {[i \in Channels |-> IF i \in reset THEN 0 ELSE Left(due[i], step)] : reset \in SUBSET valid}

-----------------------------------------------------------------------------
(* The stages: f is what was found, w is what is left to wait.             *)

\* Mutant: a channel in service needs none.
NeedsRecoveryAtStartOnly(f, w) == {i \in Channels : ~initialized[i] /\ w[i] = 0}

NeedsRecovery(f, w) == {i \in Channels : (~initialized[i] \/ f[i]) /\ w[i] = 0}

First(S) == {i \in S : \A j \in S : i <= j}

Passed(step) == deadline <= step

NothingToDo(f, w) ==
  /\ stage = "IDLE" /\ NeedsRecovery(f, w) = {}
  /\ faulty' = f /\ due' = w
  /\ UNCHANGED <<channel, recovery, wire>>

\* Mutant: the sensor to be recovered keeps its supply.
PowerOffNobody(f, w) ==
  /\ stage = "IDLE"
  /\ index' \in First(NeedsRecovery(f, w))
  /\ initialized' = [initialized EXCEPT ![index'] = FALSE]
  /\ deadline' = OffMs /\ stage' = "POWER_OFF"
  /\ faulty' = f /\ due' = w
  /\ UNCHANGED <<powered, address, attempts, steps, wire>>

PowerOff(f, w) ==
  /\ stage = "IDLE"
  /\ index' \in First(NeedsRecovery(f, w))
  /\ powered' = [powered EXCEPT ![index'] = FALSE]
  /\ address' = [address EXCEPT ![index'] = DEFAULT]
  /\ initialized' = [initialized EXCEPT ![index'] = FALSE]
  /\ deadline' = OffMs /\ stage' = "POWER_OFF"
  /\ faulty' = f /\ due' = w
  /\ UNCHANGED <<attempts, steps, wire>>

\* The sensor may talk: it has had its wake-up time and has time left.
Awake(step) == ~Passed(step) /\ deadline - step <= TimeoutMs

Boots(step) == stage = "BOOT" /\ Awake(step) /\ Answering(DEFAULT) # {}

\* A deadline that has not passed, or a device that does not answer yet.
Wait(f, w, step) ==
  /\ ~Passed(step)
  /\ \/ stage \in {"POWER_OFF", "ADDRESS_SETTLE"}
     \/ stage = "BOOT" /\ (~Boots(step) \/ disturbed)
  /\ deadline' = deadline - step
  /\ faulty' = f /\ due' = w
  /\ UNCHANGED <<channel, stage, index, steps, wire>>

PowerOn(f, w, step) ==
  /\ stage = "POWER_OFF" /\ Passed(step)
  /\ powered' = [powered EXCEPT ![index] = TRUE]
  /\ deadline' = WakeMs + TimeoutMs /\ stage' = "BOOT"
  /\ faulty' = f /\ due' = w
  /\ UNCHANGED <<address, initialized, attempts, index, steps, wire>>

\* SetI2CAddress reaches every device at the default address.
Moved == [i \in Channels |-> IF i \in Answering(DEFAULT) THEN index ELSE address[i]]

SetAddress(f, w, step) ==
  /\ Boots(step)
  /\ address' = Moved
  /\ deadline' = SettleMs /\ stage' = "ADDRESS_SETTLE"
  /\ faulty' = f /\ due' = w
  /\ UNCHANGED <<powered, initialized, attempts, index, steps, wire>>

AddressSettled(f, w, step) ==
  /\ stage = "ADDRESS_SETTLE" /\ Passed(step)
  /\ deadline' = TimeoutMs /\ steps' = 0 /\ stage' = "INIT_REGISTERS"
  /\ faulty' = f /\ due' = w
  /\ UNCHANGED <<channel, index, wire>>

\* SensorInit::step: one register, or one transfer of the first measurement.
InitRegisters(f, w, step) ==
  /\ stage = "INIT_REGISTERS" /\ ~Passed(step)
  /\ IF steps = InitSteps
     THEN stage' = "CONFIGURE" /\ UNCHANGED steps
     ELSE Answering(index) # {} /\ steps' = steps + 1 /\ UNCHANGED stage
  /\ deadline' = deadline - step
  /\ faulty' = f /\ due' = w
  /\ UNCHANGED <<channel, index, wire>>

Configure(f, w) ==
  /\ stage = "CONFIGURE" /\ Answering(index) # {}
  /\ initialized' = [initialized EXCEPT ![index] = TRUE]
  /\ faulty' = [f EXCEPT ![index] = FALSE]
  /\ attempts' = [attempts EXCEPT ![index] = 0]
  /\ due' = [w EXCEPT ![index] = RecoveredMs]
  /\ stage' = "IDLE"
  /\ UNCHANGED <<powered, address, index, deadline, steps, wire>>

-----------------------------------------------------------------------------
(* The five ways to fail, all of which end in fail_recovery_.              *)

BootTimedOut(step) == stage = "BOOT" /\ Passed(step)
AddressRefused(step) == Boots(step) /\ disturbed
InitFailed(step) ==
  stage = "INIT_REGISTERS" /\ (Passed(step) \/ disturbed \/ (steps < InitSteps /\ Answering(index) = {}))
ConfigureFailed == stage = "CONFIGURE" /\ (disturbed \/ Answering(index) = {})

\* BaseMs << n, up to MaxMs.
Backoff(failures) ==
  LET doublings == IF failures > InitRetries THEN failures - InitRetries ELSE 0
      full == BaseMs * 2 ^ doublings
  IN IF full < MaxMs THEN full ELSE MaxMs

\* Mutant: every failure is the first one.
NotCounted(failures) == 1

Counted(failures) == IF failures < MaxAttempts THEN failures + 1 ELSE MaxAttempts

\* A transfer that fails may have reached the devices.  After a timeout the bus
\* itself is reset if it is held low, which may leave it down.
Fail(f, w, step) ==
  /\ BootTimedOut(step) \/ AddressRefused(step) \/ InitFailed(step) \/ ConfigureFailed
  /\ powered' = [powered EXCEPT ![index] = FALSE]
  /\ \E a \in {address} \cup (IF AddressRefused(step) THEN {Moved} ELSE {}) :
       address' = [a EXCEPT ![index] = DEFAULT]
  /\ initialized' = [initialized EXCEPT ![index] = FALSE]
  /\ attempts' = [attempts EXCEPT ![index] = Counted(@)]
  /\ due' = [w EXCEPT ![index] = Backoff(attempts'[index])]
  /\ faulty' = f
  /\ stage' = "IDLE"
  /\ wire' \in IF BootTimedOut(step) /\ disturbed THEN BOOLEAN ELSE {wire}
  /\ UNCHANGED <<index, deadline, steps>>

\* The part of update() before the quiet end of a pass.
Pass(step) ==
  /\ wire
  /\ \E f \in Found : \E w \in Remaining(f, step) :
       \/ NothingToDo(f, w) \/ PowerOff(f, w)
       \/ Wait(f, w, step) \/ PowerOn(f, w, step)
       \/ SetAddress(f, w, step) \/ AddressSettled(f, w, step)
       \/ InitRegisters(f, w, step) \/ Configure(f, w)
       \/ Fail(f, w, step)
  /\ UNCHANGED <<device, disturbed, dropped>>

-----------------------------------------------------------------------------
(* rediscover, by an operator or once the bus is up.                       *)

AllOff ==
  /\ powered' = [i \in Channels |-> FALSE]
  /\ address' = [i \in Channels |-> DEFAULT]
  /\ initialized' = [i \in Channels |-> FALSE]
  /\ faulty' = [i \in Channels |-> FALSE]
  /\ attempts' = [i \in Channels |-> 0]
  /\ due' = [i \in Channels |-> WakeMs]
  /\ stage' = "IDLE"
  /\ UNCHANGED <<index, deadline, steps>>

Discover == ~wire /\ wire' = TRUE /\ AllOff /\ UNCHANGED <<device, disturbed, dropped>>

Rediscover == disturbed /\ AllOff /\ UNCHANGED <<device, disturbed, wire, dropped>>

\* The supply of a sensor drops for a moment, and it wakes up as if powered anew.
BrownOut(i) ==
  /\ "supply" \in Disturbances /\ disturbed /\ powered[i] /\ address[i] # DEFAULT
  /\ address' = [address EXCEPT ![i] = DEFAULT] /\ dropped' = TRUE
  /\ UNCHANGED <<device, powered, initialized, attempts, faulty, due, recovery, wire, disturbed>>

Calm ==
  /\ disturbed /\ disturbed' = FALSE
  /\ UNCHANGED <<device, channel, faulty, due, recovery, wire, dropped>>

Init ==
  /\ device \in [Channels -> Kinds]
  /\ powered = [i \in Channels |-> FALSE]
  /\ address = [i \in Channels |-> DEFAULT]
  /\ initialized = [i \in Channels |-> FALSE]
  /\ faulty = [i \in Channels |-> FALSE]
  /\ attempts = [i \in Channels |-> 0]
  /\ due = [i \in Channels |-> 0]
  /\ stage = "IDLE" /\ index = 1 /\ deadline = 0 /\ steps = 0
  /\ wire = FALSE /\ disturbed \in {FALSE, Disturbances # {}} /\ dropped = FALSE

Update == (\E step \in Steps : Pass(step)) \/ Discover

Next == Update \/ Rediscover \/ (\E i \in Channels : BrownOut(i)) \/ Calm

Spec == Init /\ [][Next]_vars

\* The limits on errors and on the age of a result notice a sensor without results.
Notice(i) == initialized[i] /\ NoResult(i) /\ ~faulty[i] /\ Update /\ faulty'[i]

\* The main loop keeps calling update(), and those limits do notice.
FairSpec == Spec /\ WF_vars(Update) /\ \A i \in Channels : WF_vars(Notice(i))

-----------------------------------------------------------------------------
TypeOK ==
  /\ device \in [Channels -> Kinds]
  /\ {powered, initialized, faulty} \subseteq [Channels -> BOOLEAN]
  /\ address \in [Channels -> Addresses]
  /\ attempts \in [Channels -> 0 .. MaxAttempts]
  /\ due \in [Channels -> Nat]
  /\ stage \in Stages /\ index \in Channels
  /\ deadline \in Nat /\ steps \in 0 .. InitSteps
  /\ {wire, disturbed, dropped} \subseteq BOOLEAN

InService(i) == powered[i] /\ address[i] = i

\* As long as no supply dropped, service_recovery_ keeps the sensors apart: a sensor in
\* service answers alone at its own address, and of those out of service only the
\* one that is being recovered may be awake, where it meets no other.
AddressedApart ==
  ~dropped =>
    /\ \A i \in Channels : initialized[i] => InService(i)
    /\ \A i \in Channels :
         powered[i] /\ ~initialized[i] => i = index /\ stage \notin {"IDLE", "POWER_OFF"}
    /\ \A i \in Channels : powered[i] => address[i] \in {DEFAULT, i}

\* Every working sensor comes back into service and stays there, once the bus is
\* quiet: however many others are absent or power-cycled for ever, and even if
\* supplies dropped and sensors were mixed up before.
Served(i) == initialized[i] /\ ~faulty[i] /\ Answering(i) = {i}

WorkingSensorsServed ==
  <>[]~disturbed => \A i \in Channels : device[i] = "good" => <>[]Served(i)

\* Once the bus is quiet, a channel without a sensor ends up at the longest
\* back-off and stays there, whatever the other channels do.
MissingSensorsBackOff ==
  <>[]~disturbed => \A i \in Channels : device[i] = "absent" => <>[](attempts[i] = MaxAttempts)

\* "En defekt sensor power-cycles og gjenoppdages isolert med eksponentiell
\* backoff" (Documents/TOF_COUNTER_VALIDATION.md): the same of every sensor that
\* never delivers a result.
DefectiveSensorsBackOff ==
  <>[]~disturbed => \A i \in Channels : device[i] # "good" => <>[](attempts[i] = MaxAttempts)
=============================================================================
