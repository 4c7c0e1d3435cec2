--------------------------- MODULE RecoveryProofs ---------------------------
(***************************************************************************)
(* For any number of channels, any timing and any failing transfers: while *)
(* supplies hold, the sensors are addressed apart.                         *)
(***************************************************************************)
EXTENDS Recovery, TLAPS

Types ==
  /\ powered \in [Channels -> BOOLEAN] /\ initialized \in [Channels -> BOOLEAN]
  /\ address \in [Channels -> Addresses]
  /\ index \in Channels /\ stage \in Stages

\* At most the sensor under recovery is awake outside service, and it is out of
\* service from its power-off to its configuration.
InServiceApart == \A i \in Channels : initialized[i] => InService(i)
OneAwake ==
  \A i \in Channels :
    powered[i] /\ ~initialized[i] => i = index /\ stage \notin {"IDLE", "POWER_OFF"}
OwnAddress == \A i \in Channels : address[i] \in {DEFAULT, i}
OutOfService == stage # "IDLE" => ~initialized[index]

Inv == Types /\ InServiceApart /\ OneAwake /\ OwnAddress /\ OutOfService

-----------------------------------------------------------------------------
(* The initial state, and one lemma per kind of step.                      *)

LEMMA InitInv == Init => Inv
<1> SUFFICES ASSUME Init PROVE Inv
  OBVIOUS
<1>1. 1 \in Channels
  BY RecoveryAssumption DEF Channels
<1> QED
  BY <1>1 DEF Init, Inv, Types, InServiceApart, OneAwake, OwnAddress, OutOfService, InService, Addresses, Stages

\* Nothing that moves no sensor and leaves the stage alone disturbs the invariant.
LEMMA SameChannels ==
  Inv /\ UNCHANGED <<channel, stage, index>> => Inv'
BY DEF Inv, Types, InServiceApart, OneAwake, OwnAddress, OutOfService, InService, channel

LEMMA PowerOffInv == ASSUME NEW f, NEW w, Inv, PowerOff(f, w) PROVE Inv'
<1>1. index' \in Channels
  BY DEF PowerOff, First, NeedsRecovery
<1> QED
  BY <1>1 DEF PowerOff, Inv, Types, InServiceApart, OneAwake, OwnAddress, OutOfService,
     InService, Addresses, Stages

LEMMA PowerOnInv == ASSUME NEW f, NEW w, NEW step, Inv, PowerOn(f, w, step) PROVE Inv'
BY DEF PowerOn, Inv, Types, InServiceApart, OneAwake, OwnAddress, OutOfService,
   InService, Addresses, Stages

\* Only the sensor under recovery can be at the default address.
LEMMA OnlyOneMoves ==
  ASSUME Inv, NEW i \in Channels, i \in Answering(DEFAULT)
  PROVE  i = index
<1>1. DEFAULT \notin Channels
  BY RecoveryAssumption DEF DEFAULT, Channels
<1> QED
  BY <1>1 DEF Inv, InServiceApart, OneAwake, InService, Answering

LEMMA SetAddressInv == ASSUME NEW f, NEW w, NEW step, Inv, SetAddress(f, w, step) PROVE Inv'
<1>1. \A i \in Channels : address'[i] = IF i \in Answering(DEFAULT) THEN index ELSE address[i]
  BY DEF SetAddress, Moved
<1>2. address' \in [Channels -> Addresses]
  BY DEF SetAddress, Moved, Inv, Types, Addresses
<1>3. \A i \in Channels : i # index => address'[i] = address[i]
  BY <1>1, OnlyOneMoves
<1>4. address'[index] \in {address[index], index}
  BY <1>1 DEF Inv, Types
<1>5. UNCHANGED <<powered, initialized, index>> /\ stage' = "ADDRESS_SETTLE" /\ stage = "BOOT"
  BY DEF SetAddress, Boots
<1> QED
  BY <1>2, <1>3, <1>4, <1>5 DEF Inv, Types, InServiceApart, OneAwake, OwnAddress,
     OutOfService, InService, Stages

LEMMA StageInv ==
  ASSUME NEW f, NEW w, NEW step, Inv,
         AddressSettled(f, w, step) \/ InitRegisters(f, w, step) \/ Wait(f, w, step)
  PROVE  Inv'
BY DEF AddressSettled, InitRegisters, Wait, Inv, Types, InServiceApart, OneAwake,
   OwnAddress, OutOfService, InService, Stages, channel

\* The sensor that answers at the address of the recovered channel is its own.
LEMMA ConfigureInv == ASSUME NEW f, NEW w, Inv, Configure(f, w) PROVE Inv'
<1>1. DEFAULT \notin Channels
  BY RecoveryAssumption DEF DEFAULT, Channels
<1>2. PICK d \in Answering(index) : TRUE
  BY DEF Configure
<1>3. d = index /\ InService(index)
  BY <1>1, <1>2 DEF Answering, Inv, Types, OwnAddress, InService
<1> QED
  BY <1>3 DEF Configure, Inv, Types, InServiceApart, OneAwake, OwnAddress, OutOfService,
     InService, Stages

LEMMA FailInv == ASSUME NEW f, NEW w, NEW step, Inv, Fail(f, w, step) PROVE Inv'
<1>1. stage # "IDLE"
  BY DEF Fail, BootTimedOut, AddressRefused, Boots, InitFailed, ConfigureFailed
<1>2. PICK a \in {address, Moved} : address' = [a EXCEPT ![index] = DEFAULT]
  BY DEF Fail
<1>3. \A i \in Channels : i # index => Moved[i] = address[i]
  BY OnlyOneMoves DEF Moved
<1>4. a \in [Channels -> Addresses]
  BY <1>2 DEF Moved, Inv, Types, Addresses
<1>5. /\ address' \in [Channels -> Addresses] /\ address'[index] = DEFAULT
      /\ \A i \in Channels : i # index => address'[i] = address[i]
  BY <1>2, <1>3, <1>4 DEF Inv, Types, Addresses
<1> QED
  BY <1>1, <1>5 DEF Fail, Inv, Types, InServiceApart, OneAwake, OwnAddress, OutOfService,
     InService, Stages

LEMMA AllOffInv == ASSUME Inv, AllOff PROVE Inv'
BY DEF AllOff, Inv, Types, InServiceApart, OneAwake, OwnAddress, OutOfService,
   InService, Addresses, Stages

LEMMA PassInv == ASSUME NEW step, Inv, Pass(step) PROVE Inv'
<1>1. PICK f \in Found : \E w \in Remaining(f, step) :
        \/ NothingToDo(f, w) \/ PowerOff(f, w)
        \/ Wait(f, w, step) \/ PowerOn(f, w, step)
        \/ SetAddress(f, w, step) \/ AddressSettled(f, w, step)
        \/ InitRegisters(f, w, step) \/ Configure(f, w)
        \/ Fail(f, w, step)
  BY DEF Pass
<1>2. PICK w \in Remaining(f, step) :
        \/ NothingToDo(f, w) \/ PowerOff(f, w)
        \/ Wait(f, w, step) \/ PowerOn(f, w, step)
        \/ SetAddress(f, w, step) \/ AddressSettled(f, w, step)
        \/ InitRegisters(f, w, step) \/ Configure(f, w)
        \/ Fail(f, w, step)
  BY <1>1
<1>3. CASE NothingToDo(f, w)
  BY <1>3, SameChannels DEF NothingToDo, recovery
<1>4. CASE PowerOff(f, w)
  BY <1>4, PowerOffInv
<1>5. CASE PowerOn(f, w, step)
  BY <1>5, PowerOnInv
<1>6. CASE SetAddress(f, w, step)
  BY <1>6, SetAddressInv
<1>7. CASE AddressSettled(f, w, step) \/ InitRegisters(f, w, step) \/ Wait(f, w, step)
  BY <1>7, StageInv
<1>8. CASE Configure(f, w)
  BY <1>8, ConfigureInv
<1>9. CASE Fail(f, w, step)
  BY <1>9, FailInv
<1> QED
  BY <1>2, <1>3, <1>4, <1>5, <1>6, <1>7, <1>8, <1>9

-----------------------------------------------------------------------------
\* As long as no supply dropped, a sensor in service answers alone at its own
\* address, and only the sensor that service_recovery_ is working on can be awake
\* outside service: for any number of channels, any delays, and any failing transfers.
THEOREM SensorsAddressedApart == Spec => []AddressedApart
<1> DEFINE IInv == ~dropped => Inv
<1>1. Init => IInv
  BY InitInv
<1>2. IInv /\ [Next]_vars => IInv'
  <2> SUFFICES ASSUME ~dropped => Inv, [Next]_vars, ~dropped' PROVE Inv'
    OBVIOUS
  <2>1. CASE \E step \in Steps : Pass(step)
    BY <2>1, PassInv DEF Pass
  <2>2. CASE Discover \/ Rediscover
    BY <2>2, AllOffInv DEF Discover, Rediscover
  <2>3. CASE Calm
    BY <2>3, SameChannels DEF Calm, recovery
  <2>4. CASE UNCHANGED vars
    BY <2>4, SameChannels DEF vars, recovery
  <2>5. ~\E i \in Channels : BrownOut(i)
    BY DEF BrownOut
  <2> QED
    BY <2>1, <2>2, <2>3, <2>4, <2>5 DEF Next, Update
<1>3. IInv => AddressedApart
  BY DEF Inv, InServiceApart, OneAwake, OwnAddress, AddressedApart
<1> QED
  BY <1>1, <1>2, <1>3, PTL DEF Spec
=============================================================================
