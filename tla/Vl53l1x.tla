------------------------------- MODULE Vl53l1x -------------------------------
(***************************************************************************)
(* components/vl53l1x: the driver of the legacy counter's one sensor.      *)
(* Every call blocks its caller, so a call is a set of outcomes, one for   *)
(* each way in which its transfers may go.                                 *)
(*                                                                         *)
(* The driver and its chip are one record:                                 *)
(*   own, xshut  the configuration: an address of its own; a shutdown pin  *)
(*   at          the address at which the chip answers                     *)
(*   believed    the address in the library's device object                *)
(*   chip        the region the chip measures                              *)
(*   cached      last_roi_, or NONE without has_last_roi_                  *)
(*   ready       setup_complete_                                           *)
(*   failed      the component was marked failed, which nothing takes back *)
(*   faults      observer: failed transfers since the last measurement     *)
(***************************************************************************)
EXTENDS Naturals, SequencesExt

CONSTANTS
  InitAttempts, \* SENSOR_INIT_ATTEMPTS
  MaxFaults     \* the observer stops counting here

\* Setup is tried more than once; the observer can tell one fault from two.
ASSUME DriverAssumption == InitAttempts \in Nat \ {0, 1} /\ MaxFaults \in Nat \ {0, 1}

DEFAULT == "0x29"
OWN == "own"
Addresses == {DEFAULT, OWN}

NONE == <<"none">>
POWER_UP == <<"power-up">> \* the region of a chip that was just switched on
TORN == <<"torn">>         \* the size of one region and the centre of another
Unset == {NONE, POWER_UP, TORN}

Sensor(regions) ==
  [own : BOOLEAN, xshut : BOOLEAN, at : Addresses, believed : Addresses,
   chip : regions \cup Unset, cached : regions \cup Unset,
   ready : BOOLEAN, failed : BOOLEAN, faults : 0 .. MaxFaults]

\* A sensor and an ESP that are switched on together.
New(own, xshut) ==
  [own |-> own, xshut |-> xshut, at |-> DEFAULT, believed |-> DEFAULT, chip |-> POWER_UP,
   cached |-> NONE, ready |-> FALSE, failed |-> FALSE, faults |-> 0]

Answers(d) == d.at = d.believed
Fault(d) == [d EXCEPT !.faults = IF @ < MaxFaults THEN @ + 1 ELSE @]

-----------------------------------------------------------------------------
(* Setup and recovery.                                                     *)

\* disable_sensor_, enable_sensor_: without a pin both return at once.
PowerCycle(d) == IF d.xshut THEN [d EXCEPT !.at = DEFAULT, !.chip = POWER_UP] ELSE d

Target(d) == IF d.own THEN OWN ELSE DEFAULT

\* init and apply_post_init_settings_: the address is set only when the library
\* does not hold it yet; a chip that fell back to the default stays unheard.  A
\* transfer that fails may have reached the chip.
Initialized(d) ==
  LET moved == [d EXCEPT !.at = Target(d), !.believed = Target(d)]
  IN IF ~Answers(d) THEN {d}
     ELSE {[moved EXCEPT !.ready = TRUE], Fault(moved)}
          \cup (IF d.believed = Target(d) THEN {} ELSE {Fault(d), Fault([d EXCEPT !.at = Target(d)])})

\* Mutant: the region written last is trusted after a power cycle.
RecoverTrusting(d) == Initialized(PowerCycle([d EXCEPT !.ready = FALSE]))

Recover(d) == Initialized(PowerCycle([d EXCEPT !.ready = FALSE, !.cached = NONE]))

\* One attempt of setup(), unless an earlier one succeeded.
Attempt(d, nth) == IF d.ready THEN {d} ELSE Initialized(IF nth = 1 THEN d ELSE PowerCycle(d))

\* initialize_wire_, which later calls find done: a bus that does not start, or is
\* another's for too long, fails the component; every transfer would have.
Wired(d) == {d, [d EXCEPT !.failed = TRUE, !.faults = MaxFaults]}

\* What may have become of w after each number of attempts.
Tries(w) ==
  LET tried[nth \in 0 .. InitAttempts] ==
        IF nth = 0 THEN {w} ELSE UNION {Attempt(s, nth) : s \in tried[nth - 1]}
  IN tried

\* setup(): prepare_xshut_pins_ has switched off a sensor with a pin.
Setup(d) ==
  UNION {IF w.failed THEN {w} ELSE {[s EXCEPT !.failed = ~s.ready] : s \in Tries(w)[InitAttempts]} :
           w \in Wired(PowerCycle(d))}

-----------------------------------------------------------------------------
(* Reading: outcomes are the sensor afterwards and the status.  OK is a    *)
(* distance, REJECTED an optical rejection, ERROR everything else.         *)

Outcome(d, status) == [tof |-> d, status |-> status]

\* read_distance_once_
ReadOnce(d, roi) ==
  LET aimed == IF d.cached = roi THEN d ELSE [d EXCEPT !.chip = roi, !.cached = roi]
      half == {[d EXCEPT !.chip = c] : c \in {d.chip, TORN}}
  IN IF d.failed \/ ~d.ready THEN {Outcome(d, "ERROR")}
     ELSE {Outcome([aimed EXCEPT !.faults = 0], status) : status \in {"OK", "REJECTED"}}
          \cup {Outcome(Fault(aimed), "ERROR")}
          \cup (IF d.cached = roi THEN {} ELSE {Outcome(Fault(s), "ERROR") : s \in half})

\* The recovery after a failed read, and the one read that is tried again.
Again(d, roi) ==
  UNION {IF s.ready THEN ReadOnce(s, roi) ELSE {Outcome([s EXCEPT !.failed = TRUE], "ERROR")} :
           s \in Recover(d)}

\* Mutant: a failed transfer fails the component.
ReadDistanceStrict(d, roi) ==
  {IF o.status = "ERROR" THEN Outcome([o.tof EXCEPT !.failed = TRUE], "ERROR") ELSE o : o \in ReadOnce(d, roi)}

\* read_distance
ReadDistance(d, roi) ==
  UNION {IF o.status = "ERROR" THEN Again(o.tof, roi) ELSE {o} : o \in ReadOnce(d, roi)}
=============================================================================
