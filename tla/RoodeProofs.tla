----------------------------- MODULE RoodeProofs -----------------------------
(***************************************************************************)
(* The legacy counter, for every number of samples, of readings and of     *)
(* settings, and for any transfer that fails: types, that it counts on     *)
(* what was measured in the right region, in one stretch, and that one     *)
(* failed transfer never fails the driver.                                 *)
(***************************************************************************)
EXTENDS Roode, TLAPS, FiniteSetTheorems, SequenceTheorems

-----------------------------------------------------------------------------
(* What FusionProofs proves holds of the vote of one sensor: the observer  *)
(* of FusionHistory is the one of Roode, for the one sensor that is never  *)
(* gone within an episode.  What it proves of its callers is not used.     *)

LEMMA Bounds ==
  /\ InitAttempts \in Nat /\ InitAttempts >= 2 /\ MaxFaults \in Nat /\ MaxFaults >= 2
  /\ Attempts \in Nat /\ Attempts >= 1 /\ Samples \in Nat /\ Samples >= 1 /\ MaxPeople \in Nat
  /\ ClearMs \in Time /\ MinimumMs \in Time /\ Steps \subseteq Time
  /\ Own \subseteq BOOLEAN /\ XShut \subseteq BOOLEAN /\ CONFIGURED \in Tunings
  BY DriverAssumption, RoodeAssumption

FP == INSTANCE FusionProofs WITH
  Sensors <- {TOF}, Required <- 1, RequiredHealth <- 0, AgreementMs <- Modulus - 1,
  Invert <- FALSE, RequireTimingEvidence <- FALSE, Timed <- FALSE, Horizon <- Modulus,
  quiet <- FALSE, quiet_for <- 0, sampled <- [s \in {TOF} |-> {}],
  whole <- {TOF}, touched <- [s \in {TOF} |-> seen],
  lasted <- 0, left <- [s \in {TOF} |-> Modulus],
  field <- [s \in {TOF} |-> {}], Shortest <- MinimumMs, MaxChanges <- 0, MaxTime <- 0

\* One sensor meets the assumptions of Fusion.
LEMMA OneSensor ==
  /\ Modulus \in Nat /\ ClearMs <= Modulus
  /\ FP!IsFiniteSet({TOF})
  /\ 1 \in Nat \ {0}
  /\ 0 \in Nat
  /\ {ClearMs, MinimumMs, Modulus - 1} \subseteq FP!Time
  /\ {FALSE, FALSE, FALSE} \subseteq BOOLEAN
  /\ MinimumMs \in Nat /\ 0 \in FP!Time
  /\ Steps \subseteq FP!Time
  /\ \E half \in 1 .. Modulus : Modulus = half + half
<1>1. FP!IsFiniteSet({TOF})
  BY FS_Singleton DEF IsFiniteSet, FP!IsFiniteSet
<1>2. Modulus \in Nat /\ \E half \in 1 .. Modulus : Modulus = half + half
  BY ModulusAssumption
<1>3. Modulus >= 1
  BY <1>2
<1>4. ClearMs \in Time /\ MinimumMs \in Time /\ Steps \subseteq Time
  BY Bounds
<1>5. Modulus - 1 \in Time /\ ClearMs <= Modulus /\ 0 \in Time /\ MinimumMs \in Nat
  BY <1>2, <1>3, <1>4 DEF Time
<1> QED
  BY <1>1, <1>2, <1>4, <1>5 DEF Time, FP!Time

\* What is done again and again, as a function of how often.
LEMMA Stepwise ==
  ASSUME NEW N \in Nat, NEW S \in SUBSET (0 .. N), 0 \in S, \A n \in 1 .. N : n - 1 \in S => n \in S
  PROVE \A n \in 0 .. N : n \in S
  BY OneSensor, FP!Stepwise

Changes(N, X) == [1 .. N -> [X -> X]]
Iterates(f, N, X, start, step) ==
  /\ f \in [0 .. N -> X]
  /\ f[0] = start /\ \A n \in 1 .. N : f[n] = step[n][f[n - 1]]

LEMMA Iterated ==
  ASSUME NEW N \in Nat, NEW X, NEW start \in X, NEW step \in Changes(N, X)
  PROVE \E f : Iterates(f, N, X, start, step)
<1>1. step \in FP!Changes(N, X)
  BY DEF Changes, FP!Changes
<1>2. \E f : FP!Iterates(f, N, X, start, step)
  BY <1>1, OneSensor, FP!Iterated
<1> QED
  BY <1>2 DEF Iterates, FP!Iterates

-----------------------------------------------------------------------------
(* The driver: what its calls leave, whatever fails.                       *)

\* The driver trusts a region only while the chip measures in it, and a sensor
\* without an address of its own is where the driver believes it.
Trusted(d) == d.cached # NONE => d.chip = d.cached
Heard(d) == d.own = FALSE => d.at = DEFAULT /\ d.believed = DEFAULT
\* No single failed transfer failed it.
Survives(d) == d.failed = TRUE /\ d.own = FALSE => d.faults >= 2
Up(d) == d.ready = TRUE \/ d.failed = TRUE

Working(d) == d \in Sensor(Regions) /\ Trusted(d) /\ Heard(d) /\ Survives(d) /\ Up(d)

\* What no call changes.
Alike(d, s) == s.own = d.own /\ s.xshut = d.xshut

LEMMA FaultCounts ==
  ASSUME NEW d \in Sensor(Regions)
  PROVE /\ Fault(d) \in Sensor(Regions)
        /\ Fault(d).faults >= 1 /\ Fault(d).faults >= d.faults
        /\ d.faults >= 1 => Fault(d).faults >= 2
        /\ Fault(d) = [d EXCEPT !.faults = Fault(d).faults]
<1> DEFINE n == IF d.faults < MaxFaults THEN d.faults + 1 ELSE d.faults
<1>1. d.faults \in 0 .. MaxFaults
  BY DEF Sensor
<1>2. n \in 0 .. MaxFaults /\ n >= 1 /\ n >= d.faults /\ (d.faults >= 1 => n >= 2)
  BY <1>1, Bounds
<1>3. Fault(d) = [d EXCEPT !.faults = n]
  BY DEF Fault
<1> HIDE DEF n
<1> QED
  BY <1>2, <1>3 DEF Sensor

\* init: the sensor is ready, or a transfer failed; one with an address of its own
\* may also not have been heard at all.
LEMMA InitializedLeaves ==
  ASSUME NEW d \in Sensor(Regions), Heard(d), NEW s \in Initialized(d)
  PROVE /\ s \in Sensor(Regions) /\ Alike(d, s) /\ Heard(s)
        /\ s.chip = d.chip /\ s.cached = d.cached /\ s.failed = d.failed
        /\ s.faults >= d.faults
        /\ d.own \/ s.ready \/ (s.faults >= 1 /\ (d.faults >= 1 => s.faults >= 2))
<1> DEFINE moved == [d EXCEPT !.at = Target(d), !.believed = Target(d)]
           there == [d EXCEPT !.at = Target(d)]
           ready == [moved EXCEPT !.ready = TRUE]
<1>1. Target(d) \in Addresses /\ (d.own = FALSE => Target(d) = DEFAULT) /\ d.own \in BOOLEAN
      /\ d.faults \in 0 .. MaxFaults
  BY DEF Target, Addresses, Sensor
<1>2. moved \in Sensor(Regions) /\ there \in Sensor(Regions) /\ ready \in Sensor(Regions)
  BY <1>1 DEF Sensor
<1>3. s = d \/ s = ready \/ s = Fault(moved) \/ s = Fault(d) \/ s = Fault(there)
  BY DEF Initialized
<1>4. d.own = FALSE => s = ready \/ s = Fault(moved)
  <2>1. SUFFICES ASSUME d.own = FALSE PROVE s = ready \/ s = Fault(moved)
    OBVIOUS
  <2>2. Answers(d) /\ d.believed = Target(d)
    BY <1>1, <2>1 DEF Heard, Answers
  <2> QED
    BY <2>2 DEF Initialized
<1>5. /\ moved.own = d.own /\ moved.xshut = d.xshut /\ moved.chip = d.chip /\ moved.cached = d.cached
      /\ moved.failed = d.failed /\ moved.faults = d.faults /\ moved.at = Target(d) /\ moved.believed = Target(d)
  BY DEF Sensor
<1>6. /\ there.own = d.own /\ there.xshut = d.xshut /\ there.chip = d.chip /\ there.cached = d.cached
      /\ there.failed = d.failed /\ there.faults = d.faults
  BY DEF Sensor
<1>7. /\ ready.own = d.own /\ ready.xshut = d.xshut /\ ready.chip = d.chip /\ ready.cached = d.cached
      /\ ready.failed = d.failed /\ ready.faults = d.faults /\ ready.at = Target(d) /\ ready.believed = Target(d)
      /\ ready.ready = TRUE
  BY DEF Sensor
<1> HIDE DEF moved, there, ready
<1>8. CASE s = d
  BY <1>1, <1>4, <1>5, <1>7, <1>8, <1>2, FaultCounts DEF Heard, Alike, Sensor
<1>9. CASE s = ready
  BY <1>1, <1>2, <1>7, <1>9 DEF Heard, Alike
<1>10. CASE s = Fault(moved)
  <2>1. s = [moved EXCEPT !.faults = s.faults] /\ s \in Sensor(Regions)
    BY <1>2, <1>10, FaultCounts
  <2>2. s.faults >= 1 /\ s.faults >= d.faults /\ (d.faults >= 1 => s.faults >= 2)
    BY <1>2, <1>5, <1>10, FaultCounts
  <2>3. /\ s.own = d.own /\ s.xshut = d.xshut /\ s.chip = d.chip /\ s.cached = d.cached
        /\ s.failed = d.failed /\ s.at = Target(d) /\ s.believed = Target(d)
    BY <1>2, <1>5, <2>1 DEF Sensor
  <2> QED
    BY <1>1, <2>1, <2>2, <2>3 DEF Heard, Alike
<1>11. CASE (s = Fault(d) \/ s = Fault(there)) /\ d.own = TRUE
  <2>1. PICK e \in Sensor(Regions) :
          /\ s = Fault(e) /\ e.own = d.own /\ e.xshut = d.xshut /\ e.chip = d.chip
          /\ e.cached = d.cached /\ e.failed = d.failed /\ e.faults = d.faults
    BY <1>2, <1>6, <1>11
  <2>2. s = [e EXCEPT !.faults = s.faults] /\ s \in Sensor(Regions) /\ s.faults >= d.faults
    BY <2>1, FaultCounts
  <2>3. /\ s.own = d.own /\ s.xshut = d.xshut /\ s.chip = d.chip /\ s.cached = d.cached /\ s.failed = d.failed
    BY <2>1, <2>2 DEF Sensor
  <2> QED
    BY <1>1, <1>11, <2>2, <2>3 DEF Heard, Alike
<1> QED
  BY <1>1, <1>3, <1>4, <1>8, <1>9, <1>10, <1>11

LEMMA PowerCycleLeaves ==
  ASSUME NEW d \in Sensor(Regions), Heard(d)
  PROVE LET s == PowerCycle(d)
        IN /\ s \in Sensor(Regions) /\ Alike(d, s) /\ Heard(s)
           /\ s.cached = d.cached /\ s.ready = d.ready /\ s.failed = d.failed /\ s.faults = d.faults
  BY DEF PowerCycle, Sensor, Heard, Alike, Addresses, Unset

\* recover_sensor_: no region is trusted any more.
LEMMA RecoverLeaves ==
  ASSUME NEW d \in Sensor(Regions), Heard(d), NEW s \in Recover(d)
  PROVE /\ s \in Sensor(Regions) /\ Alike(d, s) /\ Heard(s)
        /\ s.cached = NONE /\ s.failed = d.failed
        /\ s.faults >= d.faults
        /\ d.own \/ s.ready \/ (s.faults >= 1 /\ (d.faults >= 1 => s.faults >= 2))
<1> DEFINE off == [d EXCEPT !.ready = FALSE, !.cached = NONE]
           on == PowerCycle(off)
<1>1. /\ off \in Sensor(Regions) /\ Alike(d, off) /\ Heard(off)
      /\ off.cached = NONE /\ off.failed = d.failed /\ off.faults = d.faults
  BY DEF Sensor, Heard, Alike, Unset
<1>2. /\ on \in Sensor(Regions) /\ Alike(d, on) /\ Heard(on)
      /\ on.cached = NONE /\ on.failed = d.failed /\ on.faults = d.faults
  <2> HIDE DEF off
  <2> QED
    BY <1>1, PowerCycleLeaves DEF Alike
<1>3. s \in Initialized(on)
  BY DEF Recover
<1> HIDE DEF on
<1> QED
  BY <1>2, <1>3, InitializedLeaves DEF Alike

\* read_distance_once_: a result was measured in the region asked for; a failed
\* transfer leaves a fault, and no region trusted that was not before.
LEMMA ReadOnceLeaves ==
  ASSUME NEW d \in Sensor(Regions), Heard(d), Trusted(d), NEW region \in Regions, NEW o \in ReadOnce(d, region)
  PROVE /\ o.tof \in Sensor(Regions) /\ Alike(d, o.tof) /\ Heard(o.tof)
        /\ o.tof.ready = d.ready /\ o.tof.failed = d.failed
        /\ o.status = "ERROR" \/ (Trusted(o.tof) /\ o.tof.chip = region /\ d.failed = FALSE)
        /\ d.cached = NONE => Trusted(o.tof)
        /\ d.failed = TRUE => o.tof = d
        /\ o.status = "ERROR" /\ d.failed = FALSE /\ d.ready = TRUE => o.tof.faults >= 1
<1> DEFINE aimed == IF d.cached = region THEN d ELSE [d EXCEPT !.chip = region, !.cached = region]
           done == [aimed EXCEPT !.faults = 0]
           half(c) == [d EXCEPT !.chip = c]
<1>0. d.failed \in BOOLEAN /\ d.ready \in BOOLEAN /\ d.chip \in Regions \cup Unset /\ 0 \in 0 .. MaxFaults
  BY Bounds DEF Sensor
<1>1. /\ aimed \in Sensor(Regions) /\ Alike(d, aimed) /\ Heard(aimed) /\ Trusted(aimed)
      /\ aimed.ready = d.ready /\ aimed.failed = d.failed /\ aimed.chip = region
  <2>1. CASE d.cached = region
    <3>1. aimed = d /\ (d.cached # NONE => d.chip = region)
      BY <2>1 DEF Trusted
    <3>2. region # NONE
      BY DEF Regions, NONE
    <3> QED
      BY <2>1, <3>1, <3>2 DEF Alike
  <2>2. CASE d.cached # region
    BY <2>2 DEF Sensor, Alike, Heard, Trusted
  <2> QED
    BY <2>1, <2>2
<1> HIDE DEF aimed
<1>2. /\ done \in Sensor(Regions) /\ Alike(d, done) /\ Heard(done) /\ Trusted(done)
      /\ done.ready = d.ready /\ done.failed = d.failed /\ done.chip = region
  BY <1>0, <1>1 DEF Sensor, Alike, Heard, Trusted
<1>3. ASSUME NEW c \in {d.chip, TORN}
      PROVE /\ half(c) \in Sensor(Regions) /\ Alike(d, half(c)) /\ Heard(half(c))
            /\ half(c).ready = d.ready /\ half(c).failed = d.failed /\ half(c).cached = d.cached
  BY <1>0 DEF Sensor, Alike, Heard, Unset
<1>4. ASSUME NEW e \in Sensor(Regions), Alike(d, e), Heard(e), e.ready = d.ready, e.failed = d.failed
      PROVE /\ Fault(e) \in Sensor(Regions) /\ Alike(d, Fault(e)) /\ Heard(Fault(e))
            /\ Fault(e).ready = d.ready /\ Fault(e).failed = d.failed /\ Fault(e).faults >= 1
            /\ Fault(e).chip = e.chip /\ Fault(e).cached = e.cached
  <2>1. /\ Fault(e) \in Sensor(Regions) /\ Fault(e).faults >= 1
        /\ Fault(e) = [e EXCEPT !.faults = Fault(e).faults]
    BY FaultCounts
  <2> DEFINE n == Fault(e).faults
             f == [e EXCEPT !.faults = n]
  <2> HIDE DEF n
  <2>2. /\ f.ready = e.ready /\ f.failed = e.failed /\ f.chip = e.chip /\ f.cached = e.cached
        /\ f.own = e.own /\ f.xshut = e.xshut /\ f.at = e.at /\ f.believed = e.believed
    BY DEF Sensor
  <2>3. Fault(e) = f
    BY <2>1 DEF n
  <2> HIDE DEF f
  <2> QED
    BY <1>4, <2>1, <2>2, <2>3 DEF Alike, Heard
<1>5. CASE d.failed = TRUE \/ d.ready = FALSE
  <2>1. o = Outcome(d, "ERROR")
    BY <1>0, <1>5 DEF ReadOnce
  <2>2. o.tof = d /\ o.status = "ERROR"
    BY <2>1 DEF Outcome
  <2> QED
    BY <1>0, <1>5, <2>2 DEF Alike
<1>6. CASE d.failed = FALSE /\ d.ready = TRUE
  <2>1. \/ o \in {Outcome(done, status) : status \in {"OK", "REJECTED"}}
        \/ o = Outcome(Fault(aimed), "ERROR")
        \/ d.cached # region /\ \E c \in {d.chip, TORN} : o = Outcome(Fault(half(c)), "ERROR")
    BY <1>6 DEF ReadOnce, aimed
  <2> HIDE DEF done, half
  <2>2. CASE o \in {Outcome(done, status) : status \in {"OK", "REJECTED"}}
    <3>1. o.tof = done /\ o.status \in {"OK", "REJECTED"}
      BY <2>2 DEF Outcome
    <3> QED
      BY <1>2, <1>6, <3>1
  <2>3. CASE o = Outcome(Fault(aimed), "ERROR")
    <3>1. o.tof = Fault(aimed) /\ o.status = "ERROR"
      BY <2>3 DEF Outcome
    <3> QED
      BY <1>1, <1>4, <1>6, <3>1 DEF Trusted
  <2>4. ASSUME NEW c \in {d.chip, TORN}, o = Outcome(Fault(half(c)), "ERROR")
        PROVE  /\ o.tof = Fault(half(c)) /\ o.status = "ERROR"
               /\ o.tof \in Sensor(Regions) /\ Alike(d, o.tof) /\ Heard(o.tof)
               /\ o.tof.ready = d.ready /\ o.tof.failed = d.failed /\ o.tof.faults >= 1
               /\ o.tof.cached = d.cached
    <3>1. o.tof = Fault(half(c)) /\ o.status = "ERROR"
      BY <2>4 DEF Outcome
    <3> QED
      BY <1>3, <1>4, <3>1
  <2> QED
    BY <1>6, <2>1, <2>2, <2>3, <2>4 DEF Trusted
<1> QED
  BY <1>0, <1>5, <1>6

\* The recovery after a failed read, which left a fault unless the driver had failed
\* before, and the read after it.
LEMMA AgainLeaves ==
  ASSUME NEW d \in Sensor(Regions), Heard(d), Survives(d), d.failed = FALSE => d.faults >= 1,
         NEW region \in Regions, NEW o \in Again(d, region)
  PROVE /\ Working(o.tof) /\ Alike(d, o.tof)
        /\ o.status = "OK" => o.tof.chip = region
        /\ d.failed = TRUE => o.tof.failed = TRUE
<1>0. d.failed \in BOOLEAN /\ d.own \in BOOLEAN /\ d.faults \in Nat
  BY Bounds DEF Sensor
<1>1. PICK s \in Recover(d) :
        o \in IF s.ready THEN ReadOnce(s, region) ELSE {Outcome([s EXCEPT !.failed = TRUE], "ERROR")}
  BY DEF Again
<1>2. /\ s \in Sensor(Regions) /\ Alike(d, s) /\ Heard(s)
      /\ s.cached = NONE /\ s.failed = d.failed
      /\ s.faults >= d.faults
      /\ d.own \/ s.ready \/ (s.faults >= 1 /\ (d.faults >= 1 => s.faults >= 2))
  BY RecoverLeaves
<1>3. s.ready \in BOOLEAN /\ s.faults \in Nat
  BY <1>2, Bounds DEF Sensor
<1>4. CASE s.ready = TRUE
  <2>1. o \in ReadOnce(s, region)
    BY <1>1, <1>4
  <2>2. Trusted(s)
    BY <1>2 DEF Trusted
  <2>3. /\ o.tof \in Sensor(Regions) /\ Alike(s, o.tof) /\ Heard(o.tof)
        /\ o.tof.ready = s.ready /\ o.tof.failed = s.failed
        /\ o.status = "ERROR" \/ (Trusted(o.tof) /\ o.tof.chip = region /\ s.failed = FALSE)
        /\ s.cached = NONE => Trusted(o.tof)
        /\ s.failed = TRUE => o.tof = s
    <3>1. s \in Sensor(Regions) /\ Heard(s)
      BY <1>2
    <3> QED
      BY <2>1, <2>2, <3>1, ReadOnceLeaves
  <2>4. Survives(o.tof)
    <3>1. SUFFICES ASSUME o.tof.failed = TRUE, o.tof.own = FALSE PROVE o.tof.faults >= 2
      BY DEF Survives
    <3>2. d.failed = TRUE /\ d.own = FALSE /\ o.tof = s
      BY <1>2, <2>3, <3>1 DEF Alike
    <3>3. d.faults >= 2
      BY <3>2 DEF Survives
    <3> QED
      BY <1>0, <1>2, <1>3, <3>2, <3>3
  <2> QED
    BY <1>2, <1>4, <2>3, <2>4 DEF Working, Up, Alike
<1>5. CASE s.ready = FALSE
  <2> DEFINE f == [s EXCEPT !.failed = TRUE]
  <2>0. o = Outcome(f, "ERROR")
    BY <1>1, <1>5
  <2>1. o.tof = f /\ o.status = "ERROR"
    BY <2>0 DEF Outcome
  <2>2. /\ f \in Sensor(Regions) /\ f.failed = TRUE /\ f.own = s.own /\ f.xshut = s.xshut
        /\ f.at = s.at /\ f.believed = s.believed /\ f.cached = s.cached /\ f.faults = s.faults
    BY <1>2 DEF Sensor
  <2>3. d.own = FALSE => s.faults >= 2
    <3>1. SUFFICES ASSUME d.own = FALSE PROVE s.faults >= 2
      OBVIOUS
    <3>2. d.faults >= 1
      BY <1>0, <3>1 DEF Survives
    <3> QED
      BY <1>2, <1>5, <3>1, <3>2
  <2> HIDE DEF f
  <2> QED
    BY <1>2, <2>1, <2>2, <2>3 DEF Working, Trusted, Heard, Survives, Up, Alike
<1> QED
  BY <1>3, <1>4, <1>5

\* read_distance, whatever fails in it.
LEMMA ReadDistanceLeaves ==
  ASSUME NEW d, Working(d), NEW region \in Regions, NEW o \in ReadDistance(d, region)
  PROVE /\ Working(o.tof) /\ Alike(d, o.tof)
        /\ o.status = "OK" => o.tof.chip = region
        /\ d.failed = TRUE => o.tof.failed = TRUE
<1>1. PICK p \in ReadOnce(d, region) : o \in IF p.status = "ERROR" THEN Again(p.tof, region) ELSE {p}
  BY DEF ReadDistance
<1>2. d \in Sensor(Regions) /\ Heard(d) /\ Trusted(d) /\ d.failed \in BOOLEAN /\ d.ready \in BOOLEAN
  BY DEF Working, Sensor
<1>3. /\ p.tof \in Sensor(Regions) /\ Alike(d, p.tof) /\ Heard(p.tof)
      /\ p.tof.ready = d.ready /\ p.tof.failed = d.failed
      /\ p.status = "ERROR" \/ (Trusted(p.tof) /\ p.tof.chip = region /\ d.failed = FALSE)
      /\ d.failed = TRUE => p.tof = d
      /\ p.status = "ERROR" /\ d.failed = FALSE /\ d.ready = TRUE => p.tof.faults >= 1
  BY <1>2, ReadOnceLeaves
<1>4. CASE p.status = "ERROR"
  <2>1. o \in Again(p.tof, region)
    BY <1>1, <1>4
  <2>2. Survives(p.tof)
    BY <1>2, <1>3, <1>4 DEF Working, Survives
  <2>3. p.tof.failed = FALSE => p.tof.faults >= 1
    BY <1>2, <1>3, <1>4 DEF Working, Up
  <2>4. p.tof \in Sensor(Regions) /\ Heard(p.tof)
    BY <1>3
  <2>5. /\ Working(o.tof) /\ Alike(p.tof, o.tof)
        /\ o.status = "OK" => o.tof.chip = region
        /\ p.tof.failed = TRUE => o.tof.failed = TRUE
    BY <2>1, <2>2, <2>3, <2>4, AgainLeaves
  <2> QED
    BY <1>3, <2>5 DEF Alike
<1>5. CASE p.status # "ERROR"
  <2>1. o = p
    BY <1>1, <1>5
  <2> QED
    BY <1>2, <1>3, <1>5, <2>1 DEF Working, Survives, Up
<1> QED
  BY <1>4, <1>5

\* One attempt of setup.
LEMMA AttemptLeaves ==
  ASSUME NEW d \in Sensor(Regions), Heard(d), NEW nth \in Nat, NEW s \in Attempt(d, nth)
  PROVE /\ s \in Sensor(Regions) /\ Alike(d, s) /\ Heard(s)
        /\ s.cached = d.cached /\ s.failed = d.failed
        /\ d.own \/ s.ready \/ (s.faults >= 1 /\ (d.faults >= 1 => s.faults >= 2))
<1>1. CASE d.ready
  <2>1. s = d
    BY <1>1 DEF Attempt
  <2> QED
    BY <1>1, <2>1 DEF Alike
<1>2. CASE ~d.ready
  <2> DEFINE on == IF nth = 1 THEN d ELSE PowerCycle(d)
  <2>1. s \in Initialized(on)
    BY <1>2 DEF Attempt
  <2>2. /\ on \in Sensor(Regions) /\ Alike(d, on) /\ Heard(on)
        /\ on.cached = d.cached /\ on.failed = d.failed /\ on.faults = d.faults
    BY PowerCycleLeaves DEF Alike
  <2> HIDE DEF on
  <2> QED
    BY <2>1, <2>2, InitializedLeaves DEF Alike
<1> QED
  BY <1>1, <1>2

LEMMA TriesAre ==
  ASSUME NEW w \in Sensor(Regions), Heard(w)
  PROVE /\ Tries(w)[0] = {w}
        /\ \A n \in 1 .. InitAttempts : Tries(w)[n] = UNION {Attempt(s, n) : s \in Tries(w)[n - 1]}
<1> DEFINE H == {d \in Sensor(Regions) : Heard(d)}
           step == [n \in 1 .. InitAttempts |-> [all \in SUBSET H |-> UNION {Attempt(s, n) : s \in all}]]
           Is(f) == f = [nth \in 0 .. InitAttempts |->
                           IF nth = 0 THEN {w} ELSE UNION {Attempt(s, nth) : s \in f[nth - 1]}]
<1>1. ASSUME NEW n \in 1 .. InitAttempts, NEW all \in SUBSET H
      PROVE UNION {Attempt(s, n) : s \in all} \in SUBSET H
  <2>1. ASSUME NEW s \in all, NEW e \in Attempt(s, n) PROVE e \in H
    <3>1. s \in Sensor(Regions) /\ Heard(s) /\ n \in Nat
      OBVIOUS
    <3>2. e \in Sensor(Regions) /\ Heard(e)
      BY <3>1, AttemptLeaves
    <3> QED
      BY <3>2
  <2> QED
    BY <2>1
<1>2. {w} \in SUBSET H
  OBVIOUS
<1> HIDE DEF H
<1>3. step \in [1 .. InitAttempts -> [SUBSET H -> SUBSET H]]
  BY <1>1
<1>4. PICK f : /\ f \in [0 .. InitAttempts -> SUBSET H]
               /\ f[0] = {w} /\ \A n \in 1 .. InitAttempts : f[n] = step[n][f[n - 1]]
  <2> DEFINE X == SUBSET H
             start == {w}
  <2>1. start \in X /\ step \in Changes(InitAttempts, X) /\ InitAttempts \in Nat
    BY <1>2, <1>3, Bounds DEF Changes
  <2> HIDE DEF step, X, start
  <2>2. \E f : Iterates(f, InitAttempts, X, start, step)
    BY <2>1, Iterated
  <2> QED
    BY <2>2 DEF X, start, Iterates
<1>5. \A n \in 1 .. InitAttempts : f[n] = UNION {Attempt(s, n) : s \in f[n - 1]}
  <2> SUFFICES ASSUME NEW n \in 1 .. InitAttempts PROVE f[n] = UNION {Attempt(s, n) : s \in f[n - 1]}
    OBVIOUS
  <2>1. n - 1 \in 0 .. InitAttempts
    BY Bounds
  <2>2. f[n - 1] \in SUBSET H
    BY <1>4, <2>1
  <2>3. step[n][f[n - 1]] = UNION {Attempt(s, n) : s \in f[n - 1]}
    BY <2>2
  <2> HIDE DEF step
  <2> QED
    BY <1>4, <2>3
<1>6. Is(f)
  <2>1. \A n \in 0 .. InitAttempts : n = 0 \/ n \in 1 .. InitAttempts
    BY Bounds
  <2> HIDE DEF step
  <2> QED
    BY <1>4, <1>5, <2>1
<1>7. Tries(w) = CHOOSE g : Is(g)
  BY DEF Tries
<1>8. Is(Tries(w))
  <2> HIDE DEF Is
  <2> QED
    BY <1>6, <1>7
<1>9. \A n \in 1 .. InitAttempts : n \in 0 .. InitAttempts /\ n # 0
  BY Bounds
<1>10. PICK t : t = Tries(w)
  OBVIOUS
<1>11. t = [nth \in 0 .. InitAttempts |-> IF nth = 0 THEN {w} ELSE UNION {Attempt(s, nth) : s \in t[nth - 1]}]
  BY <1>8, <1>10
<1>12. t[0] = {w}
  BY <1>11, Bounds
<1>13. \A n \in 1 .. InitAttempts : t[n] = UNION {Attempt(s, n) : s \in t[n - 1]}
  BY <1>9, <1>11
<1> QED
  BY <1>10, <1>12, <1>13

\* After n attempts, of which each one failed on a transfer.
Tried(w, s, n) ==
  /\ s \in Sensor(Regions) /\ Alike(w, s) /\ Heard(s)
  /\ s.cached = w.cached /\ s.failed = w.failed
  /\ w.own \/ s.ready \/ ((n >= 1 => s.faults >= 1) /\ (n >= 2 => s.faults >= 2))

LEMMA TriesLeave ==
  ASSUME NEW w \in Sensor(Regions), Heard(w), NEW s \in Tries(w)[InitAttempts]
  PROVE Tried(w, s, InitAttempts)
<1> DEFINE S == {n \in 0 .. InitAttempts : \A e \in Tries(w)[n] : Tried(w, e, n)}
<1>1. 0 \in S
  <2>1. Tries(w)[0] = {w}
    BY TriesAre
  <2>2. Tried(w, w, 0)
    BY DEF Tried, Alike
  <2>3. 0 \in 0 .. InitAttempts
    BY Bounds
  <2> QED
    BY <2>1, <2>2, <2>3
<1>2. ASSUME NEW n \in 1 .. InitAttempts, n - 1 \in S PROVE n \in S
  <2>1. SUFFICES ASSUME NEW e \in Tries(w)[n] PROVE Tried(w, e, n)
    OBVIOUS
  <2>2. Tries(w)[n] = UNION {Attempt(b, n) : b \in Tries(w)[n - 1]}
    BY TriesAre
  <2>3. PICK b \in Tries(w)[n - 1] : e \in Attempt(b, n)
    BY <2>2
  <2>4. Tried(w, b, n - 1)
    BY <1>2, <2>3
  <2>5. /\ e \in Sensor(Regions) /\ Alike(b, e) /\ Heard(e)
        /\ e.cached = b.cached /\ e.failed = b.failed
        /\ b.own \/ e.ready \/ (e.faults >= 1 /\ (b.faults >= 1 => e.faults >= 2))
    <3>1. b \in Sensor(Regions) /\ Heard(b) /\ n \in Nat
      BY <2>4 DEF Tried
    <3> QED
      BY <2>3, <3>1, AttemptLeaves
  <2>6. CASE b.ready
    <3>1. e = b
      BY <2>3, <2>6 DEF Attempt
    <3> QED
      BY <2>4, <2>6, <3>1 DEF Tried
  <2>7. CASE ~b.ready
    <3>1. n >= 2 => n - 1 >= 1
      OBVIOUS
    <3> QED
      BY <2>4, <2>5, <2>7, <3>1 DEF Tried, Alike
  <2> QED
    BY <2>6, <2>7
<1>3. S \in SUBSET (0 .. InitAttempts) /\ InitAttempts \in Nat /\ InitAttempts \in 0 .. InitAttempts
  BY Bounds
<1>4. \A n \in 1 .. InitAttempts : n - 1 \in S => n \in S
  BY <1>2
<1> HIDE DEF S
<1>5. \A n \in 0 .. InitAttempts : n \in S
  BY <1>1, <1>3, <1>4, Stepwise
<1>6. InitAttempts \in S
  BY <1>3, <1>5
<1> QED
  BY <1>6 DEF S

\* setup of a driver that has just been constructed.
LEMMA SetupLeaves ==
  ASSUME NEW d \in Sensor(Regions), Heard(d), d.cached = NONE, d.failed = FALSE, NEW s \in Setup(d)
  PROVE Working(s) /\ Alike(d, s)
<1> DEFINE p == PowerCycle(d)
           f == [p EXCEPT !.failed = TRUE, !.faults = MaxFaults]
<1>1. /\ p \in Sensor(Regions) /\ Alike(d, p) /\ Heard(p) /\ p.cached = NONE /\ p.failed = FALSE
  BY PowerCycleLeaves
<1> HIDE DEF p
<1>2. /\ f \in Sensor(Regions) /\ Alike(d, f) /\ Heard(f) /\ f.cached = NONE /\ f.failed = TRUE
      /\ f.faults >= 2
  <2>1. MaxFaults \in 0 .. MaxFaults /\ MaxFaults >= 2
    BY Bounds
  <2>2. /\ f.own = p.own /\ f.xshut = p.xshut /\ f.at = p.at /\ f.believed = p.believed
        /\ f.cached = p.cached /\ f.failed = TRUE /\ f.faults = MaxFaults
    BY <1>1 DEF Sensor
  <2>3. f \in Sensor(Regions)
    BY <1>1, <2>1 DEF Sensor
  <2> HIDE DEF f
  <2> QED
    BY <1>1, <2>1, <2>2, <2>3 DEF Alike, Heard
<1>3. s = f \/ \E e \in Tries(p)[InitAttempts] : s = [e EXCEPT !.failed = ~e.ready]
  <2>1. PICK w \in {p, f} :
          s \in IF w.failed THEN {w} ELSE {[e EXCEPT !.failed = ~e.ready] : e \in Tries(w)[InitAttempts]}
    BY DEF Setup, Wired, p
  <2> HIDE DEF f
  <2> QED
    BY <1>1, <1>2, <2>1
<1>4. CASE s = f
  <2> HIDE DEF f
  <2> QED
    BY <1>2, <1>4 DEF Working, Trusted, Survives, Up
<1>5. ASSUME NEW e \in Tries(p)[InitAttempts], s = [e EXCEPT !.failed = ~e.ready]
      PROVE Working(s) /\ Alike(d, s)
  <2>1. Tried(p, e, InitAttempts)
    BY <1>1, TriesLeave
  <2>2. e \in Sensor(Regions) /\ Alike(d, e) /\ Heard(e) /\ e.cached = NONE
    BY <1>1, <2>1 DEF Tried, Alike
  <2>3. e.ready \in BOOLEAN /\ e.own \in BOOLEAN
    BY <2>2 DEF Sensor
  <2>4. /\ s \in Sensor(Regions) /\ s.own = e.own /\ s.xshut = e.xshut /\ s.cached = NONE
        /\ s.ready = e.ready /\ s.failed = ~e.ready /\ s.faults = e.faults
        /\ s.at = e.at /\ s.believed = e.believed
    BY <1>5, <2>2, <2>3 DEF Sensor
  <2>5. s.failed = TRUE /\ s.own = FALSE => s.faults >= 2
    <3>1. SUFFICES ASSUME s.failed = TRUE, s.own = FALSE PROVE s.faults >= 2
      OBVIOUS
    <3>2. p.own = FALSE /\ e.ready = FALSE
      BY <1>1, <2>2, <2>3, <2>4, <3>1 DEF Alike
    <3> QED
      BY <2>1, <2>4, <3>2, Bounds DEF Tried
  <2> QED
    BY <2>2, <2>3, <2>4, <2>5 DEF Working, Trusted, Heard, Survives, Up, Alike
<1> QED
  BY <1>3, <1>4, <1>5

-----------------------------------------------------------------------------
(* Calibration.                                                            *)

\* What a calibration of a region may have read in it so far.
Readouts(d, region) ==
  {r \in [n : Nat, tof : Sensor(Regions), region : {region}, from : SUBSET {region}] :
     Working(r.tof) /\ Alike(d, r.tof) /\ (r.n = 0 \/ r.from = {region})}

LEMMA ReadingsLeave ==
  ASSUME NEW d, NEW region \in Regions, NEW all \in SUBSET Readouts(d, region)
  PROVE Readings(all) \in SUBSET Readouts(d, region)
<1> SUFFICES ASSUME NEW e \in Readings(all) PROVE e \in Readouts(d, region)
  OBVIOUS
<1>0. PICK r \in all : \E o \in ReadDistance(r.tof, r.region) :
        e = IF o.status = "OK" THEN [r EXCEPT !.n = @ + 1, !.tof = o.tof, !.from = @ \cup {o.tof.chip}]
                               ELSE [r EXCEPT !.tof = o.tof]
  BY DEF Readings
<1>1. PICK o \in ReadDistance(r.tof, r.region) :
        e = IF o.status = "OK" THEN [r EXCEPT !.n = @ + 1, !.tof = o.tof, !.from = @ \cup {o.tof.chip}]
                               ELSE [r EXCEPT !.tof = o.tof]
  BY <1>0
<1>2. /\ r \in [n : Nat, tof : Sensor(Regions), region : {region}, from : SUBSET {region}]
      /\ Working(r.tof) /\ Alike(d, r.tof) /\ (r.n = 0 \/ r.from = {region})
  BY DEF Readouts
<1>3. r.region = region /\ r.n \in Nat /\ r.from \in SUBSET {region}
  BY <1>2
<1>4. /\ Working(o.tof) /\ Alike(r.tof, o.tof)
      /\ o.status = "OK" => o.tof.chip = region
      /\ r.tof.failed = TRUE => o.tof.failed = TRUE
  <2>1. Working(r.tof) /\ o \in ReadDistance(r.tof, region)
    BY <1>2, <1>3
  <2> QED
    BY <2>1, ReadDistanceLeaves
<1>5. o.tof \in Sensor(Regions) /\ Alike(d, o.tof)
  BY <1>2, <1>4 DEF Working, Alike
<1>6. CASE o.status = "OK"
  <2> DEFINE n == r.n + 1
             from == r.from \cup {region}
  <2>1. n \in Nat /\ from = {region}
    BY <1>3
  <2>2. e = [r EXCEPT !.n = n, !.tof = o.tof, !.from = from]
    BY <1>1, <1>4, <1>6
  <2> HIDE DEF n, from
  <2>3. /\ e \in [n : Nat, tof : Sensor(Regions), region : {region}, from : SUBSET {region}]
        /\ e.tof = o.tof /\ e.from = from
    BY <1>2, <1>5, <2>1, <2>2
  <2> QED
    BY <1>4, <1>5, <2>1, <2>3 DEF Readouts
<1>7. CASE o.status # "OK"
  <2>1. e = [r EXCEPT !.tof = o.tof]
    BY <1>1, <1>7
  <2>2. /\ e \in [n : Nat, tof : Sensor(Regions), region : {region}, from : SUBSET {region}]
        /\ e.tof = o.tof /\ e.from = r.from /\ e.n = r.n
    BY <1>2, <1>5, <2>1
  <2> QED
    BY <1>2, <1>4, <1>5, <2>2 DEF Readouts
<1> QED
  BY <1>6, <1>7

\* Nothing read yet.
NothingRead(d, region) == [n |-> 0, tof |-> d, region |-> region, from |-> {}]

LEMMA ReadsAre ==
  ASSUME NEW d, Working(d), NEW region \in Regions
  PROVE /\ Reads(d, region)[0] = {NothingRead(d, region)}
        /\ \A n \in 1 .. Attempts : Reads(d, region)[n] = Readings(Reads(d, region)[n - 1])
<1> DEFINE X == SUBSET Readouts(d, region)
           start == {NothingRead(d, region)}
           step == [n \in 1 .. Attempts |-> [all \in X |-> Readings(all)]]
           Is(f) == f = [n \in 0 .. Attempts |-> IF n = 0 THEN start ELSE Readings(f[n - 1])]
<1>1. \A all \in X : Readings(all) \in X
  BY ReadingsLeave
<1>2. start \in X
  <2>1. d \in Sensor(Regions)
    BY DEF Working
  <2> QED
    BY <2>1 DEF Readouts, NothingRead, Alike
<1>3. Attempts \in Nat
  BY Bounds
<1> HIDE DEF X, start
<1>4. step \in Changes(Attempts, X)
  BY <1>1 DEF Changes
<1>5. PICK f : Iterates(f, Attempts, X, start, step)
  <2> HIDE DEF step
  <2> QED
    BY <1>2, <1>3, <1>4, Iterated
<1>6. ASSUME NEW n \in 1 .. Attempts PROVE f[n] = Readings(f[n - 1])
  <2>1. n - 1 \in 0 .. Attempts
    BY <1>3
  <2>2. f[n - 1] \in X
    BY <1>5, <2>1 DEF Iterates
  <2>3. step[n][f[n - 1]] = Readings(f[n - 1])
    BY <2>2
  <2> HIDE DEF step
  <2> QED
    BY <1>5, <2>3 DEF Iterates
<1>7. Is(f)
  <2>1. \A n \in 0 .. Attempts : n = 0 \/ n \in 1 .. Attempts
    BY <1>3
  <2>2. f[0] = start /\ f \in [0 .. Attempts -> X]
    BY <1>5 DEF Iterates
  <2> HIDE DEF step
  <2> QED
    BY <1>6, <2>1, <2>2
<1>8. Reads(d, region) = CHOOSE g : Is(g)
  BY DEF Reads, start, NothingRead
<1>9. Is(Reads(d, region))
  <2> HIDE DEF Is
  <2> QED
    BY <1>7, <1>8
<1>10. \A n \in 1 .. Attempts : n \in 0 .. Attempts /\ n # 0
  BY <1>3
<1>11. PICK t : t = Reads(d, region)
  OBVIOUS
<1>12. t = [n \in 0 .. Attempts |-> IF n = 0 THEN start ELSE Readings(t[n - 1])]
  BY <1>9, <1>11
<1>13. t[0] = start
  BY <1>3, <1>12
<1>14. \A n \in 1 .. Attempts : t[n] = Readings(t[n - 1])
  BY <1>10, <1>12
<1> QED
  BY <1>11, <1>13, <1>14 DEF start

LEMMA ReadsLeave ==
  ASSUME NEW d, Working(d), NEW region \in Regions
  PROVE Reads(d, region)[Attempts] \in SUBSET Readouts(d, region)
<1> DEFINE S == {n \in 0 .. Attempts : Reads(d, region)[n] \in SUBSET Readouts(d, region)}
<1>1. Attempts \in Nat /\ Attempts \in 0 .. Attempts /\ 0 \in 0 .. Attempts
  BY Bounds
<1>2. 0 \in S
  <2>1. d \in Sensor(Regions)
    BY DEF Working
  <2>2. {NothingRead(d, region)} \in SUBSET Readouts(d, region)
    BY <2>1 DEF Readouts, NothingRead, Alike
  <2> QED
    BY <1>1, <2>2, ReadsAre
<1>3. \A n \in 1 .. Attempts : n - 1 \in S => n \in S
  <2> SUFFICES ASSUME NEW n \in 1 .. Attempts, n - 1 \in S PROVE n \in S
    OBVIOUS
  <2>1. Reads(d, region)[n] = Readings(Reads(d, region)[n - 1])
    BY ReadsAre
  <2>2. Reads(d, region)[n] \in SUBSET Readouts(d, region)
    BY <2>1, ReadingsLeave
  <2> QED
    BY <1>1, <2>2
<1>4. S \in SUBSET (0 .. Attempts)
  OBVIOUS
<1> HIDE DEF S
<1>5. \A n \in 0 .. Attempts : n \in S
  BY <1>1, <1>2, <1>3, <1>4, Stepwise
<1>6. Attempts \in S
  BY <1>1, <1>5
<1> QED
  BY <1>6 DEF S

\* A calibration on its way, which began with the driver d.
Calibrating(d, c) ==
  /\ c \in [ok : BOOLEAN, tof : Sensor(Regions), idle : [Zones -> SUBSET (Regions \cup Unset)],
            samples : [Zones -> Seq(Sample)], roi : [Zones -> Regions]]
  /\ \A zone \in Zones : Len(c.samples[zone]) <= Samples
  /\ Working(c.tof) /\ Alike(d, c.tof)

\* What a threshold that was found adds to it.
Gains(c, e, region) ==
  /\ e.roi = [c.roi EXCEPT ![region[1]] = region]
  /\ e.idle = [c.idle EXCEPT ![region[1]] = {region}]
  /\ e.samples = [c.samples EXCEPT ![region[1]] = <<>>]

LEMMA ThresholdLeaves ==
  ASSUME NEW d, NEW c, Calibrating(d, c), NEW region \in Regions, NEW e \in Threshold(c, region)
  PROVE Calibrating(d, e) /\ (e.ok = TRUE => c.ok = TRUE /\ Gains(c, e, region))
<1> DEFINE zone == region[1]
           begun == [c EXCEPT !.roi[zone] = region, !.samples[zone] = <<>>]
           roi1 == [c.roi EXCEPT ![zone] = region]
           samples1 == [c.samples EXCEPT ![zone] = <<>>]
<1>1. zone \in Zones
  BY DEF Regions
<1>2. roi1 \in [Zones -> Regions] /\ samples1 \in [Zones -> Seq(Sample)]
      /\ \A z \in Zones : Len(samples1[z]) <= Samples
  <2>1. c.roi \in [Zones -> Regions] /\ c.samples \in [Zones -> Seq(Sample)]
    BY DEF Calibrating
  <2>2. <<>> \in Seq(Sample) /\ Len(<<>>) = 0 /\ 0 <= Samples
    BY Bounds
  <2>3. samples1 \in [Zones -> Seq(Sample)]
    BY <2>1, <2>2
  <2>4. ASSUME NEW z \in Zones PROVE Len(samples1[z]) <= Samples
    <3>1. samples1[z] = IF z = zone THEN <<>> ELSE c.samples[z]
      BY <2>1
    <3>2. Len(c.samples[z]) <= Samples
      BY DEF Calibrating
    <3> QED
      BY <2>2, <3>1, <3>2
  <2> QED
    BY <2>1, <2>3, <2>4
<1>3. Working(c.tof) /\ Alike(d, c.tof)
  BY DEF Calibrating
<1>4. begun = [c EXCEPT !.roi = roi1, !.samples = samples1]
  BY DEF Calibrating
<1>5. PICK r \in Reads(c.tof, region)[Attempts] :
        \/ e = [begun EXCEPT !.ok = FALSE, !.tof = r.tof]
        \/ Valid(r.n) /\ e = [begun EXCEPT !.tof = r.tof, !.idle[zone] = r.from]
  BY DEF Threshold
<1>6. r \in Readouts(c.tof, region)
  BY <1>3, ReadsLeave
<1>7. /\ r.n \in Nat /\ r.tof \in Sensor(Regions)
      /\ Working(r.tof) /\ Alike(d, r.tof) /\ (r.n = 0 \/ r.from = {region})
  BY <1>3, <1>6 DEF Readouts, Alike
<1> HIDE DEF begun, roi1, samples1, zone
<1>8. /\ begun \in [ok : BOOLEAN, tof : Sensor(Regions), idle : [Zones -> SUBSET (Regions \cup Unset)],
                    samples : [Zones -> Seq(Sample)], roi : [Zones -> Regions]]
      /\ begun.ok = c.ok /\ begun.idle = c.idle /\ begun.samples = samples1 /\ begun.roi = roi1
  BY <1>2, <1>4 DEF Calibrating
<1>9. CASE e = [begun EXCEPT !.ok = FALSE, !.tof = r.tof]
  <2>1. /\ e \in [ok : BOOLEAN, tof : Sensor(Regions), idle : [Zones -> SUBSET (Regions \cup Unset)],
                  samples : [Zones -> Seq(Sample)], roi : [Zones -> Regions]]
        /\ e.ok = FALSE /\ e.tof = r.tof /\ e.samples = samples1
    BY <1>7, <1>8, <1>9
  <2> QED
    BY <1>2, <1>7, <2>1 DEF Calibrating
<1>10. CASE Valid(r.n) /\ e = [begun EXCEPT !.tof = r.tof, !.idle[zone] = r.from]
  <2>1. r.n # 0
    BY <1>10, Bounds DEF Valid
  <2>2. r.from = {region} /\ {region} \in SUBSET (Regions \cup Unset)
    BY <1>7, <2>1
  <2> DEFINE idle1 == [c.idle EXCEPT ![zone] = {region}]
  <2>3. idle1 \in [Zones -> SUBSET (Regions \cup Unset)]
    BY <2>2 DEF Calibrating
  <2>4. e = [begun EXCEPT !.tof = r.tof, !.idle = idle1]
    BY <1>8, <1>10, <2>2
  <2> HIDE DEF idle1
  <2>5. /\ e \in [ok : BOOLEAN, tof : Sensor(Regions), idle : [Zones -> SUBSET (Regions \cup Unset)],
                  samples : [Zones -> Seq(Sample)], roi : [Zones -> Regions]]
        /\ e.ok = c.ok /\ e.tof = r.tof /\ e.samples = samples1 /\ e.roi = roi1 /\ e.idle = idle1
    BY <1>7, <1>8, <2>3, <2>4
  <2>6. Calibrating(d, e)
    BY <1>2, <1>7, <2>5 DEF Calibrating
  <2> QED
    BY <2>5, <2>6 DEF Gains, roi1, samples1, idle1, zone
<1> QED
  BY <1>5, <1>9, <1>10

LEMMA ThenLeaves ==
  ASSUME NEW d, NEW all, \A c \in all : Calibrating(d, c), NEW region \in Regions, NEW e \in Then(all, region)
  PROVE Calibrating(d, e) /\ (e.ok = TRUE => \E c \in all : c.ok = TRUE /\ Gains(c, e, region))
<1>1. PICK c \in all : e \in IF c.ok THEN Threshold(c, region) ELSE {c}
  BY DEF Then
<1>2. Calibrating(d, c)
  BY <1>1
<1>3. c.ok \in BOOLEAN
  BY <1>2 DEF Calibrating
<1>4. CASE c.ok = TRUE
  <2>1. e \in Threshold(c, region)
    BY <1>1, <1>4
  <2> QED
    BY <1>2, <2>1, ThresholdLeaves
<1>5. CASE c.ok = FALSE
  BY <1>1, <1>2, <1>5
<1> QED
  BY <1>3, <1>4, <1>5

\* The types of what is measured, and that it is measured where it is said to be.
MeasuredTypes ==
  /\ roi \in [Zones -> Regions \cup {NONE}]
  /\ idle \in [Zones -> SUBSET (Regions \cup Unset)]
  /\ samples \in [Zones -> Seq(Sample)] /\ \A zone \in Zones : Len(samples[zone]) <= Samples

LEMMA EmptySample == <<>> \in Seq(Sample) /\ Len(<<>>) = 0 /\ 0 <= Samples /\ DOMAIN <<>> = {}
  BY Bounds

LEMMA RegionTypes ==
  ASSUME NEW zone \in Zones, NEW t \in Tunings
  PROVE /\ Initial(zone, t) \in Regions /\ Initial(zone, t)[1] = zone
        /\ Fitted(zone, t) \in Regions /\ Fitted(zone, t)[1] = zone
  BY DEF Initial, Fitted, Regions

LEMMA TwoZones == Zones = {Entry, Exit} /\ Entry # Exit
  BY DEF Zones, Entry, Exit, ZONE_OUT, ZONE_IN

\* Both zones are in their fitted regions, with thresholds from there and no samples yet.
Fits(c, t) ==
  \A zone \in Zones :
    c.roi[zone] = Fitted(zone, t) /\ c.idle[zone] = {Fitted(zone, t)} /\ c.samples[zone] = <<>>

\* A calibration that succeeds leaves both zones measured in their fitted regions.
LEMMA CalibrationsLeave ==
  ASSUME MeasuredTypes, NEW d, Working(d), d.failed = FALSE, NEW t \in Tunings, NEW e \in Calibrations(d, t)
  PROVE Calibrating(d, e) /\ (e.ok = TRUE => Fits(e, t))
<1> DEFINE begun == [ok |-> TRUE, tof |-> d, idle |-> idle, samples |-> samples,
                     roi |-> [zone \in Zones |-> Initial(zone, t)]]
           first == Then({begun}, Initial(Entry, t))
           second == Then(first, Initial(Exit, t))
           third == Then(second, Fitted(Entry, t))
<1>1. Entry \in Zones /\ Exit \in Zones
  BY TwoZones
<1>2. Calibrating(d, begun)
  <2>1. d \in Sensor(Regions)
    BY DEF Working
  <2>2. [zone \in Zones |-> Initial(zone, t)] \in [Zones -> Regions]
    BY RegionTypes
  <2> QED
    BY <2>1, <2>2 DEF Calibrating, MeasuredTypes, Alike
<1>3. e \in Then(third, Fitted(Exit, t))
  BY DEF Calibrations
<1> HIDE DEF begun
<1>4. \A c \in {begun} : Calibrating(d, c)
  BY <1>2
<1>5. \A c \in first : Calibrating(d, c)
  <2> SUFFICES ASSUME NEW c \in first PROVE Calibrating(d, c)
    OBVIOUS
  <2> QED
    BY <1>1, <1>4, RegionTypes, ThenLeaves
<1> HIDE DEF first
<1>6. \A c \in second : Calibrating(d, c)
  <2> SUFFICES ASSUME NEW c \in second PROVE Calibrating(d, c)
    OBVIOUS
  <2> QED
    BY <1>1, <1>5, RegionTypes, ThenLeaves
<1> HIDE DEF second
<1>7. ASSUME NEW c \in third
      PROVE  Calibrating(d, c) /\ (c.ok = TRUE => \E b \in second : Gains(b, c, Fitted(Entry, t)))
  BY <1>1, <1>6, <1>7, RegionTypes, ThenLeaves
<1> HIDE DEF third
<1>8. Calibrating(d, e) /\ (e.ok = TRUE => \E c \in third : c.ok = TRUE /\ Gains(c, e, Fitted(Exit, t)))
  BY <1>1, <1>3, <1>7, RegionTypes, ThenLeaves
<1>9. ASSUME e.ok = TRUE PROVE Fits(e, t)
  <2>1. PICK c \in third : c.ok = TRUE /\ Gains(c, e, Fitted(Exit, t))
    BY <1>8, <1>9
  <2>2. PICK b \in second : Gains(b, c, Fitted(Entry, t))
    BY <1>7, <2>1
  <2>3. Fitted(Exit, t)[1] = Exit /\ Fitted(Entry, t)[1] = Entry
    BY <1>1, RegionTypes
  <2>4. /\ c.roi = [b.roi EXCEPT ![Entry] = Fitted(Entry, t)]
        /\ c.idle = [b.idle EXCEPT ![Entry] = {Fitted(Entry, t)}]
        /\ c.samples = [b.samples EXCEPT ![Entry] = <<>>]
    BY <2>2, <2>3 DEF Gains
  <2>5. /\ e.roi = [c.roi EXCEPT ![Exit] = Fitted(Exit, t)]
        /\ e.idle = [c.idle EXCEPT ![Exit] = {Fitted(Exit, t)}]
        /\ e.samples = [c.samples EXCEPT ![Exit] = <<>>]
    BY <2>1, <2>3 DEF Gains
  <2>6. /\ DOMAIN b.roi = Zones /\ DOMAIN b.idle = Zones /\ DOMAIN b.samples = Zones
        /\ DOMAIN c.roi = Zones /\ DOMAIN c.idle = Zones /\ DOMAIN c.samples = Zones
    BY <1>6, <1>7, <2>1, <2>2 DEF Calibrating
  <2>7. c.roi[Entry] = Fitted(Entry, t) /\ c.idle[Entry] = {Fitted(Entry, t)} /\ c.samples[Entry] = <<>>
    BY <1>1, <2>4, <2>6
  <2>8. /\ e.roi[Exit] = Fitted(Exit, t) /\ e.idle[Exit] = {Fitted(Exit, t)} /\ e.samples[Exit] = <<>>
        /\ e.roi[Entry] = c.roi[Entry] /\ e.idle[Entry] = c.idle[Entry] /\ e.samples[Entry] = c.samples[Entry]
    BY <1>1, <2>5, <2>6, TwoZones
  <2> QED
    BY <2>7, <2>8, TwoZones DEF Fits
<1> QED
  BY <1>8, <1>9

\* A result goes to the front, and the oldest falls out.
LEMMA Fronted ==
  ASSUME NEW S, NEW list \in Seq(S), NEW s \in S, NEW k \in Nat, k >= 1, NEW cut,
         cut = SubSeq(<<s>> \o list, 1, IF Len(<<s>> \o list) < k THEN Len(<<s>> \o list) ELSE k)
  PROVE cut \in Seq(S) /\ Len(cut) <= k
<1> DEFINE all == <<s>> \o list
           m == IF Len(all) < k THEN Len(all) ELSE k
<1>1. <<s>> \in Seq(S) /\ Len(<<s>>) = 1
  OBVIOUS
<1>2. all \in Seq(S) /\ Len(all) = 1 + Len(list) /\ Len(list) \in Nat
  BY <1>1, ConcatProperties, LenProperties
<1> HIDE DEF all
<1>3. m \in 1 .. Len(all) /\ m <= k /\ Len(all) \in Nat
  BY <1>2
<1> HIDE DEF m
<1>4. cut = SubSeq(all, 1, m)
  BY DEF all, m
<1>5. 1 \in 1 .. Len(all) + 1 /\ m \in 1 - 1 .. Len(all)
  BY <1>3
<1>6. cut \in Seq(S) /\ Len(cut) = m
  BY <1>2, <1>3, <1>4, <1>5, SubSeqProperties
<1> QED
  BY <1>3, <1>6

LEMMA AllIn ==
  ASSUME NEW S, NEW list \in Seq(S), NEW T, \A n \in DOMAIN list : list[n] \in T
  PROVE list \in Seq(T)
<1>1. PICK m \in Nat : m = Len(list)
  BY LenProperties
<1>2. list \in [1 .. m -> S] /\ DOMAIN list = 1 .. m
  BY <1>1, LenProperties
<1>3. list \in [1 .. m -> T]
  BY <1>2
<1> QED
  BY <1>3, SeqDef

LEMMA InAll ==
  ASSUME NEW T, NEW list \in Seq(T)
  PROVE \A n \in DOMAIN list : list[n] \in T
<1>1. list \in [1 .. Len(list) -> T] /\ DOMAIN list = 1 .. Len(list)
  BY LenProperties
<1> QED
  BY <1>1

\* Samples of one region.
SamplesOf(region) == {x \in Sample : x.region = region}

AllOf(list, region) == \A n \in DOMAIN list : list[n].region = region

\* A distance measured in the zone's own region goes to the front of its samples.
LEMMA ExtendedLeaves ==
  ASSUME MeasuredTypes, NEW zone \in Zones, NEW d \in Distances, NEW region \in Regions, NEW now1,
         now1 = Extended(zone, d, region)
  PROVE /\ now1 \in [Zones -> Seq(Sample)]
        /\ \A z \in Zones : Len(now1[z]) <= Samples
        /\ \A z \in Zones : z # zone => now1[z] = samples[z]
        /\ AllOf(samples[zone], region) => AllOf(now1[zone], region)
<1> DEFINE x == [distance |-> d, region |-> region]
           list == samples[zone]
           all == <<x>> \o list
           cut == SubSeq(all, 1, IF Len(all) < Samples THEN Len(all) ELSE Samples)
<1>1. now1 = [samples EXCEPT ![zone] = cut]
  BY DEF Extended
<1>2. x \in Sample /\ x.region = region
  BY DEF Sample
<1>3. list \in Seq(Sample) /\ samples \in [Zones -> Seq(Sample)] /\ \A z \in Zones : Len(samples[z]) <= Samples
  BY DEF MeasuredTypes
<1>4. Samples \in Nat /\ Samples >= 1
  BY Bounds
<1>5. PICK S : S = Sample
  OBVIOUS
<1>6. list \in Seq(S) /\ x \in S
  BY <1>2, <1>3, <1>5
<1>7. PICK T : T = SamplesOf(region)
  OBVIOUS
<1>8. x \in T
  BY <1>2, <1>7 DEF SamplesOf
<1>9. (\A n \in DOMAIN list : list[n].region = region) => \A n \in DOMAIN list : list[n] \in T
  BY <1>5, <1>6, <1>7, InAll DEF SamplesOf
<1>10. \A n \in DOMAIN cut : cut[n] \in T => cut[n].region = region
  BY <1>7 DEF SamplesOf
<1> HIDE DEF x, list
<1>11. cut \in Seq(S) /\ Len(cut) <= Samples
  BY <1>4, <1>6, Fronted
<1>12. ASSUME \A n \in DOMAIN list : list[n] \in T PROVE \A n \in DOMAIN cut : cut[n] \in T
  <2>1. list \in Seq(T)
    BY <1>6, <1>12, AllIn
  <2>2. cut \in Seq(T)
    BY <1>4, <1>8, <2>1, Fronted
  <2> HIDE DEF cut
  <2> QED
    BY <2>2, InAll
<1> HIDE DEF cut
<1>13. now1[zone] = cut /\ \A z \in Zones : z # zone => now1[z] = samples[z]
  BY <1>1, <1>3
<1>14. now1 \in [Zones -> Seq(Sample)]
  BY <1>1, <1>3, <1>5, <1>11
<1>15. \A z \in Zones : Len(now1[z]) <= Samples
  BY <1>3, <1>11, <1>13
<1>16. (\A n \in DOMAIN list : list[n].region = region) => \A n \in DOMAIN cut : cut[n].region = region
  BY <1>9, <1>10, <1>12
<1> QED
  BY <1>13, <1>14, <1>15, <1>16 DEF list, AllOf

-----------------------------------------------------------------------------
(* The vote of one sensor.                                                 *)

\* The definitions that the two instances of Fusion have each for themselves.
LEMMA SameCore ==
  /\ F!NoPaths = FP!NoPaths /\ F!NoSamples = FP!NoSamples
  /\ F!NoResult = FP!NoResult /\ F!Rejected = FP!Rejected
  /\ F!Decisions = FP!Decisions /\ F!Input = FP!Input
  /\ F!Time = FP!Time /\ F!Path = FP!Path /\ F!Zones = FP!Zones
  /\ Zones = FP!Zones
  BY DEF F!NoPaths, FP!NoPaths, F!NoPath, FP!NoPath, F!NoEdges, FP!NoEdges, F!NoCrossing, FP!NoCrossing,
         F!Zones, FP!Zones, F!ZONE_IN, FP!ZONE_IN, F!ZONE_OUT, FP!ZONE_OUT, Zones, ZONE_IN, ZONE_OUT,
         F!NoSamples, FP!NoSamples, F!NoResult, FP!NoResult, F!Rejected, FP!Rejected, F!Decisions, FP!Decisions,
         F!Time, FP!Time, F!Path, FP!Path, F!Edges, FP!Edges, F!Crossing, FP!Crossing, F!Input, FP!Input

LEMMA SameState ==
  /\ F!TypeOK <=> FP!TypeOK
  /\ F!TypeOK' <=> FP!TypeOK'
  /\ F!Fresh <=> FP!Fresh
  /\ F!Reset <=> FP!Reset
  BY SameCore DEF F!TypeOK, FP!TypeOK, F!Fresh, FP!Fresh, F!Reset, FP!Reset

LEMMA SameTracks ==
  ASSUME NEW tracks, NEW voters, NEW in
  PROVE /\ F!Observed(tracks, voters, in) = FP!Observed(tracks, voters, in)
        /\ F!Kept(in) = FP!Kept(in)
<1>1. F!Observed(tracks, voters, in) = FP!Observed(tracks, voters, in)
  BY DEF F!Observed, FP!Observed, F!Observe, FP!Observe, F!Recorded, FP!Recorded,
         F!Zones, FP!Zones, F!ZONE_IN, FP!ZONE_IN, F!ZONE_OUT, FP!ZONE_OUT
<1>2. F!Kept(in) = FP!Kept(in)
  BY DEF F!Kept, FP!Kept, F!NoPath, FP!NoPath, F!NoEdges, FP!NoEdges, F!NoCrossing, FP!NoCrossing,
         F!Zones, FP!Zones, F!ZONE_IN, FP!ZONE_IN, F!ZONE_OUT, FP!ZONE_OUT
<1> QED
  BY <1>1, <1>2

LEMMA SameVerdict ==
  ASSUME NEW tracks, NEW voters
  PROVE F!Verdict(tracks, voters) = FP!Verdict(tracks, voters)
<1>1. F!Voters(tracks, voters) = FP!Voters(tracks, voters)
  BY DEF F!Zones, FP!Zones, F!ZONE_IN, FP!ZONE_IN, F!ZONE_OUT, FP!ZONE_OUT, F!Voters, FP!Voters,
         F!Vote, FP!Vote, F!GeometricDirection, FP!GeometricDirection, F!Elapsed, FP!Elapsed
<1>2. \A p : F!Vote(p) = FP!Vote(p)
  BY DEF F!Zones, FP!Zones, F!ZONE_IN, FP!ZONE_IN, F!ZONE_OUT, FP!ZONE_OUT,
         F!Vote, FP!Vote, F!GeometricDirection, FP!GeometricDirection, F!Elapsed, FP!Elapsed
<1>3. /\ F!InVotes(tracks, voters) = FP!InVotes(tracks, voters)
      /\ F!OutVotes(tracks, voters) = FP!OutVotes(tracks, voters)
  BY <1>1, <1>2 DEF F!InVotes, FP!InVotes, F!OutVotes, FP!OutVotes, F!EntrySide, FP!EntrySide,
     F!ZONE_IN, FP!ZONE_IN
<1>4. F!Scattered(tracks, voters) = FP!Scattered(tracks, voters)
  <2>1. F!Scattered(tracks, voters) <=> FP!Scattered(tracks, voters)
    BY <1>1 DEF F!Scattered, FP!Scattered, F!Elapsed, FP!Elapsed
  <2>2. F!Scattered(tracks, voters) \in BOOLEAN /\ FP!Scattered(tracks, voters) \in BOOLEAN
    BY DEF F!Scattered, FP!Scattered
  <2> QED
    BY <2>1, <2>2
<1>5. \A i, o, sc : F!Decision(i, o, sc) = FP!Decision(i, o, sc)
  BY DEF F!Decision, FP!Decision, F!Cardinality, FP!Cardinality
<1> QED
  BY <1>3, <1>4, <1>5 DEF F!Verdict, FP!Verdict

LEMMA SameParts ==
  ASSUME NEW in
  PROVE /\ F!HasQuorum(in) <=> FP!HasQuorum(in)
        /\ F!Occupied(in) <=> FP!Occupied(in)
        /\ F!Quiet(in) <=> FP!Quiet(in)
        /\ F!Confirmed(in) <=> FP!Confirmed(in)
        /\ F!KeepClear(in) <=> FP!KeepClear(in)
        /\ F!ForgetClear <=> FP!ForgetClear
        /\ F!Remaining(in) = FP!Remaining(in)
        /\ F!NoPaths = FP!NoPaths /\ F!NoResult = FP!NoResult /\ F!Rejected = FP!Rejected
<1>1. F!HasQuorum(in) <=> FP!HasQuorum(in)
  BY DEF F!HasQuorum, FP!HasQuorum, F!Quorum, FP!Quorum, F!Cardinality, FP!Cardinality
<1>2. (F!Occupied(in) <=> FP!Occupied(in)) /\ (F!Quiet(in) <=> FP!Quiet(in))
  BY DEF F!Occupied, FP!Occupied, F!Quiet, FP!Quiet
<1>3. F!ClearSince = FP!ClearSince /\ F!Sampled(in) = FP!Sampled(in) /\ F!Zones = FP!Zones
  BY DEF F!ClearSince, FP!ClearSince, F!Sampled, FP!Sampled,
         F!Zones, FP!Zones, F!ZONE_IN, FP!ZONE_IN, F!ZONE_OUT, FP!ZONE_OUT
<1>4. F!Confirmed(in) <=> FP!Confirmed(in)
  BY <1>3 DEF F!Confirmed, FP!Confirmed, F!Elapsed, FP!Elapsed
<1>5. (F!KeepClear(in) <=> FP!KeepClear(in)) /\ (F!ForgetClear <=> FP!ForgetClear)
  BY <1>3 DEF F!KeepClear, FP!KeepClear, F!ForgetClear, FP!ForgetClear, F!NoSamples, FP!NoSamples
<1>6. F!Remaining(in) = FP!Remaining(in)
  BY DEF F!Remaining, FP!Remaining
<1>7. F!NoPaths = FP!NoPaths /\ F!NoResult = FP!NoResult /\ F!Rejected = FP!Rejected
  BY DEF F!NoPaths, FP!NoPaths, F!NoPath, FP!NoPath, F!NoEdges, FP!NoEdges, F!NoCrossing, FP!NoCrossing,
         F!Zones, FP!Zones, F!ZONE_IN, FP!ZONE_IN, F!ZONE_OUT, FP!ZONE_OUT,
         F!NoResult, FP!NoResult, F!Rejected, FP!Rejected
<1> QED
  BY <1>1, <1>2, <1>4, <1>5, <1>6, <1>7

LEMMA SameUpdate ==
  ASSUME NEW in, NEW step
  PROVE F!Update(in, step) <=> FP!Update(in, step)
<1> USE SameParts, SameTracks, SameVerdict
<1>1. F!LoseQuorum(in) <=> FP!LoseQuorum(in)
  BY DEF F!LoseQuorum, FP!LoseQuorum
<1>2. F!IgnoreOccupied(in) <=> FP!IgnoreOccupied(in)
  BY DEF F!IgnoreOccupied, FP!IgnoreOccupied
<1>3. F!BeginEpisode(in) <=> FP!BeginEpisode(in)
  BY DEF F!BeginEpisode, FP!BeginEpisode
<1>4. F!Track(in) <=> FP!Track(in)
  BY DEF F!Track, FP!Track
<1>5. F!AwaitClear(in) <=> FP!AwaitClear(in)
  BY DEF F!AwaitClear, FP!AwaitClear
<1>6. F!Arm(in) <=> FP!Arm(in)
  BY DEF F!Arm, FP!Arm
<1>7. F!Conclude(in) <=> FP!Conclude(in)
  BY DEF F!Conclude, FP!Conclude
<1>8. F!Later(now, step) = FP!Later(now, step)
  BY DEF F!Later, FP!Later
<1> QED
  BY <1>1, <1>2, <1>3, <1>4, <1>5, <1>6, <1>7, <1>8 DEF F!Update, FP!Update


LEMMA VoteTypes ==
  ASSUME F!TypeOK, NEW in \in F!Input, NEW step \in Steps, F!Update(in, step)
  PROVE F!TypeOK'
<1>1. FP!TypeOK /\ FP!Update(in, step) /\ in \in FP!Input
  BY SameCore, SameState, SameUpdate
<1>2. FP!TypeOK'
  BY <1>1, OneSensor, FP!UpdateType
<1> QED
  BY <1>2, SameState

\* What the observer of Roode and the track of the sensor have in common.
TrackSeen == active => paths[TOF].seen \subseteq seen

\* A direction was seen by the one sensor, in both zones.
LEMMA VerdictSees ==
  ASSUME NEW tracks \in [{TOF} -> FP!Path], NEW voters \in SUBSET {TOF},
         FP!Verdict(tracks, voters).decision \in {"IN", "OUT"}
  PROVE tracks[TOF].seen = Zones
<1> DEFINE i == FP!InVotes(tracks, voters)
           o == FP!OutVotes(tracks, voters)
           scattered == FP!Scattered(tracks, voters)
<1>1. /\ i \in SUBSET {TOF} /\ o \in SUBSET {TOF} /\ scattered \in BOOLEAN
      /\ FP!Decision(i, o, scattered) \in {"IN", "OUT"}
  BY DEF FP!Verdict, FP!InVotes, FP!OutVotes, FP!Voters, FP!Scattered
<1> HIDE DEF scattered, i, o
<1>2. FP!Cardinality(i \cup o) >= 1
  BY <1>1, OneSensor, FP!DecisionCounts
<1>3. FP!Cardinality({}) = 0
  BY OneSensor, FP!FS_EmptySet
<1>4. i \cup o # {}
  BY <1>2, <1>3
<1>5. TOF \in i \cup o
  BY <1>1, <1>4
<1>6. TOF \in FP!InVotes(tracks, voters) \cup FP!OutVotes(tracks, voters)
  BY <1>5 DEF i, o
<1>7. tracks[TOF].seen = FP!Zones
  BY <1>6, OneSensor, FP!VotersWitness
<1> QED
  BY <1>7, SameCore

\* One pass of update() with what the observer remembers of it.
LEMMA VoteSees ==
  ASSUME F!TypeOK, TrackSeen, NEW in \in F!Input, NEW step \in Steps, F!Update(in, step),
         NEW P \in SUBSET Zones, in.states = [s \in {TOF} |-> P],
         seen' = (IF active THEN seen ELSE {}) \cup P, seen \subseteq Zones
  PROVE TrackSeen' /\ CountedInOneStretch'
<1>1. /\ FP!TypeOK /\ FP!Update(in, step) /\ in \in FP!Input /\ FP!TypeOK'
      /\ P \in SUBSET FP!Zones
  BY VoteTypes, SameCore, SameState, SameUpdate
<1>2. /\ paths \in [{TOF} -> FP!Path] /\ eligible \subseteq {TOF} /\ now' \in FP!Time
      /\ active \in BOOLEAN /\ active' \in BOOLEAN
  BY <1>1 DEF FP!TypeOK
<1>3. FP!Kept(in) \in [{TOF} -> FP!Path] /\ FP!NoPaths \in [{TOF} -> FP!Path]
  BY <1>2, OneSensor, FP!KeptType, FP!NoPathsType
<1>4. FP!Kept(in)[TOF].seen \subseteq paths[TOF].seen
  BY <1>2 DEF FP!Kept, FP!NoPath
<1>5. FP!NoPaths[TOF].seen = {}
  BY DEF FP!NoPaths, FP!NoPath
<1>6. in.edges \in [{TOF} -> FP!Edges] /\ in.states[TOF] = P
  BY <1>1 DEF FP!Input
<1>7. ASSUME NEW tracks \in [{TOF} -> FP!Path], NEW voters \in SUBSET {TOF}
      PROVE /\ FP!Observed(tracks, voters, in) \in [{TOF} -> FP!Path]
            /\ FP!Observed(tracks, voters, in)[TOF].seen \subseteq tracks[TOF].seen \cup P
  <2>1. FP!Observed(tracks, voters, in) \in [{TOF} -> FP!Path]
    BY <1>1, <1>2, OneSensor, FP!ObservedType
  <2>2. tracks[TOF] \in FP!Path
    OBVIOUS
  <2>3. FP!Observe(tracks[TOF], P, now', FALSE, in.edges[TOF]).seen \subseteq tracks[TOF].seen \cup P
    BY <1>1, <2>2, OneSensor, FP!ObserveSees
  <2> QED
    BY <1>6, <2>1, <2>3 DEF FP!Observed
<1>8. FP!Remaining(in) \in SUBSET {TOF}
  BY <1>2 DEF FP!Remaining
<1>9. active => FP!Kept(in)[TOF].seen \subseteq seen'
  BY <1>4 DEF TrackSeen
<1>10. /\ FP!Observed(FP!Kept(in), FP!Remaining(in), in) \in [{TOF} -> FP!Path]
       /\ active => FP!Observed(FP!Kept(in), FP!Remaining(in), in)[TOF].seen \subseteq seen'
  BY <1>3, <1>7, <1>8, <1>9
<1>11. result' \in {FP!NoResult, FP!Rejected} => CountedInOneStretch'
  BY DEF CountedInOneStretch, FP!NoResult, FP!Rejected
<1>12. CASE FP!LoseQuorum(in)
  BY <1>11, <1>12 DEF FP!LoseQuorum, TrackSeen
<1>13. CASE FP!IgnoreOccupied(in)
  BY <1>9, <1>11, <1>13 DEF FP!IgnoreOccupied, TrackSeen
<1>14. CASE FP!BeginEpisode(in)
  <2>1. in.healthy \in SUBSET {TOF}
    BY <1>1 DEF FP!Input
  <2>2. FP!Observed(FP!NoPaths, in.healthy, in)[TOF].seen \subseteq P
    BY <1>3, <1>5, <1>7, <2>1
  <2> QED
    BY <1>11, <1>14, <2>2 DEF FP!BeginEpisode, TrackSeen
<1>15. CASE FP!Track(in)
  BY <1>9, <1>10, <1>11, <1>15 DEF FP!Track, TrackSeen
<1>16. CASE FP!AwaitClear(in)
  BY <1>9, <1>10, <1>11, <1>16 DEF FP!AwaitClear, TrackSeen
<1>17. CASE FP!Arm(in)
  BY <1>11, <1>17 DEF FP!Arm, TrackSeen
<1>18. CASE FP!Conclude(in)
  <2> DEFINE tracks == FP!Observed(FP!Kept(in), FP!Remaining(in), in)
  <2>1. result' = FP!Verdict(tracks, FP!Remaining(in)) /\ active = TRUE /\ active' = FALSE
    BY <1>2, <1>18 DEF FP!Conclude
  <2>2. tracks \in [{TOF} -> FP!Path] /\ tracks[TOF].seen \subseteq seen'
    BY <1>10, <2>1
  <2>3. seen' \subseteq Zones
    OBVIOUS
  <2> HIDE DEF tracks
  <2>4. CountedInOneStretch'
    <3>1. CASE result'.decision \in {"IN", "OUT"}
      <4>1. tracks[TOF].seen = Zones
        BY <1>8, <2>1, <2>2, <3>1, VerdictSees
      <4> QED
        BY <2>2, <2>3, <4>1 DEF CountedInOneStretch
    <3>2. CASE result'.decision \notin {"IN", "OUT"}
      BY <3>2 DEF CountedInOneStretch
    <3> QED
      BY <3>1, <3>2
  <2> QED
    BY <2>1, <2>4 DEF TrackSeen
<1> QED
  BY <1>1, <1>12, <1>13, <1>14, <1>15, <1>16, <1>17, <1>18 DEF FP!Update

-----------------------------------------------------------------------------
(* The inductive invariant.  To the properties it adds what they rest on:  *)
(* the driver trusts a region only while the chip measures in it, and what *)
(* failed it, where each zone's region is known, and that a track shows no *)
(* zone but those where somebody was seen in this stretch.                 *)

Booting(d) == d \in Sensor(Regions) /\ Heard(d) /\ d.cached = NONE /\ d.failed = FALSE

VoteInv == F!TypeOK /\ TrackSeen /\ CountedInOneStretch
DriverInv == IF stage = "boot" THEN Booting(tof) ELSE Working(tof)
ZoneInv == MeasuredTypes /\ (stage \in {"pass", "end"} => roi \in [Zones -> Regions])
LoopTypes ==
  /\ current \in Zones /\ stage \in {"boot", "pass", "end", "dead"} /\ seen \subseteq Zones
  /\ calibrated \in BOOLEAN /\ presence \in BOOLEAN /\ masked \in BOOLEAN
CounterTypes == {people, saved} \subseteq 0 .. MaxPeople /\ (stage # "boot" => people = saved)
TuningTypes == {tuned, kept} \subseteq Tunings /\ (stage \in {"pass", "end"} => tuned = kept)

LegacyInv ==
  VoteInv /\ DriverInv /\ ZoneInv /\ LoopTypes /\ CounterTypes /\ TuningTypes /\ MeasuredInItsRegion

LEMMA LegacyTypes == ASSUME LegacyInv PROVE TypeOK
<1>1. tof \in Sensor(Regions)
  BY DEF LegacyInv, DriverInv, Booting, Working
<1> QED
  BY <1>1 DEF LegacyInv, VoteInv, ZoneInv, MeasuredTypes, LoopTypes, CounterTypes, TuningTypes, TypeOK

LEMMA ResetLeaves == ASSUME F!TypeOK, F!Reset PROVE VoteInv'
<1>1. FP!TypeOK /\ FP!Reset
  BY SameState
<1>2. FP!TypeOK'
  BY <1>1, OneSensor, FP!ResetType
<1>3. active' = FALSE /\ result' = FP!NoResult
  BY <1>1 DEF FP!Reset
<1> QED
  BY <1>2, <1>3, SameState DEF VoteInv, TrackSeen, CountedInOneStretch, FP!NoResult

LEMMA VoteStays == ASSUME VoteInv, UNCHANGED <<now, fusion, seen>> PROVE VoteInv'
  BY DEF VoteInv, fusion, F!TypeOK, TrackSeen, CountedInOneStretch

\* The single fault that OneFaultSurvived is about, for one step.
SurvivesStep == ~tof.failed /\ tof'.failed /\ ~tof.own => tof'.faults >= 2

LEMMA WorkingSurvives ==
  ASSUME Working(tof'), Alike(tof, tof')
  PROVE SurvivesStep
<1>1. tof'.failed \in BOOLEAN /\ tof'.own \in BOOLEAN
  BY DEF Working, Sensor
<1> QED
  BY <1>1 DEF Working, Survives, Alike, SurvivesStep

\* calibrate_zones, begun by a driver that has not failed.
LEMMA CalibrateLeaves ==
  ASSUME F!TypeOK, MeasuredTypes, NEW d, Working(d), d.failed = FALSE, NEW t \in Tunings,
         CalibrateZones(d, t)
  PROVE /\ VoteInv' /\ seen' = {}
        /\ Working(tof') /\ Alike(d, tof')
        /\ MeasuredTypes' /\ roi' \in [Zones -> Regions]
        /\ calibrated' \in BOOLEAN
        /\ tuned' = t => MeasuredInItsRegion'
<1>1. PICK c \in Calibrations(d, t) :
        calibrated' = c.ok /\ tof' = c.tof /\ idle' = c.idle /\ samples' = c.samples /\ roi' = c.roi
  BY DEF CalibrateZones
<1>2. Calibrating(d, c) /\ (c.ok = TRUE => Fits(c, t))
  BY CalibrationsLeave
<1>3. VoteInv' /\ seen' = {}
  BY ResetLeaves DEF CalibrateZones
<1>4. c.ok \in BOOLEAN /\ Working(tof') /\ Alike(d, tof') /\ roi' \in [Zones -> Regions]
  BY <1>1, <1>2 DEF Calibrating
<1>5. MeasuredTypes'
  BY <1>1, <1>2 DEF Calibrating, MeasuredTypes
<1>6. ASSUME tuned' = t PROVE MeasuredInItsRegion'
  <2>1. SUFFICES ASSUME calibrated' = TRUE, NEW zone \in Zones
        PROVE /\ roi'[zone] = Fitted(zone, tuned') /\ idle'[zone] = {roi'[zone]}
              /\ \A n \in DOMAIN samples'[zone] : samples'[zone][n].region = roi'[zone]
    BY <1>1, <1>4 DEF MeasuredInItsRegion
  <2>2. roi'[zone] = Fitted(zone, t) /\ idle'[zone] = {Fitted(zone, t)} /\ samples'[zone] = <<>>
    BY <1>1, <1>2, <2>1 DEF Fits
  <2> QED
    BY <1>6, <2>2, EmptySample
<1> QED
  BY <1>1, <1>3, <1>4, <1>5, <1>6

\* The counter is clamped as it changes.
LEMMA ClampedType == ASSUME NEW value \in Int PROVE Clamped(value) \in 0 .. MaxPeople
  BY Bounds DEF Clamped

LEMMA ControlLeaves ==
  ASSUME NEW value \in Int, Control(value)
  PROVE people' \in 0 .. MaxPeople /\ saved' \in 0 .. MaxPeople /\ people' = saved'
  BY ClampedType DEF Control

LEMMA CountLeaves ==
  ASSUME CounterTypes, stage # "boot", Count
  PROVE people' \in 0 .. MaxPeople /\ saved' \in 0 .. MaxPeople /\ people' = saved'
<1>1. people \in 0 .. MaxPeople /\ people = saved
  BY DEF CounterTypes
<1>2. /\ people + 1 \in Int /\ people - 1 \in Int
      /\ Clamped(people + 1) \in Int /\ Clamped(people - 1) \in Int
  BY <1>1, Bounds, ClampedType
<1>3. CASE result'.decision = "IN"
  BY <1>2, <1>3, ControlLeaves DEF Count
<1>4. CASE result'.decision = "OUT"
  BY <1>2, <1>4, ControlLeaves DEF Count
<1>5. CASE result'.decision \notin {"IN", "OUT"}
  BY <1>1, <1>5 DEF Count, counter
<1> QED
  BY <1>3, <1>4, <1>5

LEMMA BootKeeps ==
  ASSUME LegacyInv, Boot
  PROVE LegacyInv' /\ SurvivesStep
<1>1. /\ F!TypeOK /\ MeasuredTypes /\ LoopTypes /\ Booting(tof)
      /\ saved \in 0 .. MaxPeople /\ tuned \in Tunings /\ kept \in Tunings
  BY DEF Boot, LegacyInv, VoteInv, ZoneInv, DriverInv, CounterTypes, TuningTypes
<1>2. CounterTypes'
  BY <1>1, ControlLeaves, Bounds DEF Boot, CounterTypes
<1>3. PICK d \in Setup(tof) :
        IF d.failed
        THEN /\ stage' = "dead" /\ tof' = d /\ F!Reset /\ seen' = {}
             /\ UNCHANGED <<tuned, calibrated, measured>>
        ELSE stage' = "pass" /\ LoadTuning /\ CalibrateZones(d, kept)
  BY DEF Boot
<1>4. Working(d) /\ Alike(tof, d)
  <2>1. tof \in Sensor(Regions) /\ Heard(tof) /\ tof.cached = NONE /\ tof.failed = FALSE
    BY <1>1 DEF Booting
  <2> QED
    BY <2>1, SetupLeaves
<1>5. d.failed \in BOOLEAN
  BY <1>4 DEF Working, Sensor
<1>6. UNCHANGED <<kept, current, presence, masked>>
  BY DEF Boot
<1>7. CASE d.failed = TRUE
  <2>1. /\ stage' = "dead" /\ tof' = d /\ F!Reset /\ seen' = {}
        /\ UNCHANGED <<tuned, calibrated, roi, idle, samples>>
    BY <1>3, <1>7 DEF measured
  <2>2. VoteInv'
    BY <1>1, <2>1, ResetLeaves
  <2>3. DriverInv' /\ SurvivesStep
    BY <1>4, <2>1, WorkingSurvives DEF DriverInv
  <2>4. ZoneInv' /\ LoopTypes' /\ TuningTypes' /\ MeasuredInItsRegion'
    BY <1>1, <1>6, <1>7, <2>1 DEF ZoneInv, MeasuredTypes, LoopTypes, TuningTypes, MeasuredInItsRegion
  <2> QED
    BY <1>2, <2>2, <2>3, <2>4 DEF LegacyInv
<1>8. CASE d.failed = FALSE
  <2>1. stage' = "pass" /\ tuned' = kept /\ CalibrateZones(d, kept)
    BY <1>3, <1>8 DEF LoadTuning
  <2>2. /\ VoteInv' /\ seen' = {}
        /\ Working(tof') /\ Alike(d, tof')
        /\ MeasuredTypes' /\ roi' \in [Zones -> Regions]
        /\ calibrated' \in BOOLEAN
        /\ tuned' = kept => MeasuredInItsRegion'
    BY <1>1, <1>4, <1>8, <2>1, CalibrateLeaves
  <2>3. DriverInv' /\ SurvivesStep
    BY <1>4, <2>1, <2>2, WorkingSurvives DEF DriverInv, Alike
  <2>4. ZoneInv' /\ LoopTypes' /\ TuningTypes'
    BY <1>1, <1>6, <2>1, <2>2 DEF ZoneInv, LoopTypes, TuningTypes
  <2> QED
    BY <1>2, <2>1, <2>2, <2>3, <2>4 DEF LegacyInv
<1> QED
  BY <1>5, <1>7, <1>8

LEMMA RetryKeeps ==
  ASSUME LegacyInv, RetryCalibration
  PROVE LegacyInv' /\ SurvivesStep
<1>1. /\ F!TypeOK /\ MeasuredTypes /\ LoopTypes /\ Working(tof) /\ CounterTypes /\ TuningTypes
      /\ tuned \in Tunings
  BY DEF RetryCalibration, LegacyInv, VoteInv, ZoneInv, DriverInv, TuningTypes
<1>2. /\ tof.failed = FALSE /\ stage = "pass" /\ CalibrateZones(tof, tuned)
      /\ UNCHANGED <<current, stage, presence, masked, people, saved, tuned, kept>>
  BY <1>1 DEF RetryCalibration, Working, Sensor, counter, tuning
<1>3. /\ VoteInv' /\ seen' = {}
      /\ Working(tof') /\ Alike(tof, tof')
      /\ MeasuredTypes' /\ roi' \in [Zones -> Regions]
      /\ calibrated' \in BOOLEAN
      /\ tuned' = tuned => MeasuredInItsRegion'
  BY <1>1, <1>2, CalibrateLeaves
<1>4. DriverInv' /\ SurvivesStep
  BY <1>2, <1>3, WorkingSurvives DEF DriverInv
<1>5. ZoneInv' /\ LoopTypes' /\ TuningTypes' /\ CounterTypes'
  BY <1>1, <1>2, <1>3 DEF ZoneInv, LoopTypes, TuningTypes, CounterTypes
<1> QED
  BY <1>2, <1>3, <1>4, <1>5 DEF LegacyInv

\* recalibration(), with the overrides t.
LEMMA RecalibrationLeaves ==
  ASSUME LegacyInv, stage \in {"pass", "end"}, NEW t \in Tunings, Recalibration(t)
  PROVE /\ VoteInv' /\ seen' = {} /\ presence' = FALSE /\ masked' = FALSE
        /\ Working(tof') /\ Alike(tof, tof')
        /\ MeasuredTypes' /\ roi' \in [Zones -> Regions]
        /\ calibrated' \in BOOLEAN
        /\ tuned' = t => MeasuredInItsRegion'
<1>1. F!TypeOK /\ MeasuredTypes /\ Working(tof)
  BY DEF LegacyInv, VoteInv, ZoneInv, DriverInv
<1>2. tof.failed = FALSE /\ CalibrateZones(tof, t) /\ presence' = FALSE /\ masked' = FALSE
  BY <1>1 DEF Recalibration, Working, Sensor
<1> QED
  BY <1>1, <1>2, CalibrateLeaves

\* A recalibration in the main loop, after which the tuning is what it measured with.
LEMMA RecalibratedKeeps ==
  ASSUME LegacyInv, stage \in {"pass", "end"}, NEW t \in Tunings, Recalibration(t),
         stage' = "pass", current' \in Zones, UNCHANGED counter, tuned' = t, kept' = t
  PROVE LegacyInv' /\ SurvivesStep
<1>1. /\ VoteInv' /\ seen' = {} /\ presence' = FALSE /\ masked' = FALSE
      /\ Working(tof') /\ Alike(tof, tof')
      /\ MeasuredTypes' /\ roi' \in [Zones -> Regions]
      /\ calibrated' \in BOOLEAN
      /\ tuned' = t => MeasuredInItsRegion'
  BY RecalibrationLeaves
<1>2. DriverInv' /\ SurvivesStep
  BY <1>1, WorkingSurvives DEF DriverInv
<1>3. CounterTypes /\ LoopTypes
  BY DEF LegacyInv
<1>4. ZoneInv' /\ LoopTypes' /\ TuningTypes' /\ CounterTypes'
  BY <1>1, <1>3 DEF ZoneInv, LoopTypes, TuningTypes, CounterTypes, counter
<1> QED
  BY <1>1, <1>2, <1>4 DEF LegacyInv

LEMMA EndPassKeeps ==
  ASSUME LegacyInv, EndPass
  PROVE LegacyInv' /\ SurvivesStep
<1>1. /\ stage = "end" /\ stage' = "pass" /\ current' \in Zones
      /\ UNCHANGED <<now, fusion, seen>>
      /\ UNCHANGED <<tof, calibrated, roi, idle, samples, presence, masked, people, saved, tuned, kept>>
  BY TwoZones DEF EndPass, NextZone, Other, measured, counter, tuning
<1>2. VoteInv'
  BY <1>1, VoteStays DEF LegacyInv
<1>3. DriverInv' /\ SurvivesStep
  BY <1>1 DEF LegacyInv, DriverInv, SurvivesStep
<1>4. ZoneInv' /\ MeasuredInItsRegion'
  BY <1>1 DEF LegacyInv, ZoneInv, MeasuredTypes, MeasuredInItsRegion
<1>5. LoopTypes' /\ TuningTypes' /\ CounterTypes'
  BY <1>1 DEF LegacyInv, LoopTypes, TuningTypes, CounterTypes
<1> QED
  BY <1>2, <1>3, <1>4, <1>5 DEF LegacyInv

LEMMA AutoRecalibrationKeeps ==
  ASSUME LegacyInv, AutoRecalibration
  PROVE LegacyInv' /\ SurvivesStep
<1>1. stage \in {"pass", "end"} /\ tuned \in Tunings /\ kept = tuned
  BY DEF AutoRecalibration, LegacyInv, TuningTypes
<1>2. /\ Recalibration(tuned) /\ stage' = "pass" /\ current' \in Zones /\ UNCHANGED counter
      /\ tuned' = tuned /\ kept' = tuned
  BY <1>1, TwoZones DEF AutoRecalibration, NextZone, Other, tuning
<1> QED
  BY <1>1, <1>2, RecalibratedKeeps

LEMMA RecalibrateKeeps ==
  ASSUME LegacyInv, Recalibrate
  PROVE LegacyInv' /\ SurvivesStep
<1>1. stage \in {"pass", "end"} /\ tuned \in Tunings /\ kept = tuned
  BY DEF Recalibrate, LegacyInv, TuningTypes
<1>2. /\ Recalibration(tuned) /\ stage' = "pass" /\ current' \in Zones /\ UNCHANGED counter
      /\ tuned' = tuned /\ kept' = tuned
  BY <1>1, TwoZones DEF Recalibrate, tuning
<1> QED
  BY <1>1, <1>2, RecalibratedKeeps

LEMMA ApplyTuningKeeps ==
  ASSUME LegacyInv, NEW t \in Tunings, ApplyTuning(t)
  PROVE LegacyInv' /\ SurvivesStep
<1>1. /\ stage = "pass" /\ stage' = "pass" /\ UNCHANGED counter /\ tuned' = t /\ kept' = t
  BY DEF ApplyTuning, SetTuning, PersistSettings
<1>2. CASE t # tuned /\ Recalibration(t) /\ current' = Entry
  BY <1>1, <1>2, TwoZones, RecalibratedKeeps
<1>3. ASSUME t = tuned \/ tof.failed, samples' = [zone \in Zones |-> <<>>],
             UNCHANGED <<now, fusion, tof, calibrated, roi, idle, current, presence, masked, seen>>
      PROVE  LegacyInv' /\ SurvivesStep
  <2>1. VoteInv'
    BY <1>3, VoteStays DEF LegacyInv
  <2>2. DriverInv' /\ SurvivesStep
    BY <1>1, <1>3 DEF LegacyInv, DriverInv, SurvivesStep
  <2>3. ZoneInv'
    <3>1. samples' \in [Zones -> Seq(Sample)] /\ \A zone \in Zones : Len(samples'[zone]) <= Samples
      BY <1>3, EmptySample
    <3> QED
      BY <1>1, <1>3, <3>1 DEF LegacyInv, ZoneInv, MeasuredTypes
  <2>4. MeasuredInItsRegion'
    <3>1. SUFFICES ASSUME calibrated, ~tof.failed, NEW zone \in Zones
          PROVE /\ roi[zone] = Fitted(zone, tuned') /\ idle[zone] = {roi[zone]}
                /\ \A n \in DOMAIN samples'[zone] : samples'[zone][n].region = roi[zone]
      BY <1>3 DEF MeasuredInItsRegion
    <3>2. samples'[zone] = <<>> /\ tuned' = tuned
      BY <1>1, <1>3, <3>1
    <3> QED
      BY <3>1, <3>2, EmptySample DEF LegacyInv, MeasuredInItsRegion
  <2>5. LoopTypes' /\ TuningTypes' /\ CounterTypes'
    BY <1>1, <1>3 DEF LegacyInv, LoopTypes, TuningTypes, CounterTypes, counter
  <2> QED
    BY <2>1, <2>2, <2>3, <2>4, <2>5 DEF LegacyInv
<1> QED
  BY <1>2, <1>3 DEF ApplyTuning

LEMMA SetPeopleKeeps ==
  ASSUME LegacyInv, SetPeople
  PROVE LegacyInv' /\ SurvivesStep
<1>1. /\ stage = "pass" /\ stage' = "pass" /\ current' = current
      /\ UNCHANGED <<now, fusion, seen>>
      /\ UNCHANGED <<tof, calibrated, roi, idle, samples, presence, masked, tuned, kept>>
  BY DEF SetPeople, measured, tuning
<1>2. PICK value \in -1 .. MaxPeople + 1 : Control(value)
  BY DEF SetPeople
<1>3. value \in Int
  BY <1>2, Bounds
<1>4. people' \in 0 .. MaxPeople /\ saved' \in 0 .. MaxPeople /\ people' = saved'
  BY <1>2, <1>3, ControlLeaves
<1>5. VoteInv'
  BY <1>1, VoteStays DEF LegacyInv
<1>6. DriverInv' /\ SurvivesStep
  BY <1>1 DEF LegacyInv, DriverInv, SurvivesStep
<1>7. ZoneInv' /\ MeasuredInItsRegion'
  BY <1>1 DEF LegacyInv, ZoneInv, MeasuredTypes, MeasuredInItsRegion
<1>8. LoopTypes' /\ TuningTypes' /\ CounterTypes'
  BY <1>1, <1>4 DEF LegacyInv, LoopTypes, TuningTypes, CounterTypes
<1> QED
  BY <1>5, <1>6, <1>7, <1>8 DEF LegacyInv

LEMMA RestartKeeps ==
  ASSUME LegacyInv, Restart
  PROVE LegacyInv' /\ SurvivesStep
<1>1. Working(tof) /\ LoopTypes /\ CounterTypes /\ TuningTypes /\ F!TypeOK
  BY DEF Restart, LegacyInv, DriverInv, VoteInv
<1>2. Booting(tof')
  <2> DEFINE new == New(tof.own, tof.xshut)
             on == [new EXCEPT !.at = tof.at, !.chip = tof.chip]
  <2>1. /\ tof.own \in BOOLEAN /\ tof.xshut \in BOOLEAN /\ tof.at \in Addresses
        /\ tof.chip \in Regions \cup Unset /\ (tof.own = FALSE => tof.at = DEFAULT)
    BY <1>1 DEF Working, Sensor, Heard
  <2>2. /\ new.own = tof.own /\ new.at = DEFAULT /\ new.believed = DEFAULT /\ new.cached = NONE
        /\ new.failed = FALSE
    BY DEF New
  <2>3. new \in Sensor(Regions)
    BY <2>1, Bounds DEF New, Sensor, Addresses, Unset
  <2> HIDE DEF new
  <2>4. /\ on \in Sensor(Regions) /\ on.own = new.own /\ on.at = tof.at /\ on.believed = new.believed
        /\ on.cached = new.cached /\ on.failed = new.failed
    BY <2>1, <2>3 DEF Sensor
  <2> HIDE DEF on
  <2>5. tof' = new \/ tof' = on
    BY DEF Restart, new, on
  <2> QED
    BY <2>1, <2>2, <2>3, <2>4, <2>5 DEF Booting, Heard
<1>3. VoteInv' /\ seen' = {}
  BY <1>1, ResetLeaves DEF Restart
<1>4. DriverInv' /\ SurvivesStep
  BY <1>2 DEF Restart, DriverInv, SurvivesStep, Booting
<1>5. ZoneInv'
  <2>1. samples' \in [Zones -> Seq(Sample)] /\ \A zone \in Zones : Len(samples'[zone]) <= Samples
    BY EmptySample DEF Restart
  <2>2. /\ roi' \in [Zones -> Regions \cup {NONE}]
        /\ idle' \in [Zones -> SUBSET (Regions \cup Unset)]
    BY DEF Restart
  <2> QED
    BY <2>1, <2>2 DEF Restart, ZoneInv, MeasuredTypes
<1>6. MeasuredInItsRegion'
  BY DEF Restart, MeasuredInItsRegion
<1>7. LoopTypes' /\ TuningTypes' /\ CounterTypes'
  <2>1. /\ stage' = "boot" /\ calibrated' = FALSE /\ current' = Entry /\ presence' = FALSE /\ masked' = FALSE
        /\ people' = 0 /\ tuned' = CONFIGURED /\ saved' \in 0 .. MaxPeople /\ kept' = kept
    BY DEF Restart
  <2>2. 0 \in 0 .. MaxPeople /\ CONFIGURED \in Tunings /\ Entry \in Zones
    BY TwoZones, Bounds
  <2> QED
    BY <1>1, <1>3, <2>1, <2>2 DEF LoopTypes, TuningTypes, CounterTypes
<1> QED
  BY <1>3, <1>4, <1>5, <1>6, <1>7 DEF LegacyInv

\* One pass over a distance: d is the driver after it.
LEMMA ReadingKeeps ==
  ASSUME LegacyInv, stage = "pass", stage' = "end", calibrated,
         NEW d, Working(d), Alike(tof, d), d.chip = roi[current], tof.failed = TRUE => d.failed = TRUE,
         tof' = d, Reading(d), UNCHANGED <<calibrated, roi, idle, current, tuning>>
  PROVE LegacyInv'
<1>1. /\ F!TypeOK /\ TrackSeen /\ MeasuredTypes /\ LoopTypes /\ CounterTypes /\ TuningTypes
      /\ roi \in [Zones -> Regions] /\ MeasuredInItsRegion
  BY DEF LegacyInv, VoteInv, ZoneInv
<1>2. PICK distance \in Distances, step \in Steps :
        /\ samples' = Extended(current, distance, d.chip)
        /\ masked' \in (IF Covered THEN {masked, TRUE} ELSE {FALSE})
        /\ PathTracking(step)
  BY DEF Reading
<1> DEFINE in == [healthy |-> IF \A zone \in Zones : HasDistance(zone) THEN {TOF} ELSE {},
                  states |-> [s \in {TOF} |-> Present], fresh |-> [s \in {TOF} |-> {current}],
                  unsettled |-> FALSE, edges |-> [s \in {TOF} |-> NoEdges]]
<1>3. /\ presence' = (Present # {}) /\ seen' = (IF active THEN seen ELSE {}) \cup Present
      /\ F!Update(in, step) /\ Count
  BY <1>2 DEF PathTracking
<1>4. Present \in SUBSET Zones /\ current \in Zones
  BY <1>1 DEF Present, LoopTypes
<1>5. in \in F!Input
  <2>1. NoEdges \in F!Edges
    BY OneSensor DEF NoEdges, NoCrossing, F!Edges, F!Crossing, F!Zones, F!Time, F!ZONE_IN, F!ZONE_OUT,
       Zones, ZONE_IN, ZONE_OUT
  <2>2. F!Zones = Zones
    BY SameCore
  <2> QED
    BY <1>4, <2>1, <2>2 DEF F!Input
<1>6. in.states = [s \in {TOF} |-> Present]
  OBVIOUS
<1> HIDE DEF in
<1>7. VoteInv'
  <2>1. F!TypeOK'
    BY <1>1, <1>3, <1>5, VoteTypes
  <2>2. seen \subseteq Zones
    BY <1>1 DEF LoopTypes
  <2>3. TrackSeen' /\ CountedInOneStretch'
    BY <1>1, <1>3, <1>4, <1>5, <1>6, <2>2, VoteSees
  <2> QED
    BY <2>1, <2>3 DEF VoteInv
<1>8. /\ samples' \in [Zones -> Seq(Sample)]
      /\ \A z \in Zones : Len(samples'[z]) <= Samples
      /\ \A z \in Zones : z # current => samples'[z] = samples[z]
      /\ AllOf(samples[current], d.chip) => AllOf(samples'[current], d.chip)
  <2>1. d.chip \in Regions
    BY <1>1, <1>4
  <2>2. PICK now1 : now1 = samples'
    OBVIOUS
  <2>3. now1 = Extended(current, distance, d.chip)
    BY <1>2, <2>2
  <2>4. /\ now1 \in [Zones -> Seq(Sample)]
        /\ \A z \in Zones : Len(now1[z]) <= Samples
        /\ \A z \in Zones : z # current => now1[z] = samples[z]
        /\ AllOf(samples[current], d.chip) => AllOf(now1[current], d.chip)
    BY <1>1, <1>4, <2>1, <2>3, ExtendedLeaves
  <2> QED
    BY <2>2, <2>4
<1>9. DriverInv'
  BY DEF DriverInv
<1>10. ZoneInv'
  BY <1>1, <1>8 DEF ZoneInv, MeasuredTypes
<1>11. MeasuredInItsRegion'
  <2>1. SUFFICES ASSUME d.failed # TRUE, NEW zone \in Zones
        PROVE /\ roi[zone] = Fitted(zone, tuned) /\ idle[zone] = {roi[zone]}
              /\ \A n \in DOMAIN samples'[zone] : samples'[zone][n].region = roi[zone]
    BY DEF MeasuredInItsRegion, tuning
  <2>2. ~tof.failed
    <3>1. tof.failed \in BOOLEAN
      BY DEF LegacyInv, DriverInv, Working, Sensor
    <3> QED
      BY <2>1, <3>1
  <2>3. /\ roi[zone] = Fitted(zone, tuned) /\ idle[zone] = {roi[zone]}
        /\ \A n \in DOMAIN samples[zone] : samples[zone][n].region = roi[zone]
    BY <1>1, <2>2 DEF MeasuredInItsRegion
  <2>4. CASE zone = current
    BY <1>8, <2>3, <2>4 DEF AllOf
  <2>5. CASE zone # current
    BY <1>8, <2>3, <2>5
  <2> QED
    BY <2>4, <2>5
<1>12. LoopTypes'
  <2>1. seen' \subseteq Zones /\ presence' \in BOOLEAN
    BY <1>1, <1>3, <1>4 DEF LoopTypes
  <2>2. masked' \in BOOLEAN
    BY <1>1, <1>2 DEF LoopTypes
  <2> QED
    BY <1>1, <2>1, <2>2 DEF LoopTypes
<1>13. CounterTypes' /\ TuningTypes'
  <2>1. people' \in 0 .. MaxPeople /\ saved' \in 0 .. MaxPeople /\ people' = saved'
    BY <1>1, <1>3, CountLeaves
  <2> QED
    BY <1>1, <2>1 DEF CounterTypes, TuningTypes, tuning
<1> QED
  BY <1>7, <1>9, <1>10, <1>11, <1>12, <1>13 DEF LegacyInv

\* One pass without a distance.
LEMMA NoReadingKeeps ==
  ASSUME LegacyInv, stage = "pass", stage' = "end",
         Working(tof'), tof.failed = TRUE => tof'.failed = TRUE,
         NoReading, UNCHANGED <<calibrated, roi, idle, current, tuning>>
  PROVE LegacyInv'
<1>1. /\ F!TypeOK /\ MeasuredTypes /\ LoopTypes /\ CounterTypes /\ TuningTypes
      /\ roi \in [Zones -> Regions] /\ MeasuredInItsRegion
  BY DEF LegacyInv, VoteInv, ZoneInv
<1>2. /\ samples' = [samples EXCEPT ![current] = <<>>] /\ F!Reset /\ seen' = {} /\ presence' = FALSE
      /\ UNCHANGED <<masked, people, saved, tuned, kept, calibrated, roi, idle, current>>
  BY DEF NoReading, counter, tuning
<1>3. \A zone \in Zones : samples'[zone] = <<>> \/ samples'[zone] = samples[zone]
  BY <1>1, <1>2 DEF MeasuredTypes
<1>4. VoteInv'
  BY <1>1, <1>2, ResetLeaves
<1>5. DriverInv'
  BY DEF DriverInv
<1>6. ZoneInv'
  <2>1. samples' \in [Zones -> Seq(Sample)]
    BY <1>1, <1>2, EmptySample DEF MeasuredTypes
  <2>2. \A zone \in Zones : Len(samples'[zone]) <= Samples
    BY <1>1, <1>3, EmptySample DEF MeasuredTypes
  <2> QED
    BY <1>1, <1>2, <2>1, <2>2 DEF ZoneInv, MeasuredTypes
<1>7. MeasuredInItsRegion'
  <2>1. SUFFICES ASSUME calibrated, tof'.failed # TRUE, NEW zone \in Zones
        PROVE /\ roi[zone] = Fitted(zone, tuned) /\ idle[zone] = {roi[zone]}
              /\ \A n \in DOMAIN samples'[zone] : samples'[zone][n].region = roi[zone]
    BY DEF MeasuredInItsRegion, tuning
  <2>2. ~tof.failed
    <3>1. tof.failed \in BOOLEAN
      BY DEF LegacyInv, DriverInv, Working, Sensor
    <3> QED
      BY <2>1, <3>1
  <2>3. /\ roi[zone] = Fitted(zone, tuned) /\ idle[zone] = {roi[zone]}
        /\ \A n \in DOMAIN samples[zone] : samples[zone][n].region = roi[zone]
    BY <1>1, <2>1, <2>2 DEF MeasuredInItsRegion
  <2>4. CASE samples'[zone] = <<>>
    BY <2>3, <2>4, EmptySample
  <2>5. CASE samples'[zone] = samples[zone]
    BY <2>3, <2>5
  <2> QED
    BY <1>3, <2>4, <2>5
<1>8. LoopTypes' /\ CounterTypes' /\ TuningTypes'
  BY <1>1, <1>2 DEF LoopTypes, CounterTypes, TuningTypes
<1> QED
  BY <1>4, <1>5, <1>6, <1>7, <1>8 DEF LegacyInv

LEMMA PassKeeps ==
  ASSUME LegacyInv, Pass
  PROVE LegacyInv' /\ SurvivesStep
<1>1. /\ stage = "pass" /\ calibrated /\ stage' = "end"
      /\ UNCHANGED <<calibrated, roi, idle, current, tuning>>
  BY DEF Pass
<1>2. Working(tof) /\ roi \in [Zones -> Regions] /\ current \in Zones
  BY <1>1 DEF LegacyInv, DriverInv, ZoneInv, LoopTypes
<1>3. PICK region \in Regions : region = roi[current]
  BY <1>2
<1>4. PICK o \in ReadDistance(tof, region) :
        tof' = o.tof /\ IF o.status = "OK" THEN Reading(o.tof) ELSE NoReading
  BY <1>3 DEF Pass
<1>5. /\ Working(o.tof) /\ Alike(tof, o.tof)
      /\ o.status = "OK" => o.tof.chip = region
      /\ tof.failed = TRUE => o.tof.failed = TRUE
  BY <1>2, ReadDistanceLeaves
<1>6. SurvivesStep
  <2>1. Working(tof') /\ Alike(tof, tof')
    BY <1>4, <1>5
  <2> QED
    BY <2>1, WorkingSurvives
<1>7. CASE o.status = "OK"
  <2>1. PICK d : d = o.tof
    OBVIOUS
  <2>2. /\ Working(d) /\ Alike(tof, d) /\ d.chip = roi[current] /\ (tof.failed = TRUE => d.failed = TRUE)
        /\ tof' = d /\ Reading(d)
    BY <1>3, <1>4, <1>5, <1>7, <2>1
  <2>3. LegacyInv'
    BY <1>1, <2>2, ReadingKeeps
  <2> QED
    BY <1>6, <2>3
<1>8. CASE o.status # "OK"
  <2>1. NoReading /\ Working(tof') /\ (tof.failed = TRUE => tof'.failed = TRUE)
    BY <1>4, <1>5, <1>8
  <2>2. LegacyInv'
    BY <1>1, <2>1, NoReadingKeeps
  <2> QED
    BY <1>6, <2>2
<1> QED
  BY <1>7, <1>8

LEMMA InitLegacy == Init => LegacyInv
<1> SUFFICES ASSUME Init PROVE LegacyInv
  OBVIOUS
<1>1. VoteInv
  <2>1. now \in FP!Time
    BY OneSensor DEF Init, FP!Time
  <2>2. FP!Init
    BY <2>1, SameState DEF Init, FP!Init
  <2>3. FP!TypeOK
    BY <2>2, OneSensor, FP!InitType
  <2>4. active = FALSE /\ result = FP!NoResult
    BY <2>2 DEF FP!Init, FP!Fresh
  <2> QED
    BY <2>3, <2>4, SameState DEF VoteInv, TrackSeen, CountedInOneStretch, FP!NoResult
<1>2. DriverInv
  <2>1. PICK own \in Own : \E xshut \in XShut : tof = New(own, xshut)
    BY DEF Init
  <2>2. PICK xshut \in XShut : tof = New(own, xshut)
    BY <2>1
  <2>3. own \in BOOLEAN /\ xshut \in BOOLEAN /\ 0 \in 0 .. MaxFaults
    BY Bounds
  <2>4. Booting(tof)
    BY <2>2, <2>3 DEF Booting, Sensor, New, Heard, Addresses, Unset
  <2> QED
    BY <2>4 DEF Init, DriverInv
<1>3. ZoneInv
  <2>1. samples \in [Zones -> Seq(Sample)] /\ \A zone \in Zones : Len(samples[zone]) <= Samples
    BY EmptySample DEF Init
  <2> QED
    BY <2>1 DEF Init, ZoneInv, MeasuredTypes
<1>4. MeasuredInItsRegion
  BY DEF Init, MeasuredInItsRegion
<1>5. LoopTypes /\ CounterTypes /\ TuningTypes
  <2>1. /\ stage = "boot" /\ calibrated = FALSE /\ current = Entry /\ presence = FALSE /\ masked = FALSE
        /\ people = 0 /\ saved = 0 /\ tuned = CONFIGURED /\ kept = CONFIGURED /\ seen = {}
    BY DEF Init
  <2>2. 0 \in 0 .. MaxPeople /\ CONFIGURED \in Tunings /\ Entry \in Zones
    BY TwoZones, Bounds
  <2> QED
    BY <2>1, <2>2 DEF LoopTypes, CounterTypes, TuningTypes
<1> QED
  BY <1>1, <1>2, <1>3, <1>4, <1>5 DEF LegacyInv

LEMMA NextLegacy == ASSUME LegacyInv, [Next]_vars PROVE LegacyInv' /\ SurvivesStep
<1>1. CASE Boot
  BY <1>1, BootKeeps
<1>2. CASE RetryCalibration
  BY <1>2, RetryKeeps
<1>3. CASE Pass
  BY <1>3, PassKeeps
<1>4. CASE EndPass
  BY <1>4, EndPassKeeps
<1>5. CASE AutoRecalibration
  BY <1>5, AutoRecalibrationKeeps
<1>6. CASE Recalibrate
  BY <1>6, RecalibrateKeeps
<1>7. CASE SetPeople
  BY <1>7, SetPeopleKeeps
<1>8. CASE Restart
  BY <1>8, RestartKeeps
<1>9. ASSUME NEW t \in Tunings, ApplyTuning(t) PROVE LegacyInv' /\ SurvivesStep
  BY <1>9, ApplyTuningKeeps
<1>10. CASE UNCHANGED vars
  <2>1. /\ UNCHANGED <<now, fusion, seen>>
        /\ UNCHANGED <<tof, calibrated, roi, idle, samples, current, stage, presence, masked, people, saved,
                       tuned, kept>>
    BY <1>10 DEF vars, measured, counter, tuning
  <2>2. VoteInv'
    BY <2>1, VoteStays DEF LegacyInv
  <2>3. DriverInv' /\ SurvivesStep
    BY <2>1 DEF LegacyInv, DriverInv, SurvivesStep
  <2>4. ZoneInv' /\ MeasuredInItsRegion'
    BY <2>1 DEF LegacyInv, ZoneInv, MeasuredTypes, MeasuredInItsRegion
  <2>5. LoopTypes' /\ TuningTypes' /\ CounterTypes'
    BY <2>1 DEF LegacyInv, LoopTypes, TuningTypes, CounterTypes
  <2> QED
    BY <2>2, <2>3, <2>4, <2>5 DEF LegacyInv
<1> QED
  BY <1>1, <1>2, <1>3, <1>4, <1>5, <1>6, <1>7, <1>8, <1>9, <1>10 DEF Next, Loop

\* At every step of every run: Spec's steps, whatever their fairness.
LEMMA LegacyHolds == Spec => []LegacyInv
<1>1. LegacyInv /\ [Next]_vars => LegacyInv'
  BY NextLegacy
<1> QED
  BY <1>1, InitLegacy, PTL DEF Spec

\* Every variable of the legacy counter keeps its type, the people counter stays
\* within its limits and agrees with flash, and so does the tuning, through boots,
\* failed transfers, recalibrations and new settings.
THEOREM LegacyTypesHold == Spec => []TypeOK
<1>1. LegacyInv => TypeOK
  BY LegacyTypes
<1> QED
  BY <1>1, LegacyHolds, PTL

\* Roode counts on samples and thresholds of a zone's own region in its present
\* size, for any number of samples, of readings in a calibration, of attempts at
\* setup and of tunings: what read_distance_once_ remembers of the chip's region
\* is never wrong when a measurement starts, and calibrate_zones leaves no sample.
THEOREM MeasuredWhereSaid == Spec => []MeasuredInItsRegion
<1>1. LegacyInv => MeasuredInItsRegion
  BY DEF LegacyInv
<1> QED
  BY <1>1, LegacyHolds, PTL

\* updateCounter never counts a person whose track spans a failed reading, a
\* recalibration or a restart: both zones saw somebody since the last of those.
THEOREM CountedOnOneStretch == Spec => []CountedInOneStretch
<1>1. LegacyInv => CountedInOneStretch
  BY DEF LegacyInv, VoteInv
<1> QED
  BY <1>1, LegacyHolds, PTL

\* Whatever a transfer loses, read_distance and setup fail the component of a
\* sensor at the default address on the second failed transfer at the earliest.
THEOREM OneFaultIsSurvived == Spec => OneFaultSurvived
<1>1. LegacyInv /\ [Next]_vars => [~tof.failed /\ tof'.failed /\ ~tof.own => tof'.faults >= 2]_vars
  BY NextLegacy DEF SurvivesStep
<1> QED
  BY <1>1, LegacyHolds, PTL DEF Spec, OneFaultSurvived
=============================================================================
