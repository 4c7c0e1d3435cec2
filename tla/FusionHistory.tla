--------------------------- MODULE FusionHistory ---------------------------
(***************************************************************************)
(* Fusion with history variables: what an observer of the calls alone      *)
(* would remember, in unbounded time and with nothing of Fusion's own      *)
(* bookkeeping.  The properties compare the verdicts with that memory.     *)
(***************************************************************************)
EXTENDS Fusion

CONSTANT Horizon  \* the observer stops counting quiet milliseconds here

ASSUME HorizonAssumption == Horizon \in Nat /\ ClearMs <= Horizon

VARIABLES
  quiet,     \* the last call showed an empty, settled doorway with a quorum
  quiet_for, \* how long every call has
  sampled,   \* zones sampled in that time
  whole,     \* sensors healthy at every call of the episode
  touched,   \* zones each sensor saw occupied in the episode
  lasted,    \* how long it has lasted, up to a full turn of the clock
  left       \* how far into it each sensor's field became empty

history == <<quiet, quiet_for, sampled, whole, touched, lasted, left>>
hvars == <<vars, history>>

\* The doorway looks empty to every healthy sensor, and enough are healthy.
ShowsEmpty(in) == HasQuorum(in) /\ Quiet(in)

Sooner(a, b) == IF a < b THEN a ELSE b

Remember(in, step) ==
  /\ quiet' = ShowsEmpty(in)
  /\ quiet_for' = IF quiet /\ quiet' THEN Sooner(quiet_for + step, Horizon) ELSE 0
  /\ sampled' = [s \in Sensors |-> IF ~quiet' THEN {}
                                   ELSE in.fresh[s] \cup (IF quiet THEN sampled[s] ELSE {})]
  /\ whole' = IF active THEN whole \cap in.healthy ELSE in.healthy
  /\ touched' = [s \in Sensors |-> (IF active THEN touched[s] ELSE {}) \cup in.states[s]]
  /\ lasted' = IF active THEN Sooner(lasted + step, Modulus) ELSE 0
  /\ left' = [s \in Sensors |-> IF in.states[s] # {} THEN Modulus
                                ELSE Sooner(IF active THEN left[s] ELSE Modulus, lasted')]

Nothing ==
  /\ quiet = FALSE /\ quiet_for = 0
  /\ sampled = NoSamples
  /\ whole = {}
  /\ touched = NoSamples
  /\ lasted = 0 /\ left = [s \in Sensors |-> Modulus]

HInit == Init /\ Nothing

HUpdate(in, step) == Update(in, step) /\ Remember(in, step)
HReset ==
  /\ Reset
  /\ quiet' = FALSE /\ quiet_for' = 0
  /\ sampled' = NoSamples
  /\ whole' = {}
  /\ touched' = NoSamples
  /\ lasted' = 0 /\ left' = [s \in Sensors |-> Modulus]

HNext == (\E in \in Input, step \in Steps : HUpdate(in, step)) \/ HReset

HSpec == HInit /\ [][HNext]_hvars

-----------------------------------------------------------------------------
HTypeOK ==
  /\ TypeOK
  /\ quiet \in BOOLEAN /\ quiet_for \in 0 .. Horizon
  /\ sampled \in [Sensors -> SUBSET Zones]
  /\ whole \subseteq Sensors
  /\ touched \in [Sensors -> SUBSET Zones]
  /\ lasted \in 0 .. Modulus /\ left \in [Sensors -> 0 .. Modulus]

\* The doorway has looked empty for the clear time, and each healthy sensor
\* has sampled both of its zones in that time.
SeenClear ==
  quiet /\ quiet_for >= ClearMs /\ \A s \in previous_healthy : sampled[s] = Zones

Arms == ~armed /\ armed'
Directs == result'.decision \in Decisions \ {"NONE", "REJECTED"}

\* A doorway is armed, and an episode gets a direction, only at a call that
\* completes a clear time seen by every healthy sensor: never while somebody
\* stands there, and never on the samples of an earlier quiet spell.
ClearBeforeAnything ==
  [][ (Arms \/ Directs) => SeenClear' ]_hvars

\* A counted person was seen by Required sensors, each healthy at every call
\* of the episode and each in both of its zones during this same episode;
\* and no sensor voted the other way.
Witness(s) == s \in whole /\ touched[s] = Zones

CountIsEarned ==
  result.decision \in {"IN", "OUT"} =>
    /\ \A s \in result.in \cup result.out : Witness(s)
    /\ Cardinality(result.in \cup result.out) >= Required
    /\ result.in = {} \/ result.out = {}
    /\ result.decision = IF result.in = {} THEN "OUT" ELSE "IN"
    /\ Cardinality(whole) >= Required

\* Sensors that count a person saw the same person leave: their fields became
\* empty at most the agreement time apart, in the time that really passed and
\* not by a difference of clock readings.  Only a field that empties a full turn
\* of the clock, 49 days, into the episode is not judged.
VotersLeaveTogether ==
  result.decision \in {"IN", "OUT"} =>
    \A s, t \in result.in \cup result.out :
      left[s] < Modulus /\ left[t] < Modulus => left[s] - left[t] <= AgreementMs
=============================================================================
