------------------------------- MODULE Fusion -------------------------------
(***************************************************************************)
(* counting_core::Fusion: the vote of the healthy sensors over one episode *)
(* in the doorway.  One step is one call of update(): its alternatives are *)
(* the code's early returns in the order they are taken.                   *)
(*                                                                         *)
(* Fusion's result record keeps what a caller counts by: the decision and  *)
(* the sensors on each side.  duration_ms and uncertain_timing, which are  *)
(* only displayed, are left out.                                           *)
(***************************************************************************)
EXTENDS CountingCore, FiniteSets

CONSTANTS
  Sensors,               \* the four channels of a doorway; one for Roode
  Required,              \* matching tracks a direction needs
  RequiredHealth,        \* healthy sensors needed, if more than Required
  ClearMs,               \* how long the doorway must be seen empty
  MinimumMs,             \* shortest track that may vote
  AgreementMs,           \* largest spread of the voters' finishing times
  Invert,                \* the installation is mirrored
  RequireTimingEvidence, \* only a timed direction votes
  Timed,                 \* the caller passes threshold crossings
  Steps                  \* milliseconds between two calls

\* The arguments of update().
Input == [healthy : SUBSET Sensors, states : [Sensors -> SUBSET Zones],
          fresh : [Sensors -> SUBSET Zones], unsettled : BOOLEAN,
          edges : [Sensors -> Edges]]

ASSUME FusionAssumption ==
  /\ IsFiniteSet(Sensors)
  /\ Required \in Nat \ {0}
  /\ RequiredHealth \in Nat
  /\ {ClearMs, MinimumMs, AgreementMs} \subseteq Time
  /\ {Invert, RequireTimingEvidence, Timed} \subseteq BOOLEAN
  /\ Steps \subseteq Time

VARIABLES
  now,
  paths,              \* one track per sensor
  active, armed,      \* an episode runs; the doorway was confirmed empty
  clear_pending,      \* the clear interval has begun, at clear_since
  started, clear_since,
  previous_healthy,
  clear_samples,      \* zones with a fresh sample in the clear interval
  eligible,           \* sensors that may vote on this episode
  result

fusion == <<paths, active, armed, clear_pending, started, clear_since,
            previous_healthy, clear_samples, eligible, result>>
vars == <<now, fusion>>

Decisions == {"NONE", "IN", "OUT", "UNSURE_IN", "UNSURE_OUT", "REJECTED"}
NoResult == [decision |-> "NONE", in |-> {}, out |-> {}]
Rejected == [NoResult EXCEPT !.decision = "REJECTED"]

NoPaths == [s \in Sensors |-> NoPath]
NoSamples == [s \in Sensors |-> {}]

-----------------------------------------------------------------------------
(* The parts of update() before its first return.                          *)

Quorum == IF Required < RequiredHealth THEN RequiredHealth ELSE Required
HasQuorum(in) == Cardinality(in.healthy) >= Quorum
Occupied(in) == \E s \in in.healthy : in.states[s] # {}
Quiet(in) == ~Occupied(in) /\ ~in.unsettled

\* A sensor that is, or was at the last call, unhealthy loses its track.
Kept(in) == [s \in Sensors |-> IF s \in in.healthy \cap previous_healthy THEN paths[s] ELSE NoPath]

\* Mutant: a sensor may come back into a running episode.
RemainingWithReturns(in) == eligible

\* During an episode a sensor that turns unhealthy is out until the next one.
Remaining(in) == IF active THEN eligible \cap in.healthy ELSE eligible

Observed(tracks, voters, in) ==
  [s \in Sensors |-> IF s \in voters THEN Observe(tracks[s], in.states[s], now', Timed, in.edges[s])
                                     ELSE tracks[s]]

(* The clear interval: since when, and with which fresh samples.           *)
ClearSince == IF clear_pending THEN clear_since ELSE now'
Sampled(in) == [s \in Sensors |-> (IF clear_pending THEN clear_samples[s] ELSE {}) \cup in.fresh[s]]

Confirmed(in) ==
  /\ Elapsed(ClearSince, now') >= ClearMs
  /\ \A s \in in.healthy : Sampled(in)[s] = Zones

\* Mutant: movement does not end the clear interval.
ForgetClearLate == UNCHANGED <<clear_pending, clear_samples, clear_since>>

ForgetClear == clear_pending' = FALSE /\ clear_samples' = NoSamples /\ UNCHANGED clear_since

KeepClear(in) == clear_pending' = TRUE /\ clear_samples' = Sampled(in) /\ clear_since' = ClearSince

-----------------------------------------------------------------------------
(* The verdict over the tracks of the sensors that saw the whole episode.  *)

Vote(p) ==
  IF RequireTimingEvidence THEN Direction(p, MinimumMs) ELSE GeometricDirection(p, MinimumMs)

Voters(tracks, voters) == {s \in voters : Vote(tracks[s]) # {}}

\* OUT ROI first means OUT unless the installation is inverted.
EntrySide == IF Invert THEN {ZONE_OUT} ELSE {ZONE_IN}
InVotes(tracks, voters) == {s \in Voters(tracks, voters) : Vote(tracks[s]) = EntrySide}
OutVotes(tracks, voters) == Voters(tracks, voters) \ InVotes(tracks, voters)

\* Mutant: it does not matter when the voters' fields became empty.
ScatteredNever(tracks, voters) == FALSE

\* Two voters whose doorways emptied too far apart watched different people.
Scattered(tracks, voters) ==
  \E s, t \in Voters(tracks, voters) :
    Elapsed(started, tracks[s].finished) - Elapsed(started, tracks[t].finished) > AgreementMs

Decision(in_votes, out_votes, scattered) ==
  CASE (in_votes # {} /\ out_votes # {}) \/ scattered -> "REJECTED"
    [] OTHER -> CASE Cardinality(in_votes) >= Required -> "IN"
                  [] Cardinality(out_votes) >= Required -> "OUT"
                  [] OTHER -> IF in_votes # {} THEN "UNSURE_IN"
                              ELSE IF out_votes # {} THEN "UNSURE_OUT" ELSE "REJECTED"

Verdict(tracks, voters) ==
  LET in_votes == InVotes(tracks, voters)
      out_votes == OutVotes(tracks, voters)
  IN [decision |-> Decision(in_votes, out_votes, Scattered(tracks, voters)),
      in |-> in_votes, out |-> out_votes]

-----------------------------------------------------------------------------
(* The returns of update(), first to last.                                 *)

\* Losing the quorum disarms the doorway and rejects a running episode.
LoseQuorum(in) ==
  /\ ~HasQuorum(in)
  /\ result' = IF active THEN Rejected ELSE NoResult
  /\ active' = FALSE /\ armed' = FALSE /\ clear_pending' = FALSE
  /\ paths' = NoPaths
  /\ eligible' = Remaining(in)
  /\ UNCHANGED <<started, clear_since, clear_samples>>

\* Somebody stands in a doorway that was never confirmed empty.
IgnoreOccupied(in) ==
  /\ HasQuorum(in) /\ Occupied(in) /\ ~armed
  /\ ForgetClear
  /\ paths' = Kept(in)
  /\ eligible' = Remaining(in)
  /\ result' = NoResult
  /\ UNCHANGED <<active, armed, started>>

\* The first occupied field of an armed doorway opens an episode.
BeginEpisode(in) ==
  /\ HasQuorum(in) /\ Occupied(in) /\ armed /\ ~active
  /\ ForgetClear
  /\ active' = TRUE /\ started' = now'
  /\ eligible' = in.healthy
  /\ paths' = Observed(NoPaths, in.healthy, in)
  /\ result' = NoResult
  /\ UNCHANGED armed

\* The doorway stays occupied, or a change of side awaits its second sample.
Track(in) ==
  /\ HasQuorum(in)
  /\ \/ Occupied(in) /\ armed /\ active
     \/ ~Occupied(in) /\ in.unsettled
  /\ ForgetClear
  /\ eligible' = Remaining(in)
  /\ paths' = IF active THEN Observed(Kept(in), eligible', in) ELSE Kept(in)
  /\ result' = NoResult
  /\ UNCHANGED <<active, armed, started>>

\* Empty, but not for long enough or not seen so by every healthy sensor.
AwaitClear(in) ==
  /\ HasQuorum(in) /\ Quiet(in) /\ ~Confirmed(in)
  /\ KeepClear(in)
  /\ eligible' = Remaining(in)
  /\ paths' = IF active THEN Observed(Kept(in), eligible', in) ELSE Kept(in)
  /\ result' = NoResult
  /\ UNCHANGED <<active, armed, started>>

\* Confirmed empty with no episode to close: the doorway is armed.
Arm(in) ==
  /\ HasQuorum(in) /\ Quiet(in) /\ Confirmed(in) /\ ~active
  /\ KeepClear(in)
  /\ armed' = TRUE
  /\ eligible' = Remaining(in)
  /\ paths' = Kept(in)
  /\ result' = NoResult
  /\ UNCHANGED <<active, started>>

\* Mutant: the verdict is delivered but the episode is left running.
ConcludeLeftOpen(in) ==
  /\ HasQuorum(in) /\ Quiet(in) /\ Confirmed(in) /\ active
  /\ KeepClear(in)
  /\ armed' = TRUE
  /\ eligible' = Remaining(in)
  /\ result' = Verdict(Observed(Kept(in), eligible', in), eligible')
  /\ paths' = NoPaths
  /\ UNCHANGED <<started, active>>

\* Confirmed empty after an episode: the sensors vote and the episode ends.
Conclude(in) ==
  /\ HasQuorum(in) /\ Quiet(in) /\ Confirmed(in) /\ active
  /\ KeepClear(in)
  /\ armed' = TRUE /\ active' = FALSE
  /\ eligible' = Remaining(in)
  /\ result' = Verdict(Observed(Kept(in), eligible', in), eligible')
  /\ paths' = NoPaths
  /\ UNCHANGED started

Update(in, step) ==
  /\ now' = Later(now, step)
  /\ previous_healthy' = in.healthy
  /\ \/ LoseQuorum(in) \/ IgnoreOccupied(in) \/ BeginEpisode(in) \/ Track(in)
     \/ AwaitClear(in) \/ Arm(in) \/ Conclude(in)

Fresh ==
  /\ paths = NoPaths
  /\ active = FALSE /\ armed = FALSE /\ clear_pending = FALSE
  /\ started = 0 /\ clear_since = 0
  /\ previous_healthy = {} /\ eligible = {}
  /\ clear_samples = NoSamples
  /\ result = NoResult

\* reset(), by clear_event_tracking_ when a setting, the calibration, the
\* discovery or the mode changes.
Reset ==
  /\ paths' = NoPaths
  /\ active' = FALSE /\ armed' = FALSE /\ clear_pending' = FALSE
  /\ started' = 0 /\ clear_since' = 0
  /\ previous_healthy' = {} /\ eligible' = {}
  /\ clear_samples' = NoSamples
  /\ result' = NoResult
  /\ UNCHANGED now

Init == now \in Time /\ Fresh

Next == (\E in \in Input, step \in Steps : Update(in, step)) \/ Reset

Spec == Init /\ [][Next]_vars

-----------------------------------------------------------------------------
TypeOK ==
  /\ now \in Time /\ started \in Time /\ clear_since \in Time
  /\ paths \in [Sensors -> Path]
  /\ {active, armed, clear_pending} \subseteq BOOLEAN
  /\ previous_healthy \subseteq Sensors /\ eligible \subseteq Sensors
  /\ clear_samples \in [Sensors -> SUBSET Zones]
  /\ result \in [decision : Decisions, in : SUBSET Sensors, out : SUBSET Sensors]

\* Fusion keeps the promise of the abstract doorway.
Abstract == INSTANCE Episode WITH
  phase   <- IF active THEN "episode" ELSE IF armed THEN "armed" ELSE "unarmed",
  verdict <- result.decision

Implements == Abstract!Spec
=============================================================================
