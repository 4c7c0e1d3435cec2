---------------------------- MODULE FusionProofs ----------------------------
(***************************************************************************)
(* For every number of sensors and every setting: Fusion keeps its types,  *)
(* implements Episode, and the properties of FusionHistory hold;           *)
(* for every length of an episode, a track votes for what its sensor saw.  *)
(* First the facts about the counting core that this rests on.             *)
(***************************************************************************)
EXTENDS MCFusion, TLAPS, FiniteSetTheorems, SequenceTheorems, WellFoundedInduction

-----------------------------------------------------------------------------
(* Counting core: the 32-bit arithmetic on times, and the track of a       *)
(* sensor, for every modulus.                                              *)

\* The clock and the differences of two readings are readings again.
LEMMA TimeIsNat == Modulus \in Nat /\ Modulus # 0 /\ 0 \in Time /\ Time \subseteq Nat
  BY ModulusAssumption DEF Time

LEMMA ElapsedType == ASSUME NEW from \in Time, NEW to \in Time PROVE Elapsed(from, to) \in Time
  BY ModulusAssumption DEF Time, Elapsed

LEMMA LaterType == ASSUME NEW t \in Time, NEW d \in Time PROVE Later(t, d) \in Time
  BY ModulusAssumption DEF Time, Later

\* A step of the clock never ages a time by more than the step, wrap or not.
LEMMA ElapsedGrows ==
  ASSUME NEW t \in Time, NEW at \in Time, NEW d \in Time
  PROVE Elapsed(t, Later(at, d)) <= Elapsed(t, at) + d
  BY ModulusAssumption DEF Time, Elapsed, Later

LEMMA ElapsedFromItself == ASSUME NEW t \in Time PROVE Elapsed(t, t) = 0
  BY ModulusAssumption DEF Time, Elapsed

\* Two crossings are ordered in at most one way, also across the wrap of the
\* clock, as long as both windows and the gap between them fit the sign of a
\* 32-bit difference: crossing_order may answer 0, never both 1 and 2.
THEOREM OrderIsOneWay ==
  ASSUME NEW a \in Crossing, NEW b \in Crossing,
         NEW span, span = Elapsed(a.lower, a.upper) + Elapsed(a.upper, b.lower) + Elapsed(b.lower, b.upper),
         span + span <= Modulus,
         CrossingBefore(a, b)
  PROVE ~CrossingBefore(b, a)
<1>1. {a.lower, a.upper, b.lower, b.upper} \subseteq Time
  BY DEF Crossing
<1>2. \A al, au, bl, bu \in Time :
        LET s == Elapsed(al, au) + Elapsed(au, bl) + Elapsed(bl, bu)
        IN s + s <= Modulus /\ Signed(Elapsed(au, bl)) > 0 => ~(Signed(Elapsed(bu, al)) > 0)
  BY ModulusAssumption DEF Time, Elapsed, Signed
<1> QED
  BY <1>1, <1>2 DEF CrossingBefore

LEMMA NoPathType == NoPath \in Path
  BY TimeIsNat DEF NoPath, Path, NoEdges, NoCrossing, Edges, Crossing, Zones

\* observe turns a track into a track.
LEMMA ObserveType ==
  ASSUME NEW p \in Path, NEW state \in SUBSET Zones, NEW at \in Time,
         NEW timed \in BOOLEAN, NEW edges \in Edges
  PROVE Observe(p, state, at, timed, edges) \in Path
<1>1. \A kept \in Edges, changed \in SUBSET Zones : Recorded(kept, changed, edges) \in Edges
  BY DEF Recorded, Edges
<1>2. CASE state = p.previous
  BY <1>2 DEF Observe
<1>3. CASE state # p.previous
  <2> DEFINE opening == state # {} /\ ~p.visited
             closing == state = {} /\ p.visited
             single  == state \notin {{}, Zones}
             tm == p.timed \/ timed
             ri == IF timed THEN Recorded(p.rises, state \ p.previous, edges) ELSE p.rises
             fa == IF timed THEN Recorded(p.falls, p.previous \ state, edges) ELSE p.falls
             cl == p.cleared \/ closing
             fi == IF closing THEN at ELSE p.finished
             am == p.ambiguous \/ (state # {} /\ p.cleared) \/ (opening /\ ~single)
             vi == p.visited \/ opening
             st == IF opening THEN at ELSE p.started
             fs == IF opening /\ single THEN state ELSE p.first
             se == p.seen \cup state
             la == IF single THEN state ELSE p.last
  <2>1. ri \in Edges /\ fa \in Edges
    BY <1>1 DEF Path
  <2>2. tm \in BOOLEAN /\ cl \in BOOLEAN /\ am \in BOOLEAN /\ vi \in BOOLEAN
    OBVIOUS
  <2>3. fi \in Time /\ st \in Time
    BY DEF Path
  <2>4. fs \in SUBSET Zones /\ se \in SUBSET Zones /\ la \in SUBSET Zones
    BY DEF Path
  <2>5. Observe(p, state, at, timed, edges) =
          [p EXCEPT !.previous = state, !.timed = tm, !.rises = ri, !.falls = fa, !.cleared = cl,
                    !.finished = fi, !.ambiguous = am, !.visited = vi, !.started = st,
                    !.first = fs, !.seen = se, !.last = la]
    BY <1>3 DEF Observe
  <2> HIDE DEF tm, ri, fa, cl, fi, am, vi, st, fs, se, la
  <2>6. PICK q \in Path : q = [p EXCEPT !.previous = state, !.timed = tm, !.rises = ri, !.falls = fa,
                                        !.cleared = cl, !.finished = fi]
    BY <2>1, <2>2, <2>3 DEF Path
  <2>7. [q EXCEPT !.ambiguous = am, !.visited = vi, !.started = st,
                  !.first = fs, !.seen = se, !.last = la] \in Path
    BY <2>2, <2>3, <2>4 DEF Path
  <2>8. Observe(p, state, at, timed, edges) =
          [q EXCEPT !.ambiguous = am, !.visited = vi, !.started = st,
                    !.first = fs, !.seen = se, !.last = la]
    BY <2>5, <2>6
  <2> QED
    BY <2>7, <2>8
<1> QED
  BY <1>2, <1>3

\* A track remembers the zones it saw, and adds at most those it sees now.
LEMMA ObserveSees ==
  ASSUME NEW p \in Path, NEW state \in SUBSET Zones, NEW at, NEW timed, NEW edges
  PROVE Observe(p, state, at, timed, edges).seen \subseteq p.seen \cup state
  BY DEF Observe, Path

\* Only a track through both zones votes, and the vote is the zone it began in.
LEMMA VoteNeedsBothZones ==
  ASSUME NEW p \in Path, NEW minimum_ms
  PROVE /\ GeometricDirection(p, minimum_ms) # {} => p.seen = Zones
        /\ Direction(p, minimum_ms) # {} => p.seen = Zones
        /\ GeometricDirection(p, minimum_ms) \in {{}, p.first}
        /\ Direction(p, minimum_ms) \in {{}, GeometricDirection(p, minimum_ms)}
  BY DEF GeometricDirection, Direction

-----------------------------------------------------------------------------
(* Fusion.                                                                 *)

\* What every alternative of update() may assume of its arguments.
Called(in, step) == in \in Input /\ step \in Steps

LEMMA Settings ==
  /\ ClearMs \in Time /\ MinimumMs \in Time /\ AgreementMs \in Time
  /\ Timed \in BOOLEAN /\ Steps \subseteq Time
  /\ Required \in Nat \ {0} /\ RequiredHealth \in Nat
  /\ IsFiniteSet(Sensors)
  BY FusionAssumption

-----------------------------------------------------------------------------
(* Types.                                                                  *)

LEMMA NoPathsType == NoPaths \in [Sensors -> Path]
  BY NoPathType DEF NoPaths

LEMMA NoSamplesType == NoSamples \in [Sensors -> SUBSET Zones]
  BY DEF NoSamples

LEMMA KeptType ==
  ASSUME paths \in [Sensors -> Path], NEW in
  PROVE Kept(in) \in [Sensors -> Path]
  BY NoPathType DEF Kept

LEMMA ObservedType ==
  ASSUME NEW tracks \in [Sensors -> Path], NEW voters, NEW in \in Input, now' \in Time
  PROVE Observed(tracks, voters, in) \in [Sensors -> Path]
<1>1. ASSUME NEW s \in Sensors
      PROVE Observe(tracks[s], in.states[s], now', Timed, in.edges[s]) \in Path
  <2>1. tracks[s] \in Path /\ in.states[s] \in SUBSET Zones /\ in.edges[s] \in Edges
    BY DEF Input
  <2> QED
    BY <2>1, Settings, ObserveType
<1> QED
  BY <1>1 DEF Observed

LEMMA RemainingType ==
  ASSUME eligible \subseteq Sensors, NEW in
  PROVE Remaining(in) \subseteq eligible /\ Remaining(in) \subseteq Sensors
  BY DEF Remaining

LEMMA SampledType ==
  ASSUME clear_samples \in [Sensors -> SUBSET Zones], NEW in \in Input
  PROVE Sampled(in) \in [Sensors -> SUBSET Zones]
  BY DEF Sampled, Input

\* The verdict names a decision and, on each side, voters only.
LEMMA VerdictType ==
  ASSUME NEW tracks, NEW voters \in SUBSET Sensors
  PROVE /\ Verdict(tracks, voters).decision \in Decisions \ {"NONE"}
        /\ Verdict(tracks, voters) \in
             [decision : Decisions, in : SUBSET Sensors, out : SUBSET Sensors]
        /\ Verdict(tracks, voters).in = InVotes(tracks, voters)
        /\ Verdict(tracks, voters).out = OutVotes(tracks, voters)
        /\ Verdict(tracks, voters).decision =
             Decision(InVotes(tracks, voters), OutVotes(tracks, voters), Scattered(tracks, voters))
<1>1. \A i, o, sc : Decision(i, o, sc) \in Decisions \ {"NONE"}
  BY DEF Decision, Decisions
<1>2. InVotes(tracks, voters) \in SUBSET Sensors /\ OutVotes(tracks, voters) \in SUBSET Sensors
  BY DEF InVotes, OutVotes, Voters
<1> QED
  BY <1>1, <1>2 DEF Verdict

LEMMA NoResultType ==
  /\ {NoResult, Rejected} \subseteq [decision : Decisions, in : SUBSET Sensors, out : SUBSET Sensors]
  /\ NoResult.decision = "NONE" /\ Rejected.decision = "REJECTED"
  BY DEF NoResult, Rejected, Decisions

LEMMA InitType == Init => TypeOK
<1> SUFFICES ASSUME Init PROVE TypeOK
  OBVIOUS
<1> QED
  BY NoPathsType, NoSamplesType, NoResultType, TimeIsNat DEF Init, Fresh, TypeOK

LEMMA ResetType == ASSUME TypeOK, Reset PROVE TypeOK'
  BY NoPathsType, NoSamplesType, NoResultType, TimeIsNat DEF Reset, TypeOK

LEMMA UpdateType ==
  ASSUME TypeOK, NEW in \in Input, NEW step \in Steps, Update(in, step)
  PROVE TypeOK'
<1>1. now' \in Time /\ previous_healthy' \subseteq Sensors
  BY Settings, LaterType DEF Update, TypeOK, Input
<1>2. /\ Kept(in) \in [Sensors -> Path]
      /\ Remaining(in) \subseteq Sensors
      /\ Sampled(in) \in [Sensors -> SUBSET Zones]
      /\ ClearSince \in Time
  BY <1>1, KeptType, RemainingType, SampledType DEF TypeOK, ClearSince
<1>3. \A tracks \in [Sensors -> Path], voters \in SUBSET Sensors : Observed(tracks, voters, in) \in [Sensors -> Path]
  BY <1>1, ObservedType
<1>4. ForgetClear \/ KeepClear(in) =>
        clear_pending' \in BOOLEAN /\ clear_since' \in Time /\ clear_samples' \in [Sensors -> SUBSET Zones]
  BY <1>2, NoSamplesType DEF ForgetClear, KeepClear, TypeOK
<1>5. CASE LoseQuorum(in)
  BY <1>1, <1>2, <1>5, NoPathsType, NoResultType DEF LoseQuorum, TypeOK
<1>6. CASE IgnoreOccupied(in)
  BY <1>1, <1>2, <1>4, <1>6, NoResultType DEF IgnoreOccupied, TypeOK
<1>7. CASE BeginEpisode(in)
  <2>1. paths' \in [Sensors -> Path]
    BY <1>3, <1>7, NoPathsType DEF BeginEpisode, Input
  <2>2. eligible' \subseteq Sensors
    BY <1>7 DEF BeginEpisode, Input
  <2> QED
    BY <1>1, <1>4, <1>7, <2>1, <2>2, NoResultType DEF BeginEpisode, TypeOK
<1>8. CASE Track(in)
  <2>1. paths' \in [Sensors -> Path]
    BY <1>2, <1>3, <1>8 DEF Track
  <2> QED
    BY <1>1, <1>2, <1>4, <1>8, <2>1, NoResultType DEF Track, TypeOK
<1>9. CASE AwaitClear(in)
  <2>1. paths' \in [Sensors -> Path]
    BY <1>2, <1>3, <1>9 DEF AwaitClear
  <2> QED
    BY <1>1, <1>2, <1>4, <1>9, <2>1, NoResultType DEF AwaitClear, TypeOK
<1>10. CASE Arm(in)
  BY <1>1, <1>2, <1>4, <1>10, NoResultType DEF Arm, TypeOK
<1>11. CASE Conclude(in)
  <2>1. result' \in [decision : Decisions, in : SUBSET Sensors, out : SUBSET Sensors]
    BY <1>2, <1>11, VerdictType DEF Conclude
  <2> QED
    BY <1>1, <1>2, <1>4, <1>11, <2>1, NoPathsType DEF Conclude, TypeOK
<1> QED
  BY <1>5, <1>6, <1>7, <1>8, <1>9, <1>10, <1>11 DEF Update

\* update() and reset() keep every variable of Fusion in its type, at any number
\* of sensors and across the wrap of the clock.
THEOREM TypesHold == Spec => []TypeOK
<1>1. Init => TypeOK
  BY InitType
<1>2. TypeOK /\ [Next]_vars => TypeOK'
  <2> SUFFICES ASSUME TypeOK, [Next]_vars PROVE TypeOK'
    OBVIOUS
  <2>1. CASE \E in \in Input, step \in Steps : Update(in, step)
    BY <2>1, UpdateType
  <2>2. CASE Reset
    BY <2>2, ResetType
  <2>3. CASE UNCHANGED vars
    BY <2>3 DEF vars, fusion, TypeOK
  <2> QED
    BY <2>1, <2>2, <2>3 DEF Next
<1> QED
  BY <1>1, <1>2, PTL DEF Spec

-----------------------------------------------------------------------------
(* Fusion implements Episode.                                              *)

\* An episode only ever runs in a doorway that has been armed.
ArmedWhileActive == active => armed

LEMMA InitImplements == Init => ArmedWhileActive /\ Abstract!Init
  BY NoResultType DEF Init, Fresh, ArmedWhileActive, Abstract!Init

LEMMA UpdateImplements ==
  ASSUME TypeOK, ArmedWhileActive, NEW in \in Input, NEW step \in Steps, Update(in, step)
  PROVE ArmedWhileActive' /\ Abstract!Next
<1> USE NoResultType DEF TypeOK, ArmedWhileActive
<1>1. CASE LoseQuorum(in)
  <2>1. Abstract!Disarm
    BY <1>1 DEF LoseQuorum, Abstract!Disarm
  <2> QED
    BY <1>1, <2>1 DEF LoseQuorum, Abstract!Next
<1>2. CASE IgnoreOccupied(in)
  <2>1. Abstract!Wait
    BY <1>2 DEF IgnoreOccupied, Abstract!Wait
  <2> QED
    BY <1>2, <2>1 DEF IgnoreOccupied, Abstract!Next
<1>3. CASE BeginEpisode(in)
  <2>1. Abstract!Enter
    BY <1>3 DEF BeginEpisode, Abstract!Enter
  <2> QED
    BY <1>3, <2>1 DEF BeginEpisode, Abstract!Next
<1>4. CASE Track(in)
  <2>1. Abstract!Wait
    BY <1>4 DEF Track, Abstract!Wait
  <2> QED
    BY <1>4, <2>1 DEF Track, Abstract!Next
<1>5. CASE AwaitClear(in)
  <2>1. Abstract!Wait
    BY <1>5 DEF AwaitClear, Abstract!Wait
  <2> QED
    BY <1>5, <2>1 DEF AwaitClear, Abstract!Next
<1>6. CASE Arm(in)
  <2>1. Abstract!Arm
    BY <1>6 DEF Arm, Abstract!Arm
  <2> QED
    BY <1>6, <2>1 DEF Arm, Abstract!Next
<1>7. CASE Conclude(in)
  <2>1. result'.decision \in Decisions \ {"NONE"}
    BY <1>7, RemainingType, VerdictType DEF Conclude
  <2>2. Abstract!Conclude
    BY <1>7, <2>1
    DEF Conclude, Decisions, Abstract!Conclude, Abstract!Verdicts, Abstract!Directions
  <2> QED
    BY <1>7, <2>2 DEF Conclude, Abstract!Next
<1> QED
  BY <1>1, <1>2, <1>3, <1>4, <1>5, <1>6, <1>7 DEF Update

LEMMA NextImplements ==
  ASSUME TypeOK, ArmedWhileActive, [Next]_vars
  PROVE ArmedWhileActive' /\ [Abstract!Next]_(Abstract!vars)
<1>1. CASE \E in \in Input, step \in Steps : Update(in, step)
  BY <1>1, UpdateImplements
<1>2. CASE Reset
  BY <1>2, NoResultType DEF Reset, ArmedWhileActive, Abstract!Next, Abstract!Forget
<1>3. CASE UNCHANGED vars
  BY <1>3 DEF vars, fusion, ArmedWhileActive, Abstract!vars
<1> QED
  BY <1>1, <1>2, <1>3 DEF Next

\* Whatever the sensors bring, the doorway goes through whole episodes: each one
\* opened in an armed doorway and closed by exactly one verdict.
THEOREM FusionImplementsEpisode == Spec => Implements
<1>1. Init => ArmedWhileActive /\ Abstract!Init
  BY InitImplements
<1>2. TypeOK /\ ArmedWhileActive /\ [Next]_vars => ArmedWhileActive' /\ [Abstract!Next]_(Abstract!vars)
  BY NextImplements
<1> QED
  BY <1>1, <1>2, TypesHold, PTL DEF Spec, Implements, Abstract!Spec

-----------------------------------------------------------------------------
(* A count is earned.                                                      *)

LEMMA HistoryRefines == HSpec => Spec
<1>1. HInit => Init
  BY DEF HInit
<1>2. [HNext]_hvars => [Next]_vars
  BY DEF HNext, HUpdate, HReset, Next, hvars
<1> QED
  BY <1>1, <1>2, PTL DEF HSpec, Spec

HistoryTypes ==
  /\ whole \subseteq Sensors
  /\ touched \in [Sensors -> SUBSET Zones]

\* While an episode runs, a sensor that may still vote was healthy all through it
\* and its track shows no zone the sensor did not see occupied in it.
TracksAreOfThisEpisode ==
  active => \A s \in eligible : s \in whole /\ paths[s].seen \subseteq touched[s]

\* What a verdict needs to earn a count.
LEMMA VotersWitness ==
  ASSUME NEW tracks \in [Sensors -> Path], NEW voters \in SUBSET Sensors,
         NEW s \in InVotes(tracks, voters) \cup OutVotes(tracks, voters)
  PROVE s \in voters /\ tracks[s].seen = Zones
<1>1. s \in voters /\ Vote(tracks[s]) # {} /\ tracks[s] \in Path
  BY DEF InVotes, OutVotes, Voters
<1> QED
  BY <1>1, VoteNeedsBothZones DEF Vote

LEMMA DecisionCounts ==
  ASSUME NEW i \in SUBSET Sensors, NEW o \in SUBSET Sensors, NEW scattered \in BOOLEAN,
         Decision(i, o, scattered) \in {"IN", "OUT"}
  PROVE /\ i = {} \/ o = {}
        /\ Cardinality(i \cup o) >= Required
        /\ Decision(i, o, scattered) = IF i = {} THEN "OUT" ELSE "IN"
<1>1. IsFiniteSet(i) /\ IsFiniteSet(o) /\ Cardinality({}) = 0 /\ Required \in Nat \ {0}
  BY Settings, FS_Subset, FS_EmptySet
<1>2. Cardinality(i) \in Nat /\ Cardinality(o) \in Nat
  BY <1>1, FS_CardinalityType
<1>3. i = {} \/ o = {}
  BY DEF Decision
<1>4. CASE Cardinality(i) >= Required
  <2>1. i # {} /\ o = {} /\ i \cup o = i
    BY <1>1, <1>3, <1>4
  <2> QED
    BY <1>1, <1>2, <1>4, <2>1 DEF Decision
<1>5. CASE ~(Cardinality(i) >= Required)
  <2>1. Cardinality(o) >= Required /\ Decision(i, o, scattered) = "OUT"
    BY <1>5 DEF Decision
  <2>2. o # {} /\ i = {} /\ i \cup o = o
    BY <1>1, <1>3, <2>1
  <2> QED
    BY <2>1, <2>2
<1> QED
  BY <1>4, <1>5

LEMMA VerdictEarned ==
  ASSUME HistoryTypes', result'.decision \in {"IN", "OUT"},
         NEW tracks \in [Sensors -> Path], NEW voters \in SUBSET Sensors,
         result' = Verdict(tracks, voters),
         \A s \in voters : s \in whole' /\ tracks[s].seen \subseteq touched'[s]
  PROVE CountIsEarned'
<1> DEFINE i == InVotes(tracks, voters)
           o == OutVotes(tracks, voters)
<1>0. Scattered(tracks, voters) \in BOOLEAN
  BY DEF Scattered
<1>1. /\ result'.in = i /\ result'.out = o
      /\ result'.decision = Decision(i, o, Scattered(tracks, voters))
      /\ i \in SUBSET Sensors /\ o \in SUBSET Sensors
  BY VerdictType
<1>2. ASSUME NEW s \in i \cup o PROVE s \in whole' /\ touched'[s] = Zones
  <2>1. s \in voters /\ tracks[s].seen = Zones /\ s \in Sensors
    BY VotersWitness
  <2> QED
    BY <2>1 DEF HistoryTypes
<1> HIDE DEF i, o
<1>3. /\ i = {} \/ o = {}
      /\ Cardinality(i \cup o) >= Required
      /\ result'.decision = IF i = {} THEN "OUT" ELSE "IN"
  <2>1. Decision(i, o, Scattered(tracks, voters)) \in {"IN", "OUT"}
    BY <1>1
  <2> QED
    BY <1>0, <1>1, <2>1, DecisionCounts
<1>4. Cardinality(whole') >= Required
  <2>1. i \cup o \subseteq whole' /\ IsFiniteSet(whole')
    BY <1>2, Settings, FS_Subset DEF HistoryTypes
  <2>2. Cardinality(i \cup o) <= Cardinality(whole') /\ Cardinality(whole') \in Nat
        /\ Cardinality(i \cup o) \in Nat
    BY <2>1, FS_Subset, FS_CardinalityType
  <2> QED
    BY <1>3, <2>2, Settings
<1> QED
  BY <1>1, <1>2, <1>3, <1>4 DEF CountIsEarned, Witness

\* What the observer remembers after a call of an active episode covers the
\* tracks of the sensors that are still eligible.
LEMMA StillOfThisEpisode ==
  ASSUME TypeOK, HistoryTypes, TracksAreOfThisEpisode, active,
         NEW in \in Input, NEW step, Remember(in, step), now' \in Time
  PROVE \A s \in Remaining(in) :
          /\ s \in whole'
          /\ Kept(in)[s].seen \subseteq touched'[s]
          /\ Observed(Kept(in), Remaining(in), in)[s].seen \subseteq touched'[s]
<1> SUFFICES ASSUME NEW s \in Remaining(in)
             PROVE /\ s \in whole'
                   /\ Kept(in)[s].seen \subseteq touched'[s]
                   /\ Observed(Kept(in), Remaining(in), in)[s].seen \subseteq touched'[s]
  OBVIOUS
<1>1. s \in eligible /\ s \in in.healthy /\ s \in Sensors
  BY DEF Remaining, TypeOK
<1>2. s \in whole'
  BY <1>1 DEF Remember, TracksAreOfThisEpisode
<1>3. touched'[s] = touched[s] \cup in.states[s] /\ in.states[s] \in SUBSET Zones
  BY <1>1 DEF Remember, Input
<1>4. Kept(in)[s] \in Path /\ Kept(in)[s].seen \subseteq touched[s]
  BY <1>1, KeptType DEF TypeOK, Kept, TracksAreOfThisEpisode, NoPath
<1>5. Observed(Kept(in), Remaining(in), in)[s]
        = Observe(Kept(in)[s], in.states[s], now', Timed, in.edges[s])
  BY <1>1 DEF Observed
<1>6. Observe(Kept(in)[s], in.states[s], now', Timed, in.edges[s]).seen
        \subseteq Kept(in)[s].seen \cup in.states[s]
  BY <1>3, <1>4, ObserveSees
<1> QED
  BY <1>2, <1>3, <1>4, <1>5, <1>6

LEMMA RememberTypes ==
  ASSUME TypeOK, HistoryTypes, NEW in \in Input, NEW step, Remember(in, step)
  PROVE HistoryTypes'
  BY DEF HistoryTypes, Remember, Input

\* A call that reports no direction earns nothing and owes nothing.
LEMMA NothingCounted ==
  ASSUME result' \in {NoResult, Rejected} PROVE CountIsEarned'
  BY NoResultType DEF CountIsEarned

CountInv == TypeOK /\ HistoryTypes /\ TracksAreOfThisEpisode /\ CountIsEarned

LEMMA UpdateEarns ==
  ASSUME CountInv, NEW in \in Input, NEW step \in Steps, HUpdate(in, step)
  PROVE CountInv'
<1>1. TypeOK /\ HistoryTypes /\ TracksAreOfThisEpisode /\ Update(in, step) /\ Remember(in, step)
  BY DEF CountInv, HUpdate
<1>2. TypeOK' /\ HistoryTypes' /\ now' \in Time
  <2>1. TypeOK' /\ HistoryTypes'
    BY <1>1, UpdateType, RememberTypes
  <2> QED
    BY <2>1 DEF TypeOK
<1>3. active => \A s \in Remaining(in) :
        /\ s \in whole'
        /\ Kept(in)[s].seen \subseteq touched'[s]
        /\ Observed(Kept(in), Remaining(in), in)[s].seen \subseteq touched'[s]
  BY <1>1, <1>2, StillOfThisEpisode
<1>4. CASE LoseQuorum(in)
  BY <1>2, <1>4, NothingCounted DEF LoseQuorum, TracksAreOfThisEpisode, CountInv
<1>5. CASE IgnoreOccupied(in)
  BY <1>2, <1>3, <1>5, NothingCounted DEF IgnoreOccupied, TracksAreOfThisEpisode, CountInv
<1>6. CASE BeginEpisode(in)
  <2>1. ASSUME NEW s \in eligible' PROVE s \in whole' /\ paths'[s].seen \subseteq touched'[s]
    <3>1. s \in in.healthy /\ s \in Sensors /\ s \in whole' /\ in.states[s] \in SUBSET Zones
      BY <1>1, <1>6 DEF BeginEpisode, Remember, Input
    <3>2. paths'[s] = Observe(NoPath, in.states[s], now', Timed, in.edges[s])
      BY <1>6, <3>1 DEF BeginEpisode, Observed, NoPaths
    <3>3. paths'[s].seen \subseteq in.states[s]
      BY <3>1, <3>2, NoPathType, ObserveSees DEF NoPath
    <3> QED
      BY <1>1, <1>6, <3>1, <3>3 DEF BeginEpisode, Remember
  <2> QED
    BY <1>2, <1>6, <2>1, NothingCounted DEF BeginEpisode, TracksAreOfThisEpisode, CountInv
<1>7. CASE Track(in)
  BY <1>2, <1>3, <1>7, NothingCounted DEF Track, TracksAreOfThisEpisode, CountInv
<1>8. CASE AwaitClear(in)
  BY <1>2, <1>3, <1>8, NothingCounted DEF AwaitClear, TracksAreOfThisEpisode, CountInv
<1>9. CASE Arm(in)
  BY <1>2, <1>9, NothingCounted DEF Arm, TracksAreOfThisEpisode, CountInv
<1>10. CASE Conclude(in)
  <2> DEFINE voters == Remaining(in)
             tracks == Observed(Kept(in), voters, in)
  <2>1. tracks \in [Sensors -> Path] /\ voters \in SUBSET Sensors
    BY <1>1, <1>2, KeptType, ObservedType, RemainingType DEF TypeOK
  <2>2. result' = Verdict(tracks, voters) /\ ~active'
    BY <1>10 DEF Conclude
  <2>3. \A s \in voters : s \in whole' /\ tracks[s].seen \subseteq touched'[s]
    BY <1>3, <1>10 DEF Conclude
  <2> HIDE DEF voters, tracks
  <2>4. CountIsEarned'
    <3>1. CASE result'.decision \in {"IN", "OUT"}
      BY <1>2, <2>1, <2>2, <2>3, <3>1, VerdictEarned
    <3>2. CASE result'.decision \notin {"IN", "OUT"}
      BY <3>2 DEF CountIsEarned
    <3> QED
      BY <3>1, <3>2
  <2> QED
    BY <1>2, <2>2, <2>4 DEF TracksAreOfThisEpisode, CountInv
<1> QED
  BY <1>1, <1>4, <1>5, <1>6, <1>7, <1>8, <1>9, <1>10 DEF Update

\* For every number of sensors, every pattern of failing and returning sensors
\* and every timing: a counted person was seen, in this very episode and in both
\* zones, by Required sensors that never failed during it.
THEOREM CountsAreEarned == HSpec => []CountIsEarned
<1>1. HInit => CountInv
  <2> SUFFICES ASSUME HInit PROVE CountInv
    OBVIOUS
  <2>1. TypeOK
    BY InitType DEF HInit
  <2> QED
    BY <2>1, NoResultType, NoSamplesType
    DEF HInit, Init, Fresh, Nothing, CountInv, HistoryTypes, TracksAreOfThisEpisode, CountIsEarned
<1>2. CountInv /\ [HNext]_hvars => CountInv'
  <2> SUFFICES ASSUME CountInv, [HNext]_hvars PROVE CountInv'
    OBVIOUS
  <2>1. CASE \E in \in Input, step \in Steps : HUpdate(in, step)
    BY <2>1, UpdateEarns
  <2>2. CASE HReset
    <3>1. TypeOK' /\ HistoryTypes'
      BY <2>2, ResetType, NoSamplesType DEF HReset, CountInv, HistoryTypes
    <3> QED
      BY <2>2, <3>1, NothingCounted DEF HReset, Reset, CountInv, TracksAreOfThisEpisode
  <2>3. CASE UNCHANGED hvars
    BY <2>3 DEF hvars, history, vars, fusion, CountInv, TypeOK, HistoryTypes,
                TracksAreOfThisEpisode, CountIsEarned, Witness
  <2> QED
    BY <2>1, <2>2, <2>3 DEF HNext
<1>3. CountInv => CountIsEarned
  BY DEF CountInv
<1> QED
  BY <1>1, <1>2, <1>3, PTL DEF HSpec

-----------------------------------------------------------------------------
(* Nothing is armed or given a direction before the doorway is seen clear. *)

\* The interval Fusion keeps is never longer than the one the observer saw, on a
\* clock that never wraps, and holds no samples of an earlier one.
IntervalIsReal ==
  /\ clear_pending = quiet
  /\ clear_pending =>
       /\ Sooner(Elapsed(clear_since, now), Horizon) <= quiet_for
       /\ \A s \in Sensors : clear_samples[s] \subseteq sampled[s]

ClearInv == HTypeOK /\ IntervalIsReal

LEMMA HInitType == HInit => HTypeOK
<1>1. HInit => TypeOK
  BY InitType DEF HInit
<1>2. 0 \in 0 .. Horizon /\ 0 \in 0 .. Modulus /\ Modulus \in 0 .. Modulus
  BY HorizonAssumption, TimeIsNat
<1> QED
  BY <1>1, <1>2, NoSamplesType DEF HInit, Nothing, HTypeOK

LEMMA HUpdateType ==
  ASSUME HTypeOK, NEW in \in Input, NEW step \in Steps, HUpdate(in, step)
  PROVE HTypeOK'
<1>1. TypeOK'
  BY UpdateType DEF HUpdate, HTypeOK
<1>2. quiet' \in BOOLEAN /\ quiet_for' \in 0 .. Horizon
  <2>1. step \in Nat
    BY Settings, TimeIsNat
  <2> QED
    BY <2>1, HorizonAssumption DEF HUpdate, Remember, HTypeOK, ShowsEmpty, HasQuorum, Quiet, Occupied, Sooner
<1>3. sampled' \in [Sensors -> SUBSET Zones]
  BY DEF HUpdate, Remember, HTypeOK, Input
<1>4. whole' \subseteq Sensors /\ touched' \in [Sensors -> SUBSET Zones]
  BY RememberTypes DEF HUpdate, HTypeOK, HistoryTypes
<1>5. lasted' \in 0 .. Modulus /\ left' \in [Sensors -> 0 .. Modulus]
  <2>1. step \in Nat /\ Modulus \in Nat
    BY Settings, TimeIsNat
  <2>2. lasted' \in 0 .. Modulus
    BY <2>1 DEF HUpdate, Remember, HTypeOK, Sooner
  <2>3. ASSUME NEW s \in Sensors
        PROVE Sooner(IF active THEN left[s] ELSE Modulus, lasted') \in 0 .. Modulus
    BY <2>1, <2>2 DEF HTypeOK, Sooner
  <2> QED
    BY <2>1, <2>2, <2>3 DEF HUpdate, Remember
<1> QED
  BY <1>1, <1>2, <1>3, <1>4, <1>5 DEF HTypeOK

LEMMA HResetType == ASSUME HTypeOK, HReset PROVE HTypeOK'
<1>1. TypeOK'
  BY ResetType DEF HReset, HTypeOK
<1>2. 0 \in 0 .. Horizon /\ 0 \in 0 .. Modulus /\ Modulus \in 0 .. Modulus
  BY HorizonAssumption, TimeIsNat
<1> QED
  BY <1>1, <1>2, NoSamplesType DEF HReset, HTypeOK

\* What the clear interval becomes in a call that keeps it.
LEMMA KeptInterval ==
  ASSUME ClearInv, NEW in \in Input, NEW step \in Steps, Remember(in, step),
         now' = Later(now, step), ShowsEmpty(in), KeepClear(in)
  PROVE IntervalIsReal'
<1>1. now \in Time /\ clear_since \in Time /\ step \in Time /\ now' \in Time /\ quiet'
  BY Settings, LaterType DEF ClearInv, HTypeOK, TypeOK, Remember
<1>2. CASE clear_pending
  <2>1. Elapsed(clear_since, now') <= Elapsed(clear_since, now) + step
    BY <1>1, ElapsedGrows
  <2>2. {Elapsed(clear_since, now), Elapsed(clear_since, now'), step, quiet_for} \subseteq Nat
    <3>1. quiet_for \in Nat
      BY HorizonAssumption DEF ClearInv, HTypeOK
    <3>2. Elapsed(clear_since, now) \in Time /\ Elapsed(clear_since, now') \in Time
      BY <1>1, ElapsedType
    <3> QED
      BY <1>1, <3>1, <3>2, TimeIsNat
  <2>3. quiet_for' = Sooner(quiet_for + step, Horizon) /\ clear_since' = clear_since
    BY <1>1, <1>2 DEF KeepClear, ClearSince, Remember, ClearInv, IntervalIsReal
  <2>4. Sooner(Elapsed(clear_since, now'), Horizon) <= Sooner(quiet_for + step, Horizon)
    BY <1>2, <2>1, <2>2, HorizonAssumption DEF Sooner, ClearInv, IntervalIsReal
  <2>5. \A s \in Sensors : clear_samples'[s] \subseteq sampled'[s]
    BY <1>1, <1>2 DEF KeepClear, Sampled, Remember, ClearInv, IntervalIsReal
  <2> QED
    BY <1>1, <2>3, <2>4, <2>5 DEF IntervalIsReal, KeepClear
<1>3. CASE ~clear_pending
  <2>1. clear_since' = now' /\ quiet_for' = 0 /\ Elapsed(clear_since', now') = 0
    BY <1>1, <1>3, ElapsedFromItself DEF KeepClear, ClearSince, Remember, ClearInv, IntervalIsReal
  <2>2. \A s \in Sensors : clear_samples'[s] \subseteq sampled'[s]
    BY <1>1, <1>3 DEF KeepClear, Sampled, Remember, ClearInv, IntervalIsReal
  <2> QED
    BY <1>1, <2>1, <2>2, HorizonAssumption DEF IntervalIsReal, KeepClear, Sooner
<1> QED
  BY <1>2, <1>3

LEMMA UpdateInterval ==
  ASSUME ClearInv, NEW in \in Input, NEW step \in Steps, HUpdate(in, step)
  PROVE IntervalIsReal'
<1>1. Remember(in, step) /\ now' = Later(now, step)
  BY DEF HUpdate, Update
<1>2. CASE LoseQuorum(in)
  BY <1>1, <1>2 DEF LoseQuorum, Remember, ShowsEmpty, IntervalIsReal
<1>3. CASE IgnoreOccupied(in) \/ BeginEpisode(in) \/ Track(in)
  BY <1>1, <1>3
  DEF IgnoreOccupied, BeginEpisode, Track, ForgetClear, Quiet, Remember, ShowsEmpty, IntervalIsReal
<1>4. CASE AwaitClear(in) \/ Arm(in) \/ Conclude(in)
  BY <1>1, <1>4, KeptInterval DEF AwaitClear, Arm, Conclude, ShowsEmpty
<1> QED
  BY <1>2, <1>3, <1>4 DEF HUpdate, Update

\* Arm and Conclude require Confirmed, which the observer confirms.
LEMMA ConfirmedIsSeen ==
  ASSUME HTypeOK', IntervalIsReal', NEW in \in Input, NEW step,
         Remember(in, step), previous_healthy' = in.healthy,
         KeepClear(in), Confirmed(in)
  PROVE SeenClear'
<1>1. clear_pending' /\ quiet' /\ clear_since' = ClearSince /\ clear_samples' = Sampled(in)
  BY DEF KeepClear, IntervalIsReal
<1>2. Elapsed(clear_since', now') \in Nat /\ ClearMs \in Nat
  BY Settings, ElapsedType, TimeIsNat DEF HTypeOK, TypeOK
<1>3. quiet_for' >= ClearMs
  BY <1>1, <1>2, HorizonAssumption DEF Confirmed, Sooner, IntervalIsReal, HTypeOK
<1>4. \A s \in previous_healthy' : sampled'[s] = Zones
  <2> SUFFICES ASSUME NEW s \in in.healthy PROVE sampled'[s] = Zones
    OBVIOUS
  <2>1. s \in Sensors /\ clear_samples'[s] = Zones
    BY <1>1 DEF Confirmed, Input
  <2> QED
    BY <1>1, <2>1 DEF IntervalIsReal, HTypeOK
<1> QED
  BY <1>1, <1>3, <1>4 DEF SeenClear

LEMMA UpdateSeesClear ==
  ASSUME ClearInv, NEW in \in Input, NEW step \in Steps, HUpdate(in, step), Arms \/ Directs
  PROVE SeenClear'
<1>1. Remember(in, step) /\ previous_healthy' = in.healthy /\ Update(in, step)
  BY DEF HUpdate, Update
<1>2. HTypeOK' /\ IntervalIsReal'
  BY HUpdateType, UpdateInterval DEF ClearInv
<1>3. ~LoseQuorum(in) /\ ~IgnoreOccupied(in) /\ ~BeginEpisode(in) /\ ~Track(in) /\ ~AwaitClear(in)
  BY NoResultType
  DEF LoseQuorum, IgnoreOccupied, BeginEpisode, Track, AwaitClear, Arms, Directs, Decisions
<1>4. Arm(in) \/ Conclude(in)
  BY <1>1, <1>3 DEF Update
<1> QED
  BY <1>1, <1>2, <1>4, ConfirmedIsSeen DEF Arm, Conclude

\* The observer's memory keeps its types and the clear interval stays real.
LEMMA ClearInvHolds == HSpec => []ClearInv
<1>1. HInit => ClearInv
  BY HInitType DEF HInit, Init, Fresh, Nothing, ClearInv, IntervalIsReal
<1>2. ClearInv /\ [HNext]_hvars => ClearInv'
  <2> SUFFICES ASSUME ClearInv, [HNext]_hvars PROVE ClearInv'
    OBVIOUS
  <2>1. CASE \E in \in Input, step \in Steps : HUpdate(in, step)
    BY <2>1, HUpdateType, UpdateInterval DEF ClearInv
  <2>2. CASE HReset
    BY <2>2, HResetType DEF ClearInv, HReset, Reset, IntervalIsReal
  <2>3. CASE UNCHANGED hvars
    BY <2>3 DEF hvars, history, vars, fusion, ClearInv, HTypeOK, TypeOK, IntervalIsReal
  <2> QED
    BY <2>1, <2>2, <2>3 DEF HNext
<1> QED
  BY <1>1, <1>2, PTL DEF HSpec

\* Every type of Fusion and of the observer, among them that the observer's
\* clock stays inside its horizon.
THEOREM HistoryTypesHold == HSpec => []HTypeOK
<1>1. ClearInv => HTypeOK
  BY DEF ClearInv
<1> QED
  BY <1>1, ClearInvHolds, PTL

\* At any clear time and on a clock that wraps: the doorway is armed, and an
\* episode is given a direction, only after a clear time that really passed and
\* in which every healthy sensor sampled both zones.
THEOREM NothingBeforeClear == HSpec => ClearBeforeAnything
<1>1. ClearInv /\ [HNext]_hvars => [(Arms \/ Directs) => SeenClear']_hvars
  <2> SUFFICES ASSUME ClearInv, HNext, Arms \/ Directs PROVE SeenClear'
    OBVIOUS
  <2>1. CASE \E in \in Input, step \in Steps : HUpdate(in, step)
    BY <2>1, UpdateSeesClear
  <2>2. CASE HReset
    BY <2>2, NoResultType DEF HReset, Reset, Arms, Directs
  <2> QED
    BY <2>1, <2>2 DEF HNext
<1> QED
  BY <1>1, ClearInvHolds, PTL DEF HSpec, ClearBeforeAnything

-----------------------------------------------------------------------------
(* The sensors that count a person saw that person leave together.         *)

\* While less than a full turn has passed, the clock's difference is the time.
LEMMA ElapsedExactly ==
  ASSUME NEW t \in Time, NEW at \in Time, NEW d \in Time, Elapsed(t, at) + d < Modulus
  PROVE Elapsed(t, Later(at, d)) = Elapsed(t, at) + d
  BY ModulusAssumption DEF Time, Elapsed, Later

\* What a track p knows of the moment l of the episode, which began at begun and
\* lasts so long, at which the observer saw the sensor's field become empty.
TrackLeaves(p, l, begun, long) ==
  /\ l < Modulus => l <= long
  /\ p.previous # {} => l = Modulus
  /\ p.cleared /\ ~p.ambiguous =>
       /\ p.previous = {}
       /\ l < Modulus => Elapsed(begun, p.finished) = l
       /\ l = Modulus => long = Modulus

\* One more observation keeps that.
LEMMA ObserveLeaves ==
  ASSUME NEW p \in Path, NEW state \in SUBSET Zones, NEW at \in Time, NEW timed, NEW edges,
         NEW l \in 0 .. Modulus, NEW begun \in Time,
         NEW long \in 0 .. Modulus, NEW longer \in 0 .. Modulus, long <= longer,
         longer < Modulus => Elapsed(begun, at) = longer,
         TrackLeaves(p, l, begun, long)
  PROVE TrackLeaves(Observe(p, state, at, timed, edges),
                    IF state # {} THEN Modulus ELSE Sooner(l, longer), begun, longer)
<1> DEFINE q == Observe(p, state, at, timed, edges)
           m == IF state # {} THEN Modulus ELSE Sooner(l, longer)
<1>0. Modulus \in Nat
  BY TimeIsNat
<1>1. m < Modulus => m <= longer
  BY <1>0 DEF Sooner
<1>2. q.previous = state
  BY DEF Observe, Path
<1>3. q.previous # {} => m = Modulus
  BY <1>2
<1>4. ASSUME q.cleared, ~q.ambiguous
      PROVE /\ q.previous = {}
            /\ m < Modulus => Elapsed(begun, q.finished) = m
            /\ m = Modulus => longer = Modulus
  <2>1. CASE state = p.previous
    <3>1. q = p /\ state = {} /\ m = Sooner(l, longer)
      BY <1>4, <2>1 DEF Observe, TrackLeaves
    <3> QED
      BY <1>0, <1>4, <2>1, <3>1 DEF TrackLeaves, Sooner
  <2>2. CASE state # p.previous /\ state # {}
    <3>1. q.ambiguous = (p.ambiguous \/ p.cleared \/ (~p.visited /\ state \in {{}, Zones}))
          /\ q.cleared = p.cleared
      BY <2>2 DEF Observe, Path
    <3> QED
      BY <1>4, <3>1
  <2>3. CASE state # p.previous /\ state = {}
    <3>1. q.cleared = (p.cleared \/ p.visited) /\ q.ambiguous = p.ambiguous
          /\ q.finished = IF p.visited THEN at ELSE p.finished
      BY <2>3 DEF Observe, Path
    <3>2. l = Modulus /\ m = longer
      BY <1>0, <2>3 DEF TrackLeaves, Sooner
    <3>3. ~p.cleared
      BY <1>4, <2>3, <3>1 DEF TrackLeaves
    <3> QED
      BY <1>2, <1>4, <2>3, <3>1, <3>2, <3>3
  <2> QED
    BY <2>1, <2>2, <2>3
<1> QED
  BY <1>1, <1>3, <1>4 DEF TrackLeaves

\* A sensor that came back into the episode has no track to speak of.
LEMMA NoTrackLeaves ==
  ASSUME NEW l \in 0 .. Modulus, NEW begun, NEW long, l < Modulus => l <= long
  PROVE TrackLeaves(NoPath, l, begun, long)
  BY DEF TrackLeaves, NoPath

\* While an episode runs, its length and each eligible track's end are real.
EndsAreReal ==
  active =>
    /\ lasted < Modulus => Elapsed(started, now) = lasted
    /\ \A s \in eligible : TrackLeaves(paths[s], left[s], started, lasted)

LeavingInv == HTypeOK /\ ArmedWhileActive /\ EndsAreReal /\ VotersLeaveTogether

\* A call of a running episode keeps the length and the ends real.
LEMMA StillReal ==
  ASSUME HTypeOK, HTypeOK', EndsAreReal, active, NEW in \in Input, NEW step \in Steps,
         Remember(in, step), now' = Later(now, step)
  PROVE /\ lasted' < Modulus => Elapsed(started, now') = lasted'
        /\ \A s \in Remaining(in) :
             TrackLeaves(Observed(Kept(in), Remaining(in), in)[s], left'[s], started, lasted')
<1>1. /\ now \in Time /\ now' \in Time /\ started \in Time /\ step \in Time /\ step \in Nat
      /\ Modulus \in Nat /\ lasted \in 0 .. Modulus /\ lasted' \in 0 .. Modulus
      /\ lasted' = Sooner(lasted + step, Modulus)
  BY Settings, TimeIsNat DEF HTypeOK, TypeOK, Remember
<1>2. lasted <= lasted'
  BY <1>1 DEF Sooner
<1>3. lasted' < Modulus => Elapsed(started, now') = lasted'
  <2> SUFFICES ASSUME lasted' < Modulus PROVE Elapsed(started, now') = lasted'
    OBVIOUS
  <2>1. lasted' = lasted + step /\ lasted < Modulus
    BY <1>1 DEF Sooner
  <2>2. Elapsed(started, now) = lasted
    BY <2>1 DEF EndsAreReal
  <2> QED
    BY <1>1, <2>1, <2>2, ElapsedExactly
<1>4. ASSUME NEW s \in Remaining(in)
      PROVE TrackLeaves(Observed(Kept(in), Remaining(in), in)[s], left'[s], started, lasted')
  <2>1. s \in eligible /\ s \in Sensors /\ in.states[s] \in SUBSET Zones
    BY DEF Remaining, HTypeOK, TypeOK, Input
  <2>2. left[s] \in 0 .. Modulus /\ TrackLeaves(paths[s], left[s], started, lasted)
    BY <2>1 DEF HTypeOK, EndsAreReal
  <2>3. Kept(in)[s] \in Path /\ Kept(in)[s] \in {paths[s], NoPath}
    BY <2>1, KeptType DEF HTypeOK, TypeOK, Kept
  <2>4. TrackLeaves(Kept(in)[s], left[s], started, lasted)
    <3>1. left[s] < Modulus => left[s] <= lasted
      BY <2>2 DEF TrackLeaves
    <3>2. TrackLeaves(NoPath, left[s], started, lasted)
      BY <2>2, <3>1, NoTrackLeaves
    <3> QED
      BY <2>2, <2>3, <3>2
  <2>5. left'[s] = IF in.states[s] # {} THEN Modulus ELSE Sooner(left[s], lasted')
    BY <2>1 DEF Remember
  <2>6. Observed(Kept(in), Remaining(in), in)[s]
          = Observe(Kept(in)[s], in.states[s], now', Timed, in.edges[s])
    BY <2>1 DEF Observed
  <2>7. TrackLeaves(Observe(Kept(in)[s], in.states[s], now', Timed, in.edges[s]),
                    IF in.states[s] # {} THEN Modulus ELSE Sooner(left[s], lasted'),
                    started, lasted')
    <3> DEFINE k == Kept(in)[s]
               state == in.states[s]
               l == left[s]
    <3>1. k \in Path /\ state \in SUBSET Zones /\ l \in 0 .. Modulus /\ TrackLeaves(k, l, started, lasted)
      BY <2>1, <2>2, <2>3, <2>4
    <3> HIDE DEF k, state, l
    <3>2. TrackLeaves(Observe(k, state, now', Timed, in.edges[s]),
                      IF state # {} THEN Modulus ELSE Sooner(l, lasted'), started, lasted')
      BY <1>1, <1>2, <1>3, <3>1, ObserveLeaves
    <3> QED
      BY <3>2 DEF k, state, l
  <2> QED
    BY <2>5, <2>6, <2>7
<1> QED
  BY <1>3, <1>4

\* The first call of an episode makes them so.
LEMMA BeginsReal ==
  ASSUME HTypeOK, HTypeOK', NEW in \in Input, NEW step, Remember(in, step), BeginEpisode(in)
  PROVE EndsAreReal'
<1>1. /\ started' = now' /\ now' \in Time /\ lasted' = 0 /\ Modulus \in Nat /\ Modulus # 0
      /\ eligible' = in.healthy /\ ~active
  BY TimeIsNat DEF BeginEpisode, HTypeOK, TypeOK, Remember
<1>2. Elapsed(started', now') = lasted'
  BY <1>1, ElapsedFromItself
<1>3. ASSUME NEW s \in in.healthy PROVE TrackLeaves(paths'[s], left'[s], started', lasted')
  <2>1. s \in Sensors /\ in.states[s] \in SUBSET Zones
    BY DEF Input
  <2>2. paths'[s] = Observe(NoPath, in.states[s], now', Timed, in.edges[s])
    BY <2>1 DEF BeginEpisode, Observed, NoPaths
  <2>3. left'[s] = IF in.states[s] # {} THEN Modulus ELSE Sooner(Modulus, lasted')
    BY <1>1, <2>1 DEF Remember
  <2>4. TrackLeaves(NoPath, Modulus, started', 0)
    BY <1>1, NoTrackLeaves
  <2> QED
    BY <1>1, <1>2, <2>1, <2>2, <2>3, <2>4, NoPathType, ObserveLeaves
<1> QED
  BY <1>1, <1>2, <1>3 DEF EndsAreReal

\* What the verdict makes of real ends.
LEMMA VerdictTogether ==
  ASSUME HTypeOK', NEW tracks \in [Sensors -> Path], NEW voters \in SUBSET Sensors,
         result' = Verdict(tracks, voters), started' = started, started \in Time,
         \A s \in voters : TrackLeaves(tracks[s], left'[s], started, lasted')
  PROVE VotersLeaveTogether'
<1> SUFFICES ASSUME result'.decision \in {"IN", "OUT"},
                    NEW s \in result'.in \cup result'.out, NEW t \in result'.in \cup result'.out,
                    left'[s] < Modulus, left'[t] < Modulus
             PROVE left'[s] - left'[t] <= AgreementMs
  BY DEF VotersLeaveTogether
<1>1. /\ s \in Voters(tracks, voters) /\ t \in Voters(tracks, voters)
      /\ result'.decision = Decision(result'.in, result'.out, Scattered(tracks, voters))
  BY DEF Verdict, InVotes, OutVotes
<1>2. ~Scattered(tracks, voters)
  BY <1>1 DEF Decision
<1>3. ~(Elapsed(started, tracks[s].finished) - Elapsed(started, tracks[t].finished) > AgreementMs)
  BY <1>1, <1>2 DEF Scattered
<1>4. ASSUME NEW v \in Voters(tracks, voters), left'[v] < Modulus
      PROVE Elapsed(started, tracks[v].finished) = left'[v]
  <2>1. v \in voters /\ Vote(tracks[v]) # {} /\ tracks[v] \in Path
    BY DEF Voters
  <2>2. GeometricDirection(tracks[v], MinimumMs) # {}
    BY <2>1, VoteNeedsBothZones DEF Vote
  <2>3. tracks[v].cleared /\ ~tracks[v].ambiguous
    BY <2>2 DEF GeometricDirection
  <2> QED
    BY <1>4, <2>1, <2>3 DEF TrackLeaves
<1>5. left'[s] \in Nat /\ left'[t] \in Nat /\ AgreementMs \in Nat
  <2>1. s \in Sensors /\ t \in Sensors
    BY <1>1 DEF Voters
  <2> QED
    BY <2>1, Settings, TimeIsNat DEF HTypeOK
<1> QED
  BY <1>1, <1>3, <1>4, <1>5

\* A call that counts nobody has no voters to compare.
LEMMA NobodyLeft ==
  ASSUME result' \in {NoResult, Rejected} PROVE VotersLeaveTogether'
  BY NoResultType DEF VotersLeaveTogether

LEMMA UpdateLeaves ==
  ASSUME LeavingInv, NEW in \in Input, NEW step \in Steps, HUpdate(in, step)
  PROVE LeavingInv'
<1>1. /\ HTypeOK /\ EndsAreReal /\ ArmedWhileActive /\ TypeOK
      /\ Update(in, step) /\ Remember(in, step) /\ now' = Later(now, step)
  BY DEF LeavingInv, HUpdate, Update, HTypeOK
<1>2. HTypeOK'
  BY <1>1, HUpdateType
<1>3. ArmedWhileActive'
  BY <1>1, UpdateImplements
<1>4. active =>
        /\ lasted' < Modulus => Elapsed(started, now') = lasted'
        /\ \A s \in Remaining(in) :
             TrackLeaves(Observed(Kept(in), Remaining(in), in)[s], left'[s], started, lasted')
  BY <1>1, <1>2, StillReal
<1> SUFFICES EndsAreReal' /\ VotersLeaveTogether'
  BY <1>2, <1>3 DEF LeavingInv
<1>5. CASE LoseQuorum(in)
  BY <1>5, NobodyLeft DEF LoseQuorum, EndsAreReal
<1>6. CASE IgnoreOccupied(in)
  BY <1>1, <1>6, NobodyLeft DEF IgnoreOccupied, ArmedWhileActive, EndsAreReal
<1>7. CASE BeginEpisode(in)
  BY <1>1, <1>2, <1>7, BeginsReal, NobodyLeft DEF BeginEpisode
<1>8. CASE Track(in)
  BY <1>4, <1>8, NobodyLeft DEF Track, EndsAreReal
<1>9. CASE AwaitClear(in)
  BY <1>4, <1>9, NobodyLeft DEF AwaitClear, EndsAreReal
<1>10. CASE Arm(in)
  BY <1>10, NobodyLeft DEF Arm, EndsAreReal
<1>11. CASE Conclude(in)
  <2> DEFINE voters == Remaining(in)
             tracks == Observed(Kept(in), voters, in)
  <2>1. tracks \in [Sensors -> Path] /\ voters \in SUBSET Sensors /\ started \in Time
    BY <1>1, <1>2, KeptType, ObservedType, RemainingType DEF HTypeOK, TypeOK
  <2>2. result' = Verdict(tracks, voters) /\ ~active' /\ started' = started
    BY <1>11 DEF Conclude
  <2>3. \A s \in voters : TrackLeaves(tracks[s], left'[s], started, lasted')
    BY <1>4, <1>11 DEF Conclude
  <2> HIDE DEF voters, tracks
  <2>4. VotersLeaveTogether'
    BY <1>2, <2>1, <2>2, <2>3, VerdictTogether
  <2> QED
    BY <2>2, <2>4 DEF EndsAreReal
<1> QED
  BY <1>1, <1>5, <1>6, <1>7, <1>8, <1>9, <1>10, <1>11 DEF Update

\* For every number of sensors, every agreement time and a clock that wraps:
\* sensors that count a person saw their fields become empty that close together.
THEOREM VotersSawOneLeave == HSpec => []VotersLeaveTogether
<1>1. HInit => LeavingInv
  BY HInitType, NoResultType
  DEF HInit, Init, Fresh, LeavingInv, ArmedWhileActive, EndsAreReal, VotersLeaveTogether
<1>2. LeavingInv /\ [HNext]_hvars => LeavingInv'
  <2> SUFFICES ASSUME LeavingInv, [HNext]_hvars PROVE LeavingInv'
    OBVIOUS
  <2>1. CASE \E in \in Input, step \in Steps : HUpdate(in, step)
    BY <2>1, UpdateLeaves
  <2>2. CASE HReset
    BY <2>2, HResetType, NobodyLeft DEF HReset, Reset, LeavingInv, ArmedWhileActive, EndsAreReal
  <2>3. CASE UNCHANGED hvars
    BY <2>3 DEF hvars, history, vars, fusion, LeavingInv, HTypeOK, TypeOK, ArmedWhileActive,
                EndsAreReal, VotersLeaveTogether
  <2> QED
    BY <2>1, <2>2, <2>3 DEF HNext
<1>3. LeavingInv => VotersLeaveTogether
  BY DEF LeavingInv
<1> QED
  BY <1>1, <1>2, <1>3, PTL DEF HSpec

-----------------------------------------------------------------------------
(* What is done again and again: a function on 0 .. n given by its first   *)
(* value and a step exists, and keeps what every step keeps.               *)

LEMMA Induction ==
  ASSUME NEW S \in SUBSET Nat, 0 \in S, \A n \in S : n + 1 \in S
  PROVE S = Nat
<1> SUFFICES ASSUME Nat \ S # {} PROVE FALSE
  OBVIOUS
<1>1. PICK m \in Nat \ S : \A k \in Nat \ S : ~(<<k, m>> \in OpToRel(<, Nat))
  BY NatLessThanWellFounded, WFMin
<1>2. m \in Nat /\ m \notin S /\ m # 0
  BY <1>1
<1>3. m - 1 \in Nat /\ m - 1 < m /\ (m - 1) + 1 = m
  BY <1>2
<1>4. <<m - 1, m>> \in OpToRel(<, Nat)
  BY <1>2, <1>3 DEF OpToRel
<1>5. m - 1 \in S
  BY <1>1, <1>3, <1>4
<1> QED
  BY <1>2, <1>3, <1>5

\* In each of a number of steps, from the first.
LEMMA Stepwise ==
  ASSUME NEW N \in Nat, NEW S \in SUBSET (0 .. N), 0 \in S, \A n \in 1 .. N : n - 1 \in S => n \in S
  PROVE \A n \in 0 .. N : n \in S
<1> DEFINE T == {n \in Nat : n \in 0 .. N => n \in S}
<1>1. 0 \in T
  OBVIOUS
<1>2. ASSUME NEW n \in T PROVE n + 1 \in T
  <2>1. n \in Nat /\ n + 1 \in Nat
    OBVIOUS
  <2>2. ASSUME n + 1 \in 0 .. N PROVE n + 1 \in S
    <3>1. n \in 0 .. N /\ n + 1 \in 1 .. N /\ (n + 1) - 1 = n
      BY <2>1, <2>2
    <3>2. n \in S
      BY <3>1
    <3> QED
      BY <3>1, <3>2
  <2> QED
    BY <2>1, <2>2
<1> HIDE DEF T
<1>3. T = Nat
  <2>1. T \in SUBSET Nat
    BY DEF T
  <2> QED
    BY <1>1, <1>2, <2>1, Induction
<1>4. ASSUME NEW n \in 0 .. N PROVE n \in S
  <2>1. n \in T
    BY <1>3
  <2> QED
    BY <2>1 DEF T
<1> QED
  BY <1>4

\* A step of a set of states, taken N times.
Changes(N, X) == [1 .. N -> [X -> X]]
Iterates(f, N, X, start, step) ==
  /\ f \in [0 .. N -> X]
  /\ f[0] = start /\ \A n \in 1 .. N : f[n] = step[n][f[n - 1]]

LEMMA Iterated ==
  ASSUME NEW N \in Nat, NEW X, NEW start \in X, NEW step \in Changes(N, X)
  PROVE \E f : Iterates(f, N, X, start, step)
<1> DEFINE Is(f, m) == Iterates(f, m, X, start, step)
           S == {m \in 0 .. N : \E f : Is(f, m)}
<1> USE DEF Changes, Iterates
<1>1. 0 \in S
  <2>1. Is([n \in 0 .. 0 |-> start], 0)
    OBVIOUS
  <2> HIDE DEF Is
  <2>2. \E f : Is(f, 0)
    BY <2>1
  <2> QED
    BY <2>2
<1>2. ASSUME NEW m \in 1 .. N, m - 1 \in S PROVE m \in S
  <2>1. PICK f : Is(f, m - 1)
    BY <1>2
  <2> DEFINE g == [n \in 0 .. m |-> IF n = m THEN step[m][f[m - 1]] ELSE f[n]]
  <2>2. m \in Nat /\ m # 0 /\ m - 1 \in 0 .. m - 1 /\ \A n \in 0 .. m : n = m \/ n \in 0 .. m - 1
    OBVIOUS
  <2>3. f[m - 1] \in X /\ step[m][f[m - 1]] \in X
    BY <2>1, <2>2
  <2>4. g \in [0 .. m -> X]
    BY <2>1, <2>2, <2>3
  <2>5. g[0] = start
    BY <2>1, <2>2
  <2>6. ASSUME NEW n \in 1 .. m PROVE g[n] = step[n][g[n - 1]]
    <3>1. n - 1 \in 0 .. m - 1 /\ n - 1 # m /\ n - 1 \in 0 .. m /\ n \in 0 .. m
      BY <2>2
    <3>2. g[n - 1] = f[n - 1]
      BY <3>1
    <3>3. CASE n = m
      BY <3>1, <3>2, <3>3
    <3>4. CASE n # m
      <4>1. n \in 1 .. m - 1
        BY <3>4
      <4> QED
        BY <2>1, <3>1, <3>2, <3>4, <4>1
    <3> QED
      BY <3>3, <3>4
  <2> HIDE DEF g
  <2>7. Is(g, m)
    BY <2>4, <2>5, <2>6
  <2> HIDE DEF Is
  <2>8. \E h : Is(h, m)
    BY <2>7
  <2>9. m \in 0 .. N
    OBVIOUS
  <2> QED
    BY <2>8, <2>9
<1>3. S \in SUBSET (0 .. N)
  OBVIOUS
<1> HIDE DEF S
<1>4. N \in S
  <2>1. \A n \in 1 .. N : n - 1 \in S => n \in S
    BY <1>2
  <2>2. \A n \in 0 .. N : n \in S
    BY <1>1, <1>3, <2>1, Stepwise
  <2> QED
    BY <2>2
<1> QED
  BY <1>4 DEF S

-----------------------------------------------------------------------------
(* The track of one sensor next to the list of what the sensor saw.        *)

\* What a path keeps of the list: how it began, whether and when the field became
\* empty, whether that was the end, what was seen, and the last zone seen alone.
Opened(p, t, begin) ==
  /\ (p.visited <=> Len(t) > 0)
  /\ Len(t) > 0 => /\ t[1].zones # {}
                   /\ p.first = IF t[1].zones = Zones THEN {} ELSE t[1].zones
                   /\ p.started = Later(begin, t[1].at)
  /\ Len(t) = 0 => p.first = {}

Emptied(t) == {i \in 1 .. Len(t) : t[i].zones = {}}

Closed(p, t, begin) ==
  /\ (p.cleared <=> Emptied(t) # {})
  /\ (p.ambiguous <=> (Len(t) > 0 /\ t[1].zones = Zones) \/ \E i \in Emptied(t) : i < Len(t))
  /\ p.cleared /\ ~p.ambiguous => p.finished = Later(begin, t[Len(t)].at)

SawAll(p, t) ==
  /\ \A i \in 1 .. Len(t) : t[i].zones \subseteq p.seen
  /\ \A z \in p.seen : \E i \in 1 .. Len(t) : z \in t[i].zones

Single == {{ZONE_OUT}, {ZONE_IN}}
Latest(i, t) == t[i].zones \in Single /\ \A j \in i + 1 .. Len(t) : t[j].zones \notin Single

LastAlone(p, t) ==
  IF p.last = {} THEN \A i \in 1 .. Len(t) : t[i].zones \notin Single
  ELSE \E i \in 1 .. Len(t) : Latest(i, t) /\ p.last = t[i].zones

Ordered(t) == \A i \in 1 .. Len(t) : t[i].at <= t[Len(t)].at

Sound(e) ==
  /\ e \in Tracked
  /\ e.path.previous = Field(e)
  /\ Opened(e.path, e.trace, e.begin) /\ Closed(e.path, e.trace, e.begin)
  /\ SawAll(e.path, e.trace) /\ LastAlone(e.path, e.trace) /\ Ordered(e.trace)

LEMMA ZonesAre ==
  /\ Zones = {ZONE_OUT, ZONE_IN} /\ ZONE_OUT # ZONE_IN
  /\ \A z \in SUBSET Zones : z \in Single <=> z # {} /\ z # Zones
  /\ \A z \in Single : Zones \ z \in Single /\ Zones \ z # z /\ z \cup (Zones \ z) = Zones /\ z # {}
  /\ \A y, z \in Single : y # z => y = Zones \ z
<1>1. ZONE_OUT # ZONE_IN /\ Zones = {ZONE_OUT, ZONE_IN} /\ Single = {{ZONE_OUT}, {ZONE_IN}}
  BY DEF Zones, ZONE_OUT, ZONE_IN, Single
<1>2. Zones \ {ZONE_OUT} = {ZONE_IN} /\ Zones \ {ZONE_IN} = {ZONE_OUT}
  BY <1>1
<1>3. \A z \in SUBSET Zones : z = {} \/ z = {ZONE_OUT} \/ z = {ZONE_IN} \/ z = Zones
  BY <1>1
<1>4. {ZONE_OUT} # {} /\ {ZONE_IN} # {} /\ {ZONE_OUT} # Zones /\ {ZONE_IN} # Zones /\ {ZONE_OUT} # {ZONE_IN}
  BY <1>1
<1>5. \A z \in SUBSET Zones : z \in Single <=> z # {} /\ z # Zones
  BY <1>1, <1>3, <1>4
<1>6. \A z \in Single : Zones \ z \in Single /\ Zones \ z # z /\ z \cup (Zones \ z) = Zones /\ z # {}
  BY <1>1, <1>2, <1>4
<1>7. \A y, z \in Single : y # z => y = Zones \ z
  BY <1>1, <1>2
<1> QED
  BY <1>1, <1>5, <1>6, <1>7

\* The list u is the list t and one more change.
Extends(u, t, c) ==
  /\ Len(t) \in Nat /\ Len(u) = Len(t) + 1
  /\ u[Len(t) + 1] = c /\ \A i \in 1 .. Len(t) : u[i] = t[i]

LEMMA AppendIs ==
  ASSUME NEW S, NEW t \in Seq(S), NEW c \in S
  PROVE Append(t, c) \in Seq(S) /\ Extends(Append(t, c), t, c)
  BY DEF Extends

\* What Path::observe does with a change of the field.
Observes(q, p, state, at) ==
  /\ q.previous = state
  /\ (q.visited <=> p.visited \/ state # {})
  /\ (q.cleared <=> p.cleared \/ (state = {} /\ p.visited))
  /\ q.finished = IF state = {} /\ p.visited THEN at ELSE p.finished
  /\ (q.ambiguous <=> p.ambiguous \/ (state # {} /\ (p.cleared \/ (~p.visited /\ state = Zones))))
  /\ q.started = IF state # {} /\ ~p.visited THEN at ELSE p.started
  /\ q.first = IF state # {} /\ ~p.visited /\ state # Zones THEN state ELSE p.first
  /\ q.seen = p.seen \cup state
  /\ q.last = IF state # {} /\ state # Zones THEN state ELSE p.last

LEMMA ObserveIs ==
  ASSUME NEW p \in Path, NEW state \in SUBSET Zones, state # p.previous, NEW at \in Time
  PROVE /\ Observe(p, state, at, FALSE, NoEdges) \in Path
        /\ Observes(Observe(p, state, at, FALSE, NoEdges), p, state, at)
<1> DEFINE q == Observe(p, state, at, FALSE, NoEdges)
           opening == state # {} /\ ~p.visited
           closing == state = {} /\ p.visited
           single  == state \notin {{}, Zones}
<1>1. q \in Path
  BY NoPathType, ObserveType DEF NoPath, Path
<1>2. q = [p EXCEPT
             !.previous = state, !.timed = @ \/ FALSE, !.rises = @, !.falls = @,
             !.cleared = @ \/ closing, !.finished = IF closing THEN at ELSE @,
             !.ambiguous = @ \/ (state # {} /\ p.cleared) \/ (opening /\ ~single),
             !.visited = @ \/ opening, !.started = IF opening THEN at ELSE @,
             !.first = IF opening /\ single THEN state ELSE @,
             !.seen = @ \cup state, !.last = IF single THEN state ELSE @]
  BY DEF Observe
<1>3. p.visited \in BOOLEAN /\ p.cleared \in BOOLEAN /\ p.ambiguous \in BOOLEAN
  BY DEF Path
<1> HIDE DEF q
<1>4. /\ q.previous = state /\ q.cleared = (p.cleared \/ closing)
      /\ q.finished = IF closing THEN at ELSE p.finished
      /\ q.ambiguous = (p.ambiguous \/ (state # {} /\ p.cleared) \/ (opening /\ ~single))
      /\ q.visited = (p.visited \/ opening) /\ q.started = IF opening THEN at ELSE p.started
      /\ q.first = IF opening /\ single THEN state ELSE p.first
      /\ q.seen = p.seen \cup state /\ q.last = IF single THEN state ELSE p.last
  BY <1>2 DEF Path
<1>5. Observes(q, p, state, at)
  BY <1>3, <1>4 DEF Observes
<1> QED
  BY <1>1, <1>5 DEF q

LEMMA OpenedStays ==
  ASSUME NEW p \in Path, NEW q \in Path, NEW t, NEW u, NEW c \in Change, NEW begin,
         Extends(u, t, c), Observes(q, p, c.zones, Later(begin, c.at)),
         Opened(p, t, begin), Len(t) = 0 => c.zones # {}
  PROVE Opened(q, u, begin)
<1>1. Len(t) \in Nat /\ Len(u) = Len(t) + 1 /\ Len(u) > 0
  BY DEF Path, Extends
<1>2. CASE Len(t) = 0
  <2>1. u[1] = c /\ ~p.visited /\ c.zones # {} /\ p.first = {}
    BY <1>1, <1>2 DEF Extends, Opened
  <2> QED
    BY <1>1, <2>1 DEF Opened, Observes
<1>3. CASE Len(t) > 0
  <2>1. u[1] = t[1] /\ p.visited
    BY <1>1, <1>3 DEF Extends, Opened
  <2> QED
    BY <1>1, <1>3, <2>1 DEF Opened, Observes
<1> QED
  BY <1>1, <1>2, <1>3

LEMMA ClosedStays ==
  ASSUME NEW p \in Path, NEW q \in Path, NEW t, NEW u, NEW c \in Change, NEW begin,
         Extends(u, t, c), Observes(q, p, c.zones, Later(begin, c.at)),
         Opened(p, t, begin), Closed(p, t, begin),
         Len(t) = 0 => c.zones # {}, Len(t) > 0 => c.zones # t[Len(t)].zones
  PROVE Closed(q, u, begin)
<1> DEFINE n == Len(t)
<1>1. /\ n \in Nat /\ Len(u) = n + 1 /\ u[n + 1] = c /\ \A i \in 1 .. n : u[i] = t[i]
  BY DEF Extends
<1>2. Emptied(t) = {i \in 1 .. n : t[i].zones = {}} /\ Emptied(u) = {i \in 1 .. n + 1 : u[i].zones = {}}
  BY <1>1 DEF Emptied
<1>3. (n > 0 <=> p.visited) /\ (n = 0 => c.zones # {})
  BY DEF Opened
<1>4. /\ (p.cleared <=> Emptied(t) # {})
      /\ (p.ambiguous <=> (n > 0 /\ t[1].zones = Zones) \/ \E i \in Emptied(t) : i < n)
  BY DEF Closed
<1> HIDE DEF n
<1>5. Emptied(u) = Emptied(t) \cup (IF c.zones = {} THEN {n + 1} ELSE {})
  BY <1>1, <1>2
<1>6. n > 0 => u[1] = t[1]
  BY <1>1
<1>7. n = 0 => u[1] = c
  BY <1>1
<1>13. \A i \in 1 .. n : i < n + 1 /\ i # n + 1
  BY <1>1
<1>14. Emptied(t) \subseteq 1 .. n /\ ~(n + 1 < n + 1)
  BY <1>1, <1>2
<1>8. q.cleared <=> Emptied(u) # {}
  <2>1. q.cleared <=> p.cleared \/ (c.zones = {} /\ p.visited)
    BY DEF Observes
  <2> QED
    BY <1>1, <1>3, <1>4, <1>5, <2>1
<1>9. (\E i \in Emptied(u) : i < n + 1) <=> Emptied(t) # {}
  BY <1>5, <1>13, <1>14
<1>10. \A i \in Emptied(t) : i < n \/ c.zones # {}
  <2> SUFFICES ASSUME NEW i \in Emptied(t), c.zones = {} PROVE i < n
    OBVIOUS
  <2>1. i \in 1 .. n /\ t[i].zones = {}
    BY <1>2
  <2>2. n > 0 /\ t[n].zones # {}
    BY <1>1, <2>1 DEF n
  <2>3. i # n
    BY <2>1, <2>2
  <2> QED
    BY <1>1, <2>1, <2>3
<1>11. q.ambiguous <=> (Len(u) > 0 /\ u[1].zones = Zones) \/ \E i \in Emptied(u) : i < Len(u)
  <2>1. q.ambiguous <=> p.ambiguous \/ (c.zones # {} /\ (p.cleared \/ (~p.visited /\ c.zones = Zones)))
    BY DEF Observes
  <2>2. CASE n = 0
    <3>1. Emptied(t) = {} /\ ~p.visited /\ ~p.ambiguous /\ ~p.cleared
      BY <1>1, <1>2, <1>3, <1>4, <2>2
    <3> QED
      BY <1>1, <1>3, <1>7, <1>9, <2>1, <2>2, <3>1
  <2>3. CASE n > 0
    <3>1. p.visited
      BY <1>3, <2>3
    <3>2. Len(u) > 0 /\ u[1] = t[1]
      BY <1>1, <1>6, <2>3
    <3>3. CASE c.zones = {}
      <4>1. Emptied(t) # {} <=> \E i \in Emptied(t) : i < n
        BY <1>10, <3>3
      <4> QED
        BY <1>1, <1>4, <1>9, <2>1, <2>3, <3>2, <3>3, <4>1
    <3>4. CASE c.zones # {}
      <4>1. (\E i \in Emptied(t) : i < n) => Emptied(t) # {}
        OBVIOUS
      <4> QED
        BY <1>1, <1>4, <1>9, <2>1, <2>3, <3>1, <3>2, <3>4, <4>1
    <3> QED
      BY <3>3, <3>4
  <2> QED
    BY <1>1, <2>2, <2>3
<1>12. ASSUME q.cleared, ~q.ambiguous PROVE q.finished = Later(begin, u[Len(u)].at)
  <2>1. Emptied(u) # {} /\ ~(\E i \in Emptied(u) : i < n + 1)
    BY <1>1, <1>8, <1>11, <1>12
  <2>2. Emptied(t) = {} /\ c.zones = {}
    BY <1>5, <1>9, <2>1
  <2>3. p.visited
    BY <1>1, <1>3, <2>2
  <2> QED
    BY <1>1, <2>2, <2>3 DEF Observes
<1> QED
  BY <1>8, <1>11, <1>12 DEF Closed

LEMMA SawStays ==
  ASSUME NEW p \in Path, NEW q \in Path, NEW t, NEW u, NEW c \in Change, NEW at,
         Extends(u, t, c), Observes(q, p, c.zones, at), SawAll(p, t)
  PROVE SawAll(q, u)
<1>1. Len(t) \in Nat /\ Len(u) = Len(t) + 1 /\ u[Len(t) + 1] = c /\ \A i \in 1 .. Len(t) : u[i] = t[i]
  BY DEF Extends
<1>2. q.seen = p.seen \cup c.zones
  BY DEF Observes
<1>3. \A i \in 1 .. Len(u) : i \in 1 .. Len(t) \/ i = Len(t) + 1
  BY <1>1
<1>4. \A i \in 1 .. Len(t) : i \in 1 .. Len(u)
  BY <1>1
<1>5. Len(t) + 1 \in 1 .. Len(u)
  BY <1>1
<1>6. \A i \in 1 .. Len(u) : u[i].zones \subseteq q.seen
  BY <1>1, <1>2, <1>3 DEF SawAll
<1>7. ASSUME NEW z \in q.seen PROVE \E i \in 1 .. Len(u) : z \in u[i].zones
  <2>1. CASE z \in c.zones
    BY <1>1, <1>5, <2>1
  <2>2. CASE z \in p.seen
    <3>1. PICK i \in 1 .. Len(t) : z \in t[i].zones
      BY <2>2 DEF SawAll
    <3> QED
      BY <1>1, <1>4, <3>1
  <2> QED
    BY <1>2, <2>1, <2>2
<1> QED
  BY <1>6, <1>7 DEF SawAll

LEMMA LastStays ==
  ASSUME NEW p \in Path, NEW q \in Path, NEW t, NEW u, NEW c \in Change, NEW at,
         Extends(u, t, c), Observes(q, p, c.zones, at), LastAlone(p, t)
  PROVE LastAlone(q, u)
<1>1. Len(t) \in Nat /\ Len(u) = Len(t) + 1 /\ u[Len(t) + 1] = c /\ \A i \in 1 .. Len(t) : u[i] = t[i]
  BY DEF Extends
<1>2. c.zones \in SUBSET Zones
  BY DEF Change
<1>3. c.zones \in Single <=> c.zones # {} /\ c.zones # Zones
  BY <1>2, ZonesAre
<1>4. q.last = IF c.zones \in Single THEN c.zones ELSE p.last
  BY <1>3 DEF Observes
<1>5. CASE c.zones \in Single
  <2>1. Len(u) \in 1 .. Len(u) /\ \A j \in Len(u) + 1 .. Len(u) : FALSE
    BY <1>1
  <2>2. Latest(Len(u), u) /\ q.last = u[Len(u)].zones
    BY <1>1, <1>4, <1>5, <2>1 DEF Latest
  <2>3. q.last # {}
    BY <1>3, <1>4, <1>5
  <2> QED
    BY <2>1, <2>2, <2>3 DEF LastAlone
<1>6. CASE c.zones \notin Single
  <2>1. q.last = p.last
    BY <1>4, <1>6
  <2>2. \A i \in 1 .. Len(u) : i \in 1 .. Len(t) \/ u[i] = c
    BY <1>1
  <2>3. CASE p.last = {}
    <3>1. \A i \in 1 .. Len(t) : t[i].zones \notin Single
      BY <2>3 DEF LastAlone
    <3>2. \A i \in 1 .. Len(u) : u[i].zones \notin Single
      BY <1>1, <1>6, <2>2, <3>1
    <3> QED
      BY <2>1, <2>3, <3>2 DEF LastAlone
  <2>4. CASE p.last # {}
    <3>1. PICK i \in 1 .. Len(t) : Latest(i, t) /\ p.last = t[i].zones
      BY <2>4 DEF LastAlone
    <3>2. i \in 1 .. Len(u) /\ u[i] = t[i]
      BY <1>1
    <3>3. \A j \in i + 1 .. Len(u) : (j \in i + 1 .. Len(t) /\ j \in 1 .. Len(t)) \/ u[j] = c
      BY <1>1
    <3>4. \A j \in i + 1 .. Len(u) : u[j].zones \notin Single
      BY <1>1, <1>6, <3>1, <3>3 DEF Latest
    <3>5. Latest(i, u) /\ q.last = u[i].zones
      BY <2>1, <3>1, <3>2, <3>4 DEF Latest
    <3> QED
      BY <2>1, <2>4, <3>2, <3>5 DEF LastAlone
  <2> QED
    BY <2>3, <2>4
<1> QED
  BY <1>5, <1>6

LEMMA StartSound == ASSUME NEW begin \in Time PROVE Sound(Start(begin))
<1> DEFINE e == Start(begin)
<1>1. e.path = NoPath /\ e.trace = <<>> /\ e.begin = begin /\ e \in Tracked
  BY NoPathType DEF Start, Tracked
<1>2. Len(e.trace) = 0 /\ 1 .. 0 = {}
  BY <1>1
<1> HIDE DEF e
<1>3. Opened(e.path, e.trace, e.begin) /\ e.path.previous = Field(e)
  BY <1>1, <1>2 DEF Field, Opened, NoPath
<1>4. Emptied(e.trace) = {}
  BY <1>2 DEF Emptied
<1>5. Closed(e.path, e.trace, e.begin)
  BY <1>1, <1>2, <1>4 DEF Closed, NoPath
<1>6. SawAll(e.path, e.trace) /\ LastAlone(e.path, e.trace) /\ Ordered(e.trace)
  BY <1>1, <1>2 DEF SawAll, LastAlone, Ordered, NoPath
<1> QED
  BY <1>1, <1>3, <1>5, <1>6 DEF Sound, e

LEMMA SeeIs ==
  ASSUME NEW e \in Tracked, NEW zones \in SUBSET Zones, zones # e.path.previous,
         NEW at \in 0 .. MaxTime
  PROVE LET c == [zones |-> zones, at |-> at]
            s == See(e, zones, at)
        IN /\ s \in Tracked /\ s.begin = e.begin /\ c \in Change
           /\ Extends(s.trace, e.trace, c)
           /\ Observes(s.path, e.path, zones, Later(e.begin, at))
<1> DEFINE c == [zones |-> zones, at |-> at]
           q == Observe(e.path, zones, Later(e.begin, at), FALSE, NoEdges)
           u == Append(e.trace, c)
           s == See(e, zones, at)
<1>1. e.path \in Path /\ e.begin \in Time /\ e.trace \in Seq(Change) /\ c \in Change
  BY DEF Tracked, Change
<1>2. Later(e.begin, at) \in Time
  <2>1. at \in Time
    BY PassageAssumption, ModulusAssumption DEF Time
  <2> QED
    BY <1>1, <2>1, LaterType
<1>3. q \in Path /\ Observes(q, e.path, zones, Later(e.begin, at))
  BY <1>1, <1>2, ObserveIs
<1> HIDE DEF c
<1>4. u \in Seq(Change) /\ Extends(u, e.trace, c)
  BY <1>1, AppendIs
<1>5. s = [e EXCEPT !.path = q, !.trace = u]
  BY DEF See, c
<1> HIDE DEF q, u, s
<1>6. s.path = q /\ s.trace = u /\ s.begin = e.begin /\ s \in Tracked
  BY <1>1, <1>3, <1>4, <1>5 DEF Tracked
<1> QED
  BY <1>1, <1>3, <1>4, <1>6 DEF c, s

LEMMA SeeSound ==
  ASSUME NEW e, Sound(e), NEW zones \in SUBSET Zones, zones # Field(e), NEW at \in Lasted(e) .. MaxTime
  PROVE Sound(See(e, zones, at))
<1> DEFINE c == [zones |-> zones, at |-> at]
           s == See(e, zones, at)
           t == e.trace
           u == s.trace
<1>1. /\ e \in Tracked /\ e.path.previous = Field(e) /\ Opened(e.path, t, e.begin)
      /\ Closed(e.path, t, e.begin) /\ SawAll(e.path, t) /\ LastAlone(e.path, t) /\ Ordered(t)
  BY DEF Sound
<1>2. t \in Seq(Change) /\ Len(t) \in Nat /\ (t = <<>> <=> Len(t) = 0)
  BY <1>1 DEF Tracked
<1>3. Len(t) = 0 => Field(e) = {} /\ Lasted(e) = 0
  BY <1>2 DEF Field, Lasted
<1>4. Len(t) > 0 => Field(e) = t[Len(t)].zones /\ Lasted(e) = t[Len(t)].at /\ t[Len(t)] \in Change
  BY <1>2 DEF Field, Lasted, Last
<1>5. at \in 0 .. MaxTime
  <2>1. Lasted(e) \in 0 .. MaxTime \/ Lasted(e) = 0
    BY <1>2, <1>3, <1>4 DEF Change
  <2> QED
    BY <2>1, PassageAssumption DEF Time
<1>6. /\ s \in Tracked /\ s.begin = e.begin /\ c \in Change
      /\ Extends(u, t, c) /\ Observes(s.path, e.path, zones, Later(e.begin, at))
  BY <1>1, <1>5, SeeIs
<1>7. c.zones = zones /\ c.at = at /\ e.path \in Path /\ s.path \in Path
  BY <1>1, <1>6 DEF Tracked
<1>8. (Len(t) = 0 => zones # {}) /\ (Len(t) > 0 => zones # t[Len(t)].zones)
  BY <1>3, <1>4
<1>9. Len(u) = Len(t) + 1 /\ u[Len(u)] = c /\ u # <<>> /\ \A i \in 1 .. Len(t) : u[i] = t[i]
  BY <1>2, <1>6 DEF Extends
<1> HIDE DEF c, s
<1>10. Opened(s.path, u, s.begin)
  BY <1>1, <1>6, <1>7, <1>8, OpenedStays
<1>11. Closed(s.path, u, s.begin)
  BY <1>1, <1>6, <1>7, <1>8, ClosedStays
<1>12. SawAll(s.path, u)
  BY <1>1, <1>6, <1>7, SawStays
<1>13. LastAlone(s.path, u)
  BY <1>1, <1>6, <1>7, LastStays
<1>14. Ordered(u)
  <2> SUFFICES ASSUME NEW i \in 1 .. Len(u) PROVE u[i].at <= at
    BY <1>7, <1>9 DEF Ordered
  <2>1. CASE i = Len(u)
    BY <1>5, <1>7, <1>9, <2>1
  <2>2. CASE i # Len(u)
    <3>1. i \in 1 .. Len(t) /\ Len(t) > 0
      BY <1>2, <1>9, <2>2
    <3>2. u[i] = t[i] /\ t[i].at <= t[Len(t)].at
      BY <1>1, <1>9, <3>1 DEF Ordered
    <3>3. t[i] \in Change /\ t[Len(t)] \in Change
      BY <1>2, <3>1
    <3>4. t[i].at \in 0 .. MaxTime /\ t[Len(t)].at \in 0 .. MaxTime
      BY <3>3 DEF Change
    <3> QED
      BY <1>4, <1>5, <3>1, <3>2, <3>4
  <2> QED
    BY <2>1, <2>2
<1>15. s.path.previous = Field(s)
  BY <1>6, <1>7, <1>9 DEF Observes, Field, Last
<1> QED
  BY <1>6, <1>10, <1>11, <1>12, <1>13, <1>14, <1>15 DEF Sound, s

LEMMA ContinuedSound ==
  ASSUME NEW e, Sound(e), NEW longer \in Continued(e)
  PROVE Sound(longer)
<1>1. PICK zones \in (SUBSET Zones) \ {Field(e)}, at \in Lasted(e) .. MaxTime : longer = See(e, zones, at)
  BY DEF Continued
<1> QED
  BY <1>1, SeeSound

\* The last zone seen alone is what Traversed looks up.
LEMMA LatestIsMax ==
  ASSUME NEW t, Len(t) \in Nat, DOMAIN t = 1 .. Len(t), NEW i \in 1 .. Len(t), Latest(i, t)
  PROVE Max(Alone(t)) = i
<1>1. Alone(t) = {j \in 1 .. Len(t) : t[j].zones \in Single}
  BY DEF Alone, Single
<1>2. i \in Alone(t) /\ \A j \in Alone(t) : j \in Int /\ i >= j
  <2>1. \A j \in 1 .. Len(t) : i >= j \/ j \in i + 1 .. Len(t)
    OBVIOUS
  <2> QED
    BY <1>1, <2>1 DEF Latest
<1>3. \A k \in Alone(t) : (\A j \in Alone(t) : k >= j) => k = i
  BY <1>1, <1>2
<1> QED
  BY <1>2, <1>3 DEF Max

\* A difference of two times of the episode is not lost in the wrap of the clock.
LEMMA LastedExactly ==
  ASSUME NEW begin \in Time, NEW a \in 0 .. MaxTime, NEW b \in 0 .. MaxTime, a <= b
  PROVE Elapsed(Later(begin, a), Later(begin, b)) = b - a
  BY PassageAssumption, ModulusAssumption DEF Time, Elapsed, Later

LEMMA SoundJudged == ASSUME NEW e, Sound(e) PROVE Judged(e)
<1> DEFINE t == e.trace
           p == e.path
           n == Len(e.trace)
<1> SUFFICES ASSUME NEW from \in Single
             PROVE GeometricDirection(p, Shortest) = from <=> Traversed(t, from)
  BY DEF Judged, Single
<1>1. /\ e \in Tracked /\ Opened(p, t, e.begin) /\ Closed(p, t, e.begin)
      /\ SawAll(p, t) /\ LastAlone(p, t) /\ Ordered(t)
  BY DEF Sound
<1>2. /\ t \in Seq(Change) /\ n \in Nat /\ (t = <<>> <=> n = 0) /\ DOMAIN t = 1 .. n
      /\ p \in Path /\ e.begin \in Time
  BY <1>1 DEF Tracked
<1>3. from # {} /\ Zones \ from \in Single /\ Zones \ from # from /\ from \cup (Zones \ from) = Zones /\ from # Zones
  BY ZonesAre
<1>4. GeometricDirection(p, Shortest) = from <=>
        /\ p.visited /\ p.cleared /\ ~p.ambiguous
        /\ p.first = from /\ p.last # {} /\ p.last # from /\ p.seen = Zones
        /\ Elapsed(p.started, p.finished) >= Shortest
  BY <1>3 DEF GeometricDirection
<1>5. n > 0 => Last(t) = t[n]
  BY <1>2 DEF Last
<1>6. \A i \in 1 .. n : t[i] \in Change /\ t[i].zones \subseteq Zones /\ t[i].at \in 0 .. MaxTime
  <2> SUFFICES ASSUME NEW i \in 1 .. n
               PROVE t[i] \in Change /\ t[i].zones \subseteq Zones /\ t[i].at \in 0 .. MaxTime
    OBVIOUS
  <2>1. t[i] \in Change
    BY <1>2
  <2> QED
    BY <2>1 DEF Change
<1>7. Emptied(t) = {i \in 1 .. n : t[i].zones = {}}
  BY DEF Emptied
<1> HIDE DEF t, p, n
<1>8. (n > 0 /\ p.cleared /\ ~p.ambiguous) <=> (n > 0 /\ t[1].zones # Zones /\ Emptied(t) = {n})
  BY <1>1, <1>2, <1>7 DEF Closed, n, t
<1>9. Emptied(t) = {n} <=> n > 0 /\ \A i \in 1 .. n : t[i].zones = {} <=> i = n
  BY <1>2, <1>7
<1>10. ASSUME n > 0, p.cleared, ~p.ambiguous
       PROVE Elapsed(p.started, p.finished) = t[n].at - t[1].at
  <2>1. p.started = Later(e.begin, t[1].at) /\ p.finished = Later(e.begin, t[n].at)
    BY <1>1, <1>10 DEF Opened, Closed, n, t, p
  <2>2. 1 \in 1 .. n /\ n \in 1 .. n
    BY <1>2, <1>10
  <2>3. t[1].at <= t[n].at
    BY <1>1, <2>2 DEF Ordered, n, t
  <2> QED
    BY <1>2, <1>6, <2>1, <2>2, <2>3, LastedExactly
<1>11. ASSUME GeometricDirection(p, Shortest) = from PROVE Traversed(t, from)
  <2>1. n > 0 /\ p.cleared /\ ~p.ambiguous /\ p.first = from /\ p.last # {} /\ p.last # from
    BY <1>1, <1>4, <1>11 DEF Opened, n, t, p
  <2>2. \A i \in DOMAIN t : t[i].zones = {} <=> i = Len(t)
    BY <1>2, <1>8, <1>9, <2>1 DEF n, t
  <2>3. t[1].zones = from
    BY <1>1, <1>3, <2>1 DEF Opened, n, t, p
  <2>4. PICK i \in 1 .. n : Latest(i, t) /\ p.last = t[i].zones
    BY <1>1, <2>1 DEF LastAlone, n, t, p
  <2>5. Max(Alone(t)) = i
    BY <1>2, <2>4, LatestIsMax DEF n, t
  <2>6. t[i].zones \in Single
    BY <2>4 DEF Latest
  <2>7. t[Max(Alone(t))].zones = Zones \ from
    BY <2>1, <2>4, <2>5, <2>6, ZonesAre
  <2>8. Last(t).at - t[1].at >= Shortest
    BY <1>4, <1>5, <1>10, <1>11, <2>1
  <2> QED
    BY <1>2, <2>1, <2>2, <2>3, <2>7, <2>8 DEF Traversed, n, t
<1>12. ASSUME Traversed(t, from) PROVE GeometricDirection(p, Shortest) = from
  <2>1. /\ n > 0 /\ (\A i \in 1 .. n : t[i].zones = {} <=> i = n) /\ t[1].zones = from
        /\ t[Max(Alone(t))].zones = Zones \ from /\ Last(t).at - t[1].at >= Shortest
    BY <1>2, <1>12 DEF Traversed, n, t
  <2>2. p.cleared /\ ~p.ambiguous
    BY <1>3, <1>8, <1>9, <2>1
  <2>3. p.visited /\ p.first = from
    BY <1>1, <1>3, <2>1 DEF Opened, n, t, p
  <2>4. 1 \in 1 .. n
    BY <1>2, <2>1
  <2>5. p.last # {}
    BY <1>1, <2>1, <2>4 DEF LastAlone, n, t, p
  <2>6. PICK i \in 1 .. n : Latest(i, t) /\ p.last = t[i].zones
    BY <1>1, <2>5 DEF LastAlone, n, t, p
  <2>7. p.last = Zones \ from
    BY <1>2, <2>1, <2>6, LatestIsMax DEF n, t
  <2>8. p.seen = Zones
    <3>1. from \subseteq p.seen /\ Zones \ from \subseteq p.seen
      BY <1>1, <2>1, <2>4, <2>6, <2>7 DEF SawAll, n, t, p
    <3>2. p.seen \subseteq Zones
      BY <1>2 DEF Path
    <3> QED
      BY <3>1, <3>2
  <2> QED
    BY <1>3, <1>4, <1>5, <1>10, <2>1, <2>2, <2>3, <2>5, <2>7, <2>8
<1> QED
  BY <1>11, <1>12 DEF t, p

LEMMA JudgedForIs ==
  ASSUME NEW e \in Tracked, NEW n \in 0 .. MaxChanges
  PROVE JudgedFor[n][e] <=> Judged(e) /\ (n > 0 => \A longer \in Continued(e) : JudgedFor[n - 1][longer])
<1> DEFINE Body(g, m, s) == Judged(s) /\ (m > 0 => \A longer \in Continued(s) : g[longer])
           N == MaxChanges
           X == [Tracked -> BOOLEAN]
           start == [s \in Tracked |-> Judged(s)]
           step == [m \in 1 .. N |-> [g \in X |-> [s \in Tracked |-> Body(g, m, s)]]]
           Is(f) == f = [m \in 0 .. N |-> [s \in Tracked |->
                          Judged(s) /\ (m > 0 => \A longer \in Continued(s) : f[m - 1][longer])]]
<1>1. N \in Nat
  BY PassageAssumption
<1>2. start \in X
  BY DEF Judged
<1>3. step \in Changes(N, X)
  BY DEF Changes
<1>4. PICK f : Iterates(f, N, X, start, step)
  <2> HIDE DEF N, X, start, step
  <2> QED
    BY <1>1, <1>2, <1>3, Iterated
<1>5. f \in [0 .. N -> X] /\ f[0] = start /\ \A m \in 1 .. N : f[m] = step[m][f[m - 1]]
  BY <1>4 DEF Iterates
<1>6. \A m \in 1 .. N : f[m] = [s \in Tracked |-> Body(f[m - 1], m, s)]
  <2> SUFFICES ASSUME NEW m \in 1 .. N PROVE f[m] = [s \in Tracked |-> Body(f[m - 1], m, s)]
    OBVIOUS
  <2>1. m - 1 \in 0 .. N
    BY <1>1
  <2>2. f[m - 1] \in X
    BY <1>5, <2>1
  <2> HIDE DEF X, Body
  <2>3. step[m][f[m - 1]] = [s \in Tracked |-> Body(f[m - 1], m, s)]
    BY <2>2
  <2> QED
    BY <1>5, <2>3
<1>7. f[0] = [s \in Tracked |-> Body(f[0 - 1], 0, s)]
  <2>1. f[0] = [s \in Tracked |-> Judged(s)]
    BY <1>5
  <2>2. \A s \in Tracked : Judged(s) = Body(f[0 - 1], 0, s)
    <3>1. \A s \in Tracked : Judged(s) \in BOOLEAN /\ Body(f[0 - 1], 0, s) \in BOOLEAN
      BY DEF Judged
    <3>2. ~(0 > 0)
      OBVIOUS
    <3>3. \A s \in Tracked : Judged(s) <=> Body(f[0 - 1], 0, s)
      BY <3>2
    <3> HIDE DEF Body
    <3> QED
      BY <3>1, <3>3
  <2> HIDE DEF Body
  <2> QED
    BY <2>1, <2>2
<1>8. f = [m \in 0 .. N |-> [s \in Tracked |-> Body(f[m - 1], m, s)]]
  <2>1. \A m \in 0 .. N : m = 0 \/ m \in 1 .. N
    BY <1>1
  <2>2. \A m \in 0 .. N : f[m] = [s \in Tracked |-> Body(f[m - 1], m, s)]
    <3> HIDE DEF Body
    <3> QED
      BY <1>6, <1>7, <2>1
  <2> HIDE DEF Body, X
  <2> QED
    BY <1>5, <2>2
<1>9. Is(f)
  BY <1>8
<1>10. JudgedFor = CHOOSE g : Is(g)
  BY DEF JudgedFor
<1>11. Is(JudgedFor)
  <2> HIDE DEF Is
  <2> QED
    BY <1>9, <1>10
<1>12. PICK j : j = JudgedFor
  OBVIOUS
<1>13. j = [m \in 0 .. N |-> [s \in Tracked |->
              Judged(s) /\ (m > 0 => \A longer \in Continued(s) : j[m - 1][longer])]]
  BY <1>11, <1>12
<1>14. j[n][e] <=> Body(j[n - 1], n, e)
  <2>1. j = [m \in 0 .. N |-> [s \in Tracked |-> Body(j[m - 1], m, s)]]
    BY <1>13
  <2> HIDE DEF Body
  <2>2. j[n] = [s \in Tracked |-> Body(j[n - 1], n, s)]
    BY <2>1
  <2>3. j[n][e] = Body(j[n - 1], n, e)
    BY <2>2
  <2> QED
    BY <2>3
<1> QED
  BY <1>12, <1>14

\* However many changes follow, a sound episode is judged as its trace shows.
LEMMA SoundJudgedFor ==
  ASSUME NEW n \in 0 .. MaxChanges
  PROVE \A e : Sound(e) => JudgedFor[n][e]
<1> DEFINE S == {m \in 0 .. MaxChanges : \A e : Sound(e) => JudgedFor[m][e]}
<1>1. MaxChanges \in Nat /\ 0 \in 0 .. MaxChanges
  BY PassageAssumption
<1>2. 0 \in S
  <2> SUFFICES ASSUME NEW e, Sound(e) PROVE JudgedFor[0][e]
    BY <1>1
  <2>1. e \in Tracked
    BY DEF Sound
  <2> QED
    BY <1>1, <2>1, JudgedForIs, SoundJudged
<1>3. ASSUME NEW m \in 1 .. MaxChanges, m - 1 \in S PROVE m \in S
  <2>1. m \in 0 .. MaxChanges
    BY <1>1
  <2> SUFFICES ASSUME NEW e, Sound(e) PROVE JudgedFor[m][e]
    BY <2>1
  <2>2. e \in Tracked
    BY DEF Sound
  <2>3. \A longer \in Continued(e) : JudgedFor[m - 1][longer]
    BY <1>3, ContinuedSound
  <2> QED
    BY <2>1, <2>2, <2>3, JudgedForIs, SoundJudged
<1> HIDE DEF S
<1>4. \A m \in 0 .. MaxChanges : m \in S
  <2>1. S \in SUBSET (0 .. MaxChanges)
    BY DEF S
  <2> QED
    BY <1>1, <1>2, <1>3, <2>1, Stepwise
<1> QED
  BY <1>4 DEF S

-----------------------------------------------------------------------------
(* The calls that update_detection_state_machine_ makes.                   *)

Calls == now \in Time /\ field \in [Sensors -> SUBSET Zones] /\ previous_healthy \subseteq Sensors

\* Each is one of Fusion's, so what is proved of those is true of it.
LEMMA CallIsUpdate ==
  ASSUME Calls, field' \in [Sensors -> SUBSET Zones], NEW healthy \in SUBSET Sensors,
         NEW fresh \in [Sensors -> SUBSET Zones], NEW unsettled \in BOOLEAN,
         Call(healthy, fresh, unsettled)
  PROVE HNext /\ Calls'
<1> DEFINE in == [healthy |-> healthy, states |-> field', fresh |-> fresh, unsettled |-> unsettled,
                  edges |-> [s \in Sensors |-> NoEdges]]
<1>1. PICK step \in Steps : HUpdate(in, step)
  BY DEF Call
<1>2. in \in Input
  BY NoPathType DEF Input, NoPath, Path
<1>3. now' = Later(now, step) /\ previous_healthy' = healthy
  BY <1>1 DEF HUpdate, Update
<1>4. now' \in Time
  BY <1>3, Settings, LaterType DEF Calls
<1> HIDE DEF in
<1> QED
  BY <1>1, <1>2, <1>3, <1>4 DEF HNext, Calls

LEMMA InitCalls == MCInit => HInit /\ Calls
  BY TimeIsNat, NoSamplesType DEF MCInit, HInit, Init, Fresh, Calls

LEMMA NextCalls == ASSUME Calls, [MCNext]_mcvars PROVE [HNext]_hvars /\ Calls'
<1>1. ASSUME NEW s \in Sensors, NEW z \in Zones, Sample(s, z) PROVE HNext /\ Calls'
  <2>1. field' \in [Sensors -> SUBSET Zones]
    BY <1>1 DEF Sample, Calls
  <2>2. [NoSamples EXCEPT ![s] = {z}] \in [Sensors -> SUBSET Zones]
    BY NoSamplesType
  <2> QED
    BY <1>1, <2>1, <2>2, CallIsUpdate DEF Sample, Calls
<1>2. ASSUME NEW s \in Sensors, Fail(s) PROVE HNext /\ Calls'
  <2>1. field' \in [Sensors -> SUBSET Zones] /\ previous_healthy \ {s} \in SUBSET Sensors
    BY <1>2 DEF Fail, Calls
  <2> QED
    BY <1>2, <2>1, NoSamplesType, CallIsUpdate DEF Fail
<1>3. ASSUME NEW s \in Sensors, Recover(s) PROVE HNext /\ Calls'
  <2>1. field' \in [Sensors -> SUBSET Zones] /\ previous_healthy \cup {s} \in SUBSET Sensors
    BY <1>3 DEF Recover, Calls
  <2> QED
    BY <1>3, <2>1, NoSamplesType, CallIsUpdate DEF Recover
<1>4. ASSUME AwaitSecondSample \/ NothingNew PROVE HNext /\ Calls'
  <2>1. field' \in [Sensors -> SUBSET Zones] /\ previous_healthy \in SUBSET Sensors
    BY <1>4 DEF AwaitSecondSample, NothingNew, Calls
  <2>2. \E unsettled \in BOOLEAN : Call(previous_healthy, NoSamples, unsettled)
    BY <1>4 DEF AwaitSecondSample, NothingNew
  <2> QED
    BY <2>1, <2>2, NoSamplesType, CallIsUpdate
<1>5. ASSUME Forget PROVE HNext /\ Calls'
  BY <1>5, NoSamplesType DEF Forget, HReset, Reset, HNext, Calls
<1>6. ASSUME UNCHANGED mcvars PROVE UNCHANGED hvars /\ Calls'
  BY <1>6 DEF mcvars, hvars, vars, fusion, Calls
<1> QED
  BY <1>1, <1>2, <1>3, <1>4, <1>5, <1>6 DEF MCNext

LEMMA CallsHold == MCSpec => []Calls /\ HSpec
<1>1. MCInit => HInit /\ Calls
  BY InitCalls
<1>2. Calls /\ [MCNext]_mcvars => Calls' /\ [HNext]_hvars
  BY NextCalls
<1> QED
  BY <1>1, <1>2, PTL DEF MCSpec, HSpec

\* The calls of update_detection_state_machine_ are among those that the theorems
\* about Fusion cover.
THEOREM CallsAreCovered == MCSpec => HSpec
  BY CallsHold, PTL

\* For every clock, every number of changes of a field and every length of an
\* episode: the track of a sensor votes for a side exactly when its list shows a
\* passage from there (Path::observe, Path::geometric_direction).
THEOREM VotesAreTraverses == MCSpec => []VoteIsTraverse
<1>1. Calls => VoteIsTraverse
  <2> SUFFICES ASSUME Calls PROVE JudgedFrom[now]
    BY DEF VoteIsTraverse
  <2>1. now \in Time
    BY DEF Calls
  <2>2. MaxChanges \in 0 .. MaxChanges
    BY PassageAssumption
  <2>3. JudgedFor[MaxChanges][Start(now)]
    BY <2>1, <2>2, StartSound, SoundJudgedFor
  <2> QED
    BY <2>1, <2>3 DEF JudgedFrom
<1> QED
  BY <1>1, CallsHold, PTL
=============================================================================
