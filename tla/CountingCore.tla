---------------------------- MODULE CountingCore ----------------------------
(***************************************************************************)
(* The pure part of components/counting_core/counting_core.h: arithmetic   *)
(* on 32-bit timestamps, the bracket of a threshold crossing, the debounce *)
(* of one ranging zone and the track of one sensor through an episode.     *)
(*                                                                         *)
(* A zone bit mask is a subset of Zones: 0 is {}, 1 is {"OUT"}, 2 is       *)
(* {"IN"}, 3 is Zones.  Every value the C++ types as a mask (states, first,*)
(* last, seen, votes) is such a set here.                                  *)
(***************************************************************************)
EXTENDS Integers

CONSTANT Modulus  \* 2^32 in the firmware: millis() is a uint32_t

\* The modulus is even, so that half of it splits the int32_t sign.
ASSUME ModulusAssumption ==
  /\ Modulus \in Nat
  /\ \E half \in 1 .. Modulus : Modulus = half + half

Time == 0 .. Modulus - 1

\* uint32_t "to - from".
Elapsed(from, to) == IF to >= from THEN to - from ELSE to - from + Modulus

\* uint32_t "t + d" for a d below the modulus.
Later(t, d) == IF t + d < Modulus THEN t + d ELSE t + d - Modulus

\* static_cast<int32_t>(x)
Signed(x) == IF x + x < Modulus THEN x ELSE x - Modulus

ZONE_OUT == "OUT"
ZONE_IN  == "IN"
Zones == {ZONE_OUT, ZONE_IN}

-----------------------------------------------------------------------------
(* Crossing: the last sample on the old side and the first on the new.     *)

Crossing == [lower : Time, upper : Time, valid : BOOLEAN]
NoCrossing == [lower |-> 0, upper |-> 0, valid |-> FALSE]

CrossingBefore(a, b) ==
  a.valid /\ b.valid /\ Signed(Elapsed(a.upper, b.lower)) > 0

\* crossing_order over the two zones' edges: the zone crossed first, or {}.
\* The second test of the code is reached only when the first one fails.
FirstCrossed(edges) ==
  IF CrossingBefore(edges[ZONE_OUT], edges[ZONE_IN]) THEN {ZONE_OUT}
  ELSE IF CrossingBefore(edges[ZONE_IN], edges[ZONE_OUT]) THEN {ZONE_IN} ELSE {}

-----------------------------------------------------------------------------
(* Debounce: a change of side needs a second sample on the new side, at    *)
(* least hold ms after the first.  hits is only ever compared with zero.   *)

Debounce == [active : BOOLEAN, candidate : BOOLEAN, since : Time, hits : BOOLEAN,
             crossing : Crossing, last_stable : Time, candidate_lower : Time,
             have_stable : BOOLEAN, candidate_bounded : BOOLEAN]

NoDebounce == [active |-> FALSE, candidate |-> FALSE, since |-> 0, hits |-> FALSE,
               crossing |-> NoCrossing, last_stable |-> 0, candidate_lower |-> 0,
               have_stable |-> FALSE, candidate_bounded |-> FALSE]

Stable(d, sample_started) ==
  [d EXCEPT !.hits = FALSE, !.last_stable = sample_started, !.have_stable = TRUE]

Candidate(d, target, at) ==
  [d EXCEPT !.candidate = target, !.since = at, !.hits = TRUE,
            !.candidate_lower = d.last_stable, !.candidate_bounded = d.have_stable]

Switched(d, target, sample_started) ==
  [Stable(d, sample_started) EXCEPT
     !.active = target,
     !.crossing = [lower |-> d.candidate_lower, upper |-> d.since,
                   valid |-> d.candidate_bounded]]

\* Mutant: the first sample on the other side decides.
DebouncedAtOnce(d, target, at, hold, sample_started) ==
  IF target = d.active THEN Stable(d, sample_started) ELSE Switched(d, target, sample_started)

\* Debounce::update; it returns true exactly when the active side changed.
Debounced(d, target, at, hold, sample_started) ==
  CASE target = d.active -> Stable(d, sample_started)
    [] target # d.active /\ (~d.hits \/ target # d.candidate) -> Candidate(d, target, at)
    [] OTHER -> IF Elapsed(d.since, at) < hold THEN d
                ELSE Switched(d, target, sample_started)

-----------------------------------------------------------------------------
(* Path: everything one sensor saw from the start of an episode until the  *)
(* doorway is confirmed clear.                                             *)

Edges == [Zones -> Crossing]
NoEdges == [z \in Zones |-> NoCrossing]

Path == [first : SUBSET Zones, last : SUBSET Zones, seen : SUBSET Zones,
         previous : SUBSET Zones, ambiguous : BOOLEAN, cleared : BOOLEAN,
         visited : BOOLEAN, started : Time, finished : Time,
         rises : Edges, falls : Edges, timed : BOOLEAN]

NoPath == [first |-> {}, last |-> {}, seen |-> {}, previous |-> {},
           ambiguous |-> FALSE, cleared |-> FALSE, visited |-> FALSE,
           started |-> 0, finished |-> 0,
           rises |-> NoEdges, falls |-> NoEdges, timed |-> FALSE]

\* The edges of the zones in changed replace the recorded ones.
Recorded(kept, changed, edges) == [z \in Zones |-> IF z \in changed THEN edges[z] ELSE kept[z]]

\* Mutant: somebody who comes back into the field continues the same track.
ObserveReentry(p, state, at, timed, edges) ==
  LET opening == state # {} /\ ~p.visited
      closing == state = {} /\ p.visited
      single  == state \notin {{}, Zones}
  IN IF state = p.previous THEN p
     ELSE [p EXCEPT
       !.previous  = state,
       !.timed     = @ \/ timed,
       !.cleared   = @ \/ closing,
       !.finished  = IF closing THEN at ELSE @,
       !.ambiguous = @ \/ (opening /\ ~single),
       !.visited   = @ \/ opening,
       !.started   = IF opening THEN at ELSE @,
       !.first     = IF opening /\ single THEN state ELSE @,
       !.seen      = @ \cup state,
       !.last      = IF single THEN state ELSE @]

\* Path::observe; timed says whether the caller passed edges at all.
Observe(p, state, at, timed, edges) ==
  LET opening == state # {} /\ ~p.visited
      closing == state = {} /\ p.visited
      single  == state \notin {{}, Zones}
  IN IF state = p.previous THEN p
     ELSE [p EXCEPT
       !.previous  = state,
       !.timed     = @ \/ timed,
       !.rises     = IF timed THEN Recorded(@, state \ p.previous, edges) ELSE @,
       !.falls     = IF timed THEN Recorded(@, p.previous \ state, edges) ELSE @,
       !.cleared   = @ \/ closing,
       !.finished  = IF closing THEN at ELSE @,
       !.ambiguous = @ \/ (state # {} /\ p.cleared) \/ (opening /\ ~single),
       !.visited   = @ \/ opening,
       !.started   = IF opening THEN at ELSE @,
       !.first     = IF opening /\ single THEN state ELSE @,
       !.seen      = @ \cup state,
       !.last      = IF single THEN state ELSE @]

\* Path::geometric_direction: the side the track began on, or {} for no vote.
GeometricDirection(p, minimum_ms) ==
  IF /\ p.visited /\ p.cleared /\ ~p.ambiguous
     /\ p.first # {} /\ p.last # {} /\ p.first # p.last /\ p.seen = Zones
     /\ Elapsed(p.started, p.finished) >= minimum_ms
  THEN p.first ELSE {}

\* Path::direction: timing may withhold the geometric vote, never turn it.
TimingAgrees(p, vote) ==
  LET entering == FirstCrossed(p.rises)
      leaving  == FirstCrossed(p.falls)
  IN /\ entering # {} \/ leaving # {}
     /\ entering \in {{}, vote}
     /\ leaving \in {{}, vote}

Direction(p, minimum_ms) ==
  LET vote == GeometricDirection(p, minimum_ms)
  IN IF vote # {} /\ p.timed /\ ~TimingAgrees(p, vote) THEN {} ELSE vote
=============================================================================
