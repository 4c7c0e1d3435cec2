------------------------------ MODULE Passage ------------------------------
(***************************************************************************)
(* The track of one sensor through one episode, counting_core::Path, next  *)
(* to the list of everything the sensor saw.  The reference definition of  *)
(* a passage reads that list; the path keeps a few bytes of it.            *)
(***************************************************************************)
EXTENDS CountingCore, SequencesExt, FiniteSetsExt

CONSTANTS
  Shortest,   \* minimum_ms
  MaxChanges, \* bound: how often the field changes in the episode
  MaxTime     \* bound: how long it lasts

ASSUME PassageAssumption ==
  Shortest \in Nat /\ MaxChanges \in Nat /\ MaxTime \in Time

\* An episode that began at a time of the firmware's clock: its path, and every
\* change of the field, with the zones occupied and when.  A call that finds the
\* field as it was changes neither.
Change == [zones : SUBSET Zones, at : 0 .. MaxTime]
Tracked == [path : Path, begin : Time, trace : Seq(Change)]
Start(begin) == [path |-> NoPath, begin |-> begin, trace |-> <<>>]
Field(e) == IF e.trace = <<>> THEN {} ELSE Last(e.trace).zones
Lasted(e) == IF e.trace = <<>> THEN 0 ELSE Last(e.trace).at

See(e, zones, at) ==
  [e EXCEPT !.path = Observe(@, zones, Later(e.begin, at), FALSE, NoEdges),
            !.trace = Append(@, [zones |-> zones, at |-> at])]

Continued(e) ==
  {See(e, zones, at) : zones \in (SUBSET Zones) \ {Field(e)}, at \in Lasted(e) .. MaxTime}

-----------------------------------------------------------------------------
\* Somebody came in on one side, never left both zones until the end, and was
\* last seen alone on the other side.
Alone(trace) == {i \in DOMAIN trace : trace[i].zones \in {{ZONE_OUT}, {ZONE_IN}}}

Traversed(trace, from) ==
  /\ trace # <<>>
  /\ \A i \in DOMAIN trace : trace[i].zones = {} <=> i = Len(trace)
  /\ trace[1].zones = from
  /\ trace[Max(Alone(trace))].zones = Zones \ from
  /\ Last(trace).at - trace[1].at >= Shortest

Judged(e) ==
  \A from \in {{ZONE_OUT}, {ZONE_IN}} :
    GeometricDirection(e.path, Shortest) = from <=> Traversed(e.trace, from)

\* Whether the path of an episode votes for what its trace shows, now and after
\* each number of further changes.
JudgedFor ==
  LET judged[n \in 0 .. MaxChanges] ==
        [e \in Tracked |-> Judged(e) /\ (n > 0 => \A longer \in Continued(e) : judged[n - 1][longer])]
  IN judged

\* The same of every episode that begins at a time.
JudgedFrom == [begin \in Time |-> JudgedFor[MaxChanges][Start(begin)]]
=============================================================================
