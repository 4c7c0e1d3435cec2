------------------------------ MODULE MCFusion ------------------------------
(***************************************************************************)
(* Small instances of Fusion with its observer, called the way             *)
(* update_detection_state_machine_ calls it: between two calls one sensor  *)
(* delivers one sample of one zone, or nothing new, or its health changes. *)
(* Calls zero milliseconds apart stand for what one call may bring at once.*)
(***************************************************************************)
EXTENDS FusionHistory, Passage, TLC

VARIABLE field  \* the debounced zones of each sensor, {} while unhealthy

mcvars == <<hvars, field>>

Call(healthy, fresh, unsettled) ==
  \E step \in Steps :
    HUpdate([healthy |-> healthy, states |-> field', fresh |-> fresh, unsettled |-> unsettled,
             edges |-> [s \in Sensors |-> NoEdges]], step)

\* A valid sample of zone z confirms the zone's side, or completes a change.
Sample(s, z) ==
  /\ s \in previous_healthy
  /\ \E side \in {{}, {z}} : field' = [field EXCEPT ![s] = (@ \ {z}) \cup side]
  /\ Call(previous_healthy, [NoSamples EXCEPT ![s] = {z}], FALSE)

\* A first sample on the other side awaits its confirmation.
AwaitSecondSample == UNCHANGED field /\ Call(previous_healthy, NoSamples, TRUE)

NothingNew == UNCHANGED field /\ Call(previous_healthy, NoSamples, FALSE)

\* A sensor becomes stale, blocked or faulty.
Fail(s) ==
  /\ s \in previous_healthy
  /\ field' = [field EXCEPT ![s] = {}]
  /\ Call(previous_healthy \ {s}, NoSamples, FALSE)

\* It recovers with an empty field, or an uncovered sensor with both active.
Recover(s) ==
  /\ s \notin previous_healthy
  /\ \E f \in {{}, Zones} : field' = [field EXCEPT ![s] = f]
  /\ Call(previous_healthy \cup {s}, NoSamples, FALSE)

MCInit == HInit /\ field = NoSamples

Forget == HReset /\ field' = NoSamples

MCNext ==
  \/ \E s \in Sensors, z \in Zones : Sample(s, z)
  \/ \E s \in Sensors : Fail(s) \/ Recover(s)
  \/ AwaitSecondSample
  \/ NothingNew
  \/ Forget

MCSpec == MCInit /\ [][MCNext]_mcvars

Symmetry == Permutations(Sensors)

\* The path of an episode that begins now votes for a side exactly when somebody
\* passes from there: a turn, a return before the doorway was empty, a start in
\* both zones and a track of unfinished length give no vote, however often the
\* firmware polls.
VoteIsTraverse == JudgedFrom[now]

\* What the future and the properties depend on.  Times are only ever compared
\* with the clock, so a shift of all of them makes no difference; a time that is
\* written before it is read again counts as 0; and an ambiguous track never
\* votes, so it does not matter what else it recorded.
Ago(t, live) == IF live THEN Elapsed(t, now) ELSE 0

Relevant(p) ==
  IF p.ambiguous THEN [NoPath EXCEPT !.ambiguous = TRUE]
  ELSE [p EXCEPT !.started = Ago(@, p.visited), !.finished = Ago(@, p.cleared)]

RelevantState ==
  <<[s \in Sensors |-> Relevant(paths[s])],
    active, armed, clear_pending, Ago(started, active), Ago(clear_since, clear_pending),
    previous_healthy, clear_samples, eligible, result,
    quiet, quiet_for, sampled, whole, field,
    IF active THEN lasted ELSE 0,
    [s \in Sensors |-> IF paths[s].ambiguous \/ (~active /\ result = NoResult) THEN <<>>
                       ELSE <<touched[s], left[s]>>]>>
=============================================================================
