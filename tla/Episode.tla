------------------------------ MODULE Episode ------------------------------
(***************************************************************************)
(* What the counting core promises of a doorway, with sensors, health and  *)
(* clocks left out: a verdict closes exactly one episode, an episode opens *)
(* only in an armed doorway, and a doorway is armed only while it is       *)
(* confirmed empty.  Fusion implements this specification.                 *)
(***************************************************************************)

VARIABLES
  phase,    \* "unarmed", "armed" or "episode"
  verdict   \* the decision the last step delivered, "NONE" for none

vars == <<phase, verdict>>

Phases == {"unarmed", "armed", "episode"}
Directions == {"IN", "OUT", "UNSURE_IN", "UNSURE_OUT"}
Verdicts == Directions \cup {"REJECTED", "NONE"}

Init == phase = "unarmed" /\ verdict = "NONE"

\* Nothing to report; an unarmed doorway stays unarmed while it is occupied.
Wait == UNCHANGED phase /\ verdict' = "NONE"

\* The doorway has been confirmed empty.
Arm == phase \in {"unarmed", "armed"} /\ phase' = "armed" /\ verdict' = "NONE"

\* Somebody enters an armed doorway.
Enter == phase = "armed" /\ phase' = "episode" /\ verdict' = "NONE"

\* The doorway is confirmed empty again: the episode gets its one verdict.
Conclude ==
  /\ phase = "episode"
  /\ phase' = "armed"
  /\ verdict' \in Verdicts \ {"NONE"}

\* Too few healthy sensors: a running episode is rejected, never counted.
Disarm ==
  /\ phase' = "unarmed"
  /\ verdict' = IF phase = "episode" THEN "REJECTED" ELSE "NONE"

\* An operator's change of settings forgets the episode without a verdict.
Forget == phase' = "unarmed" /\ verdict' = "NONE"

Next == Wait \/ Arm \/ Enter \/ Conclude \/ Disarm \/ Forget

Spec == Init /\ [][Next]_vars
=============================================================================
