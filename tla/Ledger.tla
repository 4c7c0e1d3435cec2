------------------------------- MODULE Ledger -------------------------------
(***************************************************************************)
(* What the device promises of its counts, with flash layouts, settings    *)
(* and calibrations left out: a count changes by a passage or an operator, *)
(* and a restart gives back a state that was saved.  Node implements this. *)
(***************************************************************************)
EXTENDS Integers

CONSTANT People, Totals  \* the values of a count: a range of numbers from 0

VARIABLES
  tally,   \* the counts, and while the device starts, those it will restore
  saved,   \* what a restart in good order gives back
  written  \* what a loss of power gives back

vars == <<tally, saved, written>>

Counts == [people : People, confirmed : Totals]
Zero == [people |-> 0, confirmed |-> 0]

Init == tally \in Counts /\ saved = tally /\ written = tally

\* Somebody passes, or an operator resets the counts or corrects the people inside.
Passage(from, to) ==
  /\ to.confirmed = from.confirmed + 1
  /\ to.people \in (from.people - 1) .. (from.people + 1)

Corrected(from, to) == to = Zero \/ to.confirmed = from.confirmed

Change ==
  /\ tally' \in Counts /\ (Passage(tally, tally') \/ Corrected(tally, tally'))
  /\ saved' \in {saved, tally'}
  /\ UNCHANGED written

Save == saved' = tally /\ UNCHANGED <<tally, written>>
Write == written' = saved /\ UNCHANGED <<tally, saved>>

\* Whatever restarts the device, it comes up with counts it had before.
Restart == \E counts \in {tally, saved, written} :
  tally' = counts /\ saved' = counts /\ written' = counts

Next == Change \/ Save \/ Write \/ Restart

Spec == Init /\ [][Next]_vars
=============================================================================
