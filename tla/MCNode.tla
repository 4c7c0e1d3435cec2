------------------------------- MODULE MCNode -------------------------------
(* One device as its owner may find it: flash empty or written by this or   *)
(* an earlier layout, and settings that exceed what the page allows.        *)
EXTENDS Node

Layout(version, calibration, inside, most, drop, rise) ==
  [version |-> version, people |-> inside, confirmed |-> 1, max_people |-> most,
   trigger |-> drop, release |-> rise, auto_save |-> TRUE, calibrated |-> calibration]

MCFound == {NOTHING,
            Layout(7, "mixed", 3, 1, 100, 500),
            Layout(4, "mixed", 3, 1, 100, 500)}

MCRequests ==
  {[trigger |-> 40, release |-> 900, max_people |-> 0, auto_save |-> FALSE]}
=============================================================================
