---------------------------- MODULE MCZoneSignal ----------------------------
(***************************************************************************)
(* Small instances of ZoneSignal with its observer.                        *)
(***************************************************************************)
EXTENDS ZoneHistory

\* What ZoneSignalProofs supposes of the deltas is true of these instances.
ASSUME InstanceAssumption == SmoothingIsWeak /\ Baseline - MinDistance > ReleaseDelta

\* What the future and the properties depend on: a time that is written before it
\* is read again counts as 0, and the bounds of a crossing are only passed on.
Ago(t, live) == IF live THEN Elapsed(t, now) ELSE 0

RelevantState ==
  <<samples, filtered, valid, dropout, last_good,
    debounce.candidate, debounce.hits, Ago(debounce.since, debounce.hits),
    active, near_pending, Ago(near_since, near_pending), blocked,
    recent, age, rejected, now>>
=============================================================================
