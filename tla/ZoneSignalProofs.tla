-------------------------- MODULE ZoneSignalProofs --------------------------
(***************************************************************************)
(* One ranging zone, for any clock, any thresholds and times and any       *)
(* order of results, rejections and losses: a covered field is occupied,   *)
(* nobody is seen on old evidence, and each change of side rests on two    *)
(* raw results: without a median window on two since the field was lost,   *)
(* with a window of three or more on two in the window.                    *)
(***************************************************************************)
EXTENDS ZoneHistory, TLAPS, FiniteSetTheorems, SequenceTheorems, WellFoundedInduction

LEMMA Settings ==
  /\ SamplingSize \in 1 .. 8
  /\ Baseline \in Nat /\ TriggerDelta \in Nat /\ ReleaseDelta \in Nat /\ MinDistance \in Nat
  /\ ReleaseDelta < TriggerDelta
  /\ DebounceMs \in Time /\ HoldMs \in Time /\ StaleMs \in Time /\ HoldMs <= StaleMs
  /\ Distances \subseteq 0 .. Baseline + Baseline - 1
  /\ Steps \subseteq Time /\ \A step \in Steps : StaleMs + step < Modulus
  /\ Oldest \in Nat /\ StaleMs < Oldest
  BY ZoneSignalAssumption, PassAssumption, OldestAssumption

-----------------------------------------------------------------------------
(* The clock.                                                              *)

\* The clock and the differences of two readings are readings again.
LEMMA TimeIsNat == Modulus \in Nat /\ Modulus # 0 /\ 0 \in Time /\ Time \subseteq Nat
  BY ModulusAssumption DEF Time

LEMMA ElapsedType == ASSUME NEW from \in Time, NEW to \in Time PROVE Elapsed(from, to) \in Time
  BY ModulusAssumption DEF Time, Elapsed

LEMMA LaterType == ASSUME NEW t \in Time, NEW d \in Time PROVE Later(t, d) \in Time
  BY ModulusAssumption DEF Time, Later

\* Less than a turn of the clock from a time, its age grows by exactly the step.
LEMMA ElapsedExactly ==
  ASSUME NEW t \in Time, NEW at \in Time, NEW d \in Time, Elapsed(t, at) + d < Modulus
  PROVE Elapsed(t, Later(at, d)) = Elapsed(t, at) + d
  BY ModulusAssumption DEF Time, Elapsed, Later

LEMMA ElapsedFromItself == ASSUME NEW t \in Time PROVE Elapsed(t, t) = 0
  BY ModulusAssumption DEF Time, Elapsed

-----------------------------------------------------------------------------
(* What a pass does to the debounce.                                       *)

\* Debounce::update keeps the side, begins or keeps a candidate, or changes the
\* side: to that of the sample, which a candidate has announced before.
LEMMA DebounceSteps ==
  ASSUME NEW d, NEW target, NEW at, NEW hold, NEW sample_started
  PROVE LET e == Debounced(d, target, at, hold, sample_started)
        IN \/ target = d.active /\ e = Stable(d, sample_started)
           \/ target # d.active /\ e = Candidate(d, target, at)
           \/ target # d.active /\ d.hits /\ target = d.candidate /\ e = d
           \/ target # d.active /\ d.hits /\ target = d.candidate /\ e = Switched(d, target, sample_started)
  BY DEF Debounced

\* Deciding keeps the debounce a debounce, and never leaves it as new: whoever
\* sees a new one knows that the field was lost.
LEMMA DebouncedType ==
  ASSUME NEW d \in Debounce, NEW target \in BOOLEAN, NEW at \in Time, NEW hold, NEW sample_started \in Time
  PROVE /\ Debounced(d, target, at, hold, sample_started) \in Debounce
        /\ Debounced(d, target, at, hold, sample_started) # NoDebounce
<1> DEFINE e == Debounced(d, target, at, hold, sample_started)
<1>1. Stable(d, sample_started) \in Debounce /\ Stable(d, sample_started).have_stable
  BY DEF Stable, Debounce
<1>2. Candidate(d, target, at) \in Debounce /\ Candidate(d, target, at).hits
  BY DEF Candidate, Debounce
<1>3. Switched(d, target, sample_started) \in Debounce /\ Switched(d, target, sample_started).have_stable
  BY DEF Switched, Stable, Debounce, Crossing
<1>4. ~NoDebounce.hits /\ ~NoDebounce.have_stable
  BY DEF NoDebounce
<1> QED
  BY <1>1, <1>2, <1>3, <1>4, DebounceSteps

LEMMA NoDebounceType == NoDebounce \in Debounce /\ NoDebounce.active = FALSE /\ NoDebounce.hits = FALSE
  BY TimeIsNat DEF NoDebounce, Debounce, NoCrossing, Crossing

-----------------------------------------------------------------------------
(* The zone alone: types, and a covered field is occupied.                 *)

Types ==
  /\ now \in Time /\ last_good \in Time /\ near_since \in Time
  /\ valid \in BOOLEAN /\ dropout \in BOOLEAN /\ active \in BOOLEAN
  /\ near_pending \in BOOLEAN /\ blocked \in BOOLEAN
  /\ debounce \in Debounce /\ active = debounce.active

ZoneInv == Types /\ CoveredIsOccupied

LEMMA InitZone == Init => ZoneInv
  BY TimeIsNat, NoDebounceType DEF Init, ZoneInv, Types, CoveredIsOccupied

LEMMA PassType == ASSUME Types, NEW step \in Steps, Pass(step) PROVE now' \in Time
  BY Settings, LaterType DEF Types, Pass

\* The field is lost, held or decided.
LEMMA WipeZone ==
  ASSUME ZoneInv, Wipe, now' \in Time, last_good' \in Time, valid' \in BOOLEAN, dropout' \in BOOLEAN
  PROVE ZoneInv'
  BY NoDebounceType DEF ZoneInv, Types, CoveredIsOccupied, Wipe

LEMMA HoldZone ==
  ASSUME ZoneInv, Hold, now' \in Time, last_good' \in Time, valid' \in BOOLEAN, dropout' \in BOOLEAN
  PROVE ZoneInv'
  BY DEF ZoneInv, Types, CoveredIsOccupied, Hold

LEMMA DecideZone ==
  ASSUME ZoneInv, NEW distance, Decide(distance, now),
         now' \in Time, last_good' \in Time, valid' \in BOOLEAN, dropout' \in BOOLEAN
  PROVE ZoneInv' /\ debounce' # NoDebounce
<1>1. Target \in BOOLEAN
  BY DEF Target
<1>2. debounce' \in Debounce /\ debounce' # NoDebounce
  BY <1>1, DebouncedType DEF Decide, ZoneInv, Types
<1>3. active' = debounce'.active /\ active' \in BOOLEAN
  BY <1>2 DEF Decide, Debounce
<1>4. near_pending' \in BOOLEAN /\ blocked' \in BOOLEAN /\ near_since' \in Time
  BY <1>3 DEF Decide, Cover, ZoneInv, Types
<1>5. CoveredIsOccupied'
  BY <1>3 DEF Decide, Cover, CoveredIsOccupied
<1> QED
  BY <1>2, <1>3, <1>4, <1>5 DEF ZoneInv, Types

LEMMA NextZone == ASSUME ZoneInv, [Next]_vars PROVE ZoneInv'
<1>1. ASSUME NEW step \in Steps, NEW lost \in BOOLEAN, NEW distance \in Distances, Result(distance, step, lost)
      PROVE ZoneInv'
  BY <1>1, PassType, WipeZone, DecideZone DEF Result, ReadValid, ZoneInv, Types
<1>2. ASSUME NEW step \in Steps, NEW lost \in BOOLEAN, NEW optical \in BOOLEAN, Rejection(optical, step, lost)
      PROVE ZoneInv'
  BY <1>2, PassType, WipeZone, HoldZone DEF Rejection, ReadRejected, ZoneInv, Types
<1>3. ASSUME NEW step \in Steps, NEW lost \in BOOLEAN, Nothing(step, lost)
      PROVE ZoneInv'
  BY <1>3, PassType, WipeZone, HoldZone DEF Nothing, ReadNothing, ZoneInv, Types
<1>4. ASSUME NEW step \in Steps, PowerCycle(step)
      PROVE ZoneInv'
  BY <1>4, PassType, NoDebounceType, TimeIsNat DEF PowerCycle, ZoneInv, Types, CoveredIsOccupied
<1>5. CASE UNCHANGED vars
  BY <1>5 DEF vars, zone, ZoneInv, Types, CoveredIsOccupied
<1> QED
  BY <1>1, <1>2, <1>3, <1>4, <1>5 DEF Next

\* A field is reported as covered only while somebody is seen in it and very near.
THEOREM CoverIsPresence == Spec => []CoveredIsOccupied
<1>1. Init => ZoneInv
  BY InitZone
<1>2. ZoneInv /\ [Next]_vars => ZoneInv'
  BY NextZone
<1>3. ZoneInv => CoveredIsOccupied
  BY DEF ZoneInv
<1> QED
  BY <1>1, <1>2, <1>3, PTL DEF Spec

LEMMA HistoryRefines == HSpec => Spec
<1>1. HInit => Init
  BY DEF HInit
<1>2. [HNext]_hvars => [Next]_vars
  BY DEF HNext, HResult, HRejection, HNothing, HPowerCycle, Next, hvars
<1> QED
  BY <1>1, <1>2, PTL DEF HSpec, Spec

LEMMA ZoneInvHolds == HSpec => []ZoneInv
<1>1. Init => ZoneInv
  BY InitZone
<1>2. ZoneInv /\ [Next]_vars => ZoneInv'
  BY NextZone
<1> QED
  BY <1>1, <1>2, HistoryRefines, PTL DEF Spec

-----------------------------------------------------------------------------
(* Nobody is seen on old evidence.                                         *)

\* While somebody is seen, the observer's age of the last valid result is what the
\* wrapping clock says it is.
AgeIsKnown == active => last_good # 0 /\ age = Elapsed(last_good, now)
RejectedIsInvalid == rejected => ~valid

Evidence ==
  /\ age \in Nat /\ rejected \in BOOLEAN
  /\ AgeIsKnown /\ RejectedIsInvalid /\ NoGhostPresence

\* A pass without a valid result that keeps the field occupied.
LEMMA HeldEvidence ==
  ASSUME ZoneInv, Evidence, NEW step \in Steps, NEW rejection \in BOOLEAN,
         Pass(step), SeeNone(step, rejection), UNCHANGED <<active, last_good>>,
         valid' \in BOOLEAN, rejection => ~valid', ~rejection => valid' = valid,
         ~Stale, Usable
  PROVE Evidence'
<1>1. age' \in Nat /\ rejected' \in BOOLEAN
  BY Settings, TimeIsNat DEF SeeNone, Sooner, Evidence
<1>2. RejectedIsInvalid'
  BY DEF SeeNone, Evidence, RejectedIsInvalid
<1>3. ASSUME active
      PROVE  last_good' # 0 /\ age' = Elapsed(last_good', now') /\ age' <= StaleMs
  <2>1. Elapsed(last_good, now) \in Nat /\ Elapsed(last_good, now) <= StaleMs
        /\ age = Elapsed(last_good, now) /\ last_good # 0
    BY <1>3, Settings, TimeIsNat, ElapsedType
    DEF Evidence, AgeIsKnown, NoGhostPresence, ZoneInv, Types
  <2>2. step \in Time /\ step \in Nat /\ StaleMs \in Nat /\ Modulus \in Nat /\ StaleMs + step < Modulus
    BY Settings, TimeIsNat
  <2>3. Elapsed(last_good, now') = age + step
    BY <2>1, <2>2, ElapsedExactly DEF Pass, ZoneInv, Types
  <2>4. age + step <= StaleMs
    BY <2>1, <2>2, <2>3 DEF Stale
  <2>5. age' = age + step
    BY <2>1, <2>2, <2>4, Settings DEF SeeNone, Sooner
  <2> QED
    BY <2>1, <2>3, <2>4, <2>5
<1>4. ASSUME active, rejected'
      PROVE  age' <= HoldMs
  <2>1. ~valid'
    BY <1>2, <1>4 DEF RejectedIsInvalid
  <2> QED
    BY <1>3, <1>4, <2>1 DEF Usable
<1> QED
  BY <1>1, <1>2, <1>3, <1>4 DEF Evidence, AgeIsKnown, NoGhostPresence

\* A field that is not occupied needs no evidence.
LEMMA NoEvidence ==
  ASSUME ~active', age' \in Nat, rejected' \in BOOLEAN, rejected' => ~valid'
  PROVE Evidence'
  BY DEF Evidence, AgeIsKnown, RejectedIsInvalid, NoGhostPresence

LEMMA InitEvidence == HInit => Evidence
  BY Settings DEF HInit, Init, Evidence, AgeIsKnown, RejectedIsInvalid, NoGhostPresence

LEMMA NextEvidence == ASSUME ZoneInv, Evidence, [HNext]_hvars PROVE Evidence'
<1>0. ZoneInv'
  BY NextZone DEF HNext, HResult, HRejection, HNothing, HPowerCycle, Next, hvars
<1>1. ASSUME NEW step \in Steps, NEW lost \in BOOLEAN, NEW distance \in Distances, HResult(distance, step, lost)
      PROVE Evidence'
  <2>1. age' = 0 /\ rejected' = FALSE /\ last_good' = now' /\ now' \in Time
    BY <1>0, <1>1 DEF HResult, Result, ReadValid, SeeResult, ZoneInv, Types
  <2>2. CASE lost \/ Stale
    BY <1>1, <2>1, <2>2, NoEvidence DEF HResult, Result, Wipe
  <2>3. CASE ~(lost \/ Stale)
    <3>1. last_good' # 0 /\ Elapsed(last_good', now') = 0
      BY <2>1, <2>3, ElapsedFromItself DEF Stale
    <3>2. age' \in Nat /\ age' = Elapsed(last_good', now') /\ age' <= StaleMs /\ rejected' = FALSE
      BY <2>1, <3>1, Settings, TimeIsNat
    <3> QED
      BY <3>1, <3>2 DEF Evidence, AgeIsKnown, RejectedIsInvalid, NoGhostPresence
  <2> QED
    BY <2>2, <2>3
<1>2. ASSUME NEW step \in Steps, NEW rejection \in BOOLEAN, SeeNone(step, rejection), Wipe,
             rejection => ~valid', ~rejection => valid' = valid
      PROVE  Evidence'
  <2>1. age' \in Nat /\ rejected' \in BOOLEAN /\ (rejected' => ~valid')
    BY <1>2, Settings, TimeIsNat DEF SeeNone, Sooner, Evidence, RejectedIsInvalid
  <2> QED
    BY <1>2, <2>1, NoEvidence DEF Wipe
<1>3. ASSUME NEW step \in Steps, NEW lost \in BOOLEAN, NEW optical \in BOOLEAN, HRejection(optical, step, lost)
      PROVE Evidence'
  <2>1. Pass(step) /\ SeeNone(step, TRUE) /\ valid' = FALSE /\ UNCHANGED last_good
    BY <1>3 DEF HRejection, Rejection, ReadRejected
  <2>2. CASE Wipe
    BY <1>2, <2>1, <2>2
  <2>3. CASE Hold /\ ~Stale /\ Usable
    BY <2>1, <2>3, HeldEvidence DEF Hold
  <2> QED
    BY <1>3, <2>2, <2>3 DEF HRejection, Rejection
<1>4. ASSUME NEW step \in Steps, NEW lost \in BOOLEAN, HNothing(step, lost)
      PROVE Evidence'
  <2>1. Pass(step) /\ SeeNone(step, FALSE) /\ UNCHANGED <<valid, last_good>>
    BY <1>4 DEF HNothing, Nothing, ReadNothing
  <2>2. CASE Wipe
    BY <1>2, <2>1, <2>2
  <2>3. CASE Hold /\ ~Stale /\ Usable
    BY <2>1, <2>3, HeldEvidence DEF Hold, ZoneInv, Types
  <2> QED
    BY <1>4, <2>2, <2>3 DEF HNothing, Nothing
<1>5. ASSUME NEW step \in Steps, HPowerCycle(step)
      PROVE Evidence'
  BY <1>5, Settings, NoEvidence DEF HPowerCycle, PowerCycle, SeePowerCycle
<1>6. CASE UNCHANGED hvars
  BY <1>6 DEF hvars, vars, zone, history, Evidence, AgeIsKnown, RejectedIsInvalid, NoGhostPresence
<1> QED
  BY <1>1, <1>3, <1>4, <1>5, <1>6 DEF HNext

\* Whatever is rejected, lost or late, and across the wrap of the clock: a field is
\* occupied only on a valid result at most StaleMs old, and at most HoldMs old once
\* a later one was rejected.
THEOREM NobodyOnOldEvidence == HSpec => []NoGhostPresence
<1>1. HInit => Evidence
  BY InitEvidence
<1>2. ZoneInv /\ Evidence /\ [HNext]_hvars => Evidence'
  BY NextEvidence
<1>3. Evidence => NoGhostPresence
  BY DEF Evidence
<1> QED
  BY <1>1, <1>2, <1>3, ZoneInvHolds, PTL DEF HSpec

-----------------------------------------------------------------------------
(* Two results for a change of side, without a median window and with wide *)
(* deltas.                                                                 *)

NoWindow == SamplingSize = 1 /\ SmoothingIsWeak

Confirms(side, distance) == IF side THEN Present(distance) ELSE Absent(distance)

\* The last result since the field was lost.
LastIs(distance) == recent = <<distance>> \/ \E earlier \in Distances : recent = <<earlier, distance>>

\* A candidate for the other side rests on the last result.
CandidateRests ==
  debounce.hits =>
    /\ debounce.candidate = ~active
    /\ \E last \in Distances : LastIs(last) /\ Confirms(~active, last)

Rests ==
  /\ samples = <<>> \/ \E c \in Held : samples = <<c>>
  /\ filtered \in Held \cup {NAN}
  /\ recent = <<>> \/ \E last \in Distances : LastIs(last)
  /\ CandidateRests

\* What TwoMeasurements says of a step.
TwoForAChange ==
  /\ (~active /\ active') => AtLeastTwo(Confirming(recent', Present))
  /\ (active /\ ~active' /\ ~Lost) => AtLeastTwo(Confirming(recent', Absent))

LEMMA ClippedType ==
  ASSUME NEW distance \in Distances
  PROVE Clipped(distance) \in Nat /\ Clipped(distance) <= NAN /\ Clipped(distance) \in Held
<1>1. distance \in Nat /\ distance <= NAN /\ MinDistance \in Nat /\ MinDistance <= Baseline /\ Baseline \in Nat
  BY Settings, ZoneSignalAssumption DEF NAN
<1>2. Clipped(distance) \in Nat /\ Clipped(distance) <= NAN
  BY <1>1 DEF Clipped, NAN
<1> QED
  BY <1>1, <1>2 DEF Held, NAN

\* Sequences of one and two, one longer.
LEMMA AppendToOne == ASSUME NEW S, NEW a \in S, NEW c \in S PROVE Append(<<a>>, c) = <<a, c>>
<1> DEFINE t == Append(<<a>>, c)
<1>1. <<a>> \in Seq(S) /\ <<a, c>> \in Seq(S)
  OBVIOUS
<1>2. t \in Seq(S) /\ Len(t) = 2 /\ t[1] = a /\ t[2] = c
  BY <1>1, AppendProperties
<1>3. Len(<<a, c>>) = 2 /\ <<a, c>>[1] = a /\ <<a, c>>[2] = c
  OBVIOUS
<1>4. \A i \in 1 .. 2 : t[i] = <<a, c>>[i]
  BY <1>2, <1>3
<1> QED
  BY <1>1, <1>2, <1>3, <1>4, SeqEqual

LEMMA AppendToTwo ==
  ASSUME NEW S, NEW a \in S, NEW b \in S, NEW c \in S
  PROVE Append(<<a, b>>, c) = <<a, b, c>>
<1> DEFINE s == <<a, b>>
           t == Append(s, c)
           u == <<a, b, c>>
<1>1. s \in Seq(S) /\ Len(s) = 2 /\ u \in Seq(S)
  OBVIOUS
<1>2. t \in Seq(S) /\ Len(t) = 3 /\ t[1] = a /\ t[2] = b /\ t[3] = c
  BY <1>1, AppendProperties
<1>3. Len(u) = 3 /\ u[1] = a /\ u[2] = b /\ u[3] = c
  OBVIOUS
<1>4. \A i \in 1 .. 3 : t[i] = u[i]
  BY <1>2, <1>3
<1> QED
  BY <1>1, <1>2, <1>3, <1>4, SeqEqual

\* The median of one result is that result.
LEMMA SampledOne == ASSUME NEW c \in Nat PROVE Sampled(<<c>>) = c
<1> DEFINE w == <<c>>
<1>1. DOMAIN w = {1} /\ w[1] = c /\ Len(w) = 1
  OBVIOUS
<1>2. Range(w) = {c} /\ Len(w) \div 2 = 0
  BY <1>1 DEF Range
<1>3. {i \in DOMAIN w : w[i] < c} = {} /\ {i \in DOMAIN w : w[i] <= c} = {1}
  BY <1>1
<1>4. Cardinality({}) = 0 /\ Cardinality({1}) = 1
  BY FS_EmptySet, FS_Singleton
<1> QED
  BY <1>2, <1>3, <1>4 DEF Sampled

\* Smoothing stays between what was held and what was measured.
LEMMA SmoothHeld ==
  ASSUME NEW held \in Held, NEW distance \in Distances
  PROVE Smooth(held, Clipped(distance)) \in Held
<1> DEFINE c == Clipped(distance)
<1>1. c \in Nat /\ c <= NAN /\ NAN \in Nat
  BY ClippedType, Settings DEF NAN
<1>2. PICK d \in Distances : held <= Clipped(d)
  BY DEF Held
<1>3. held \in Nat /\ held <= NAN /\ Clipped(d) \in Nat
  BY <1>1, ClippedType DEF Held
<1>4. /\ Smooth(held, c) \in Nat
      /\ held <= c => Smooth(held, c) <= c
      /\ c <= held => Smooth(held, c) <= held
  <2> HIDE DEF c
  <2> QED
    BY <1>1, <1>3 DEF Smooth
<1>5. Smooth(held, c) <= c \/ Smooth(held, c) <= Clipped(d)
  <2> HIDE DEF c
  <2> QED
    BY <1>1, <1>2, <1>3, <1>4
<1>6. Smooth(held, c) <= NAN
  <2> HIDE DEF c
  <2> QED
    BY <1>1, <1>3, <1>4
<1> QED
  BY <1>1, <1>4, <1>5, <1>6 DEF Held

\* A field shows another side only on a result that says so itself.
LEMMA TargetIsMeasured ==
  ASSUME NoWindow, Types, Rests, NEW distance \in Distances, ReadValid(distance)
  PROVE /\ \E c \in Held : samples' = <<c>>
        /\ filtered' \in Held
        /\ Target # active => Confirms(Target, distance)
<1> DEFINE c == Clipped(distance)
<1>1. c \in Nat /\ c \in Held
  BY ClippedType
<1>2. samples' = <<c>>
  <2>1. samples' = IF Len(Append(samples, c)) > 1 THEN Tail(Append(samples, c)) ELSE Append(samples, c)
    BY DEF ReadValid, Window, NoWindow
  <2> HIDE DEF c
  <2>2. CASE samples = <<>>
    <3>1. Append(samples, c) = <<c>> /\ Len(<<c>>) = 1
      BY <2>2
    <3> QED
      BY <2>1, <3>1
  <2>3. ASSUME NEW a \in Held, samples = <<a>>
        PROVE  samples' = <<c>>
    <3>1. Append(samples, c) = <<a, c>>
      BY <1>1, <2>3, AppendToOne
    <3>2. Len(<<a, c>>) = 2 /\ Tail(<<a, c>>) = <<c>>
      OBVIOUS
    <3> QED
      BY <2>1, <3>1, <3>2
  <2> QED
    BY <2>2, <2>3 DEF Rests
<1>3. filtered' = IF filtered = NAN THEN c ELSE Smooth(filtered, c)
  BY <1>1, <1>2, SampledOne DEF ReadValid, Smoothed
<1>4. Smooth(c, c) = c
  <2> HIDE DEF c
  <2> QED
    BY <1>1 DEF Smooth
<1>5. PICK held \in Held : filtered' = Smooth(held, c)
  BY <1>1, <1>3, <1>4 DEF Rests
<1>6. filtered' \in Held
  BY <1>5, SmoothHeld
<1>7. /\ Baseline - filtered' >= TriggerDelta => Present(distance)
      /\ Baseline - filtered' <= ReleaseDelta => Absent(distance)
  BY <1>5 DEF NoWindow, SmoothingIsWeak
<1>8. filtered' \in Nat /\ Baseline \in Nat /\ ReleaseDelta \in Nat
  BY <1>6, Settings DEF Held, NAN
<1>9. Baseline - filtered' > ReleaseDelta \/ Baseline - filtered' <= ReleaseDelta
  <2>1. \A a, b, d \in Nat : a - b > d \/ a - b <= d
    OBVIOUS
  <2> QED
    BY <1>8, <2>1
<1>0. Target \in BOOLEAN /\ active \in BOOLEAN
  BY DEF Target, Types
<1>10. ASSUME active
       PROVE  Target # active => Confirms(Target, distance)
  <2>1. Target \/ Baseline - filtered' <= ReleaseDelta
    BY <1>9, <1>10 DEF Target
  <2>2. ~Target => Absent(distance)
    BY <1>7, <2>1
  <2> HIDE DEF c
  <2> QED
    BY <1>0, <1>10, <2>2 DEF Confirms
<1>11. ASSUME ~active
       PROVE  Target # active => Confirms(Target, distance)
  <2>1. Target => Baseline - filtered' >= TriggerDelta
    BY <1>11 DEF Target
  <2>2. Target => Present(distance)
    BY <1>7, <2>1
  <2> QED
    BY <1>0, <1>11, <2>2 DEF Confirms
<1>12. Target # active => Confirms(Target, distance)
  BY <1>10, <1>11
<1> QED
  BY <1>1, <1>2, <1>6, <1>12

\* The observer keeps the result it has just seen, and the one before.
LEMMA LatestTwo ==
  ASSUME NoWindow, NEW distance \in Distances, recent = <<>> \/ \E last \in Distances : LastIs(last),
         recent' = Latest(Append(recent, distance), SamplingSize + 1)
  PROVE /\ LastIs(distance)'
        /\ \A last \in Distances : LastIs(last) => recent' = <<last, distance>>
<1>0. recent' = IF Len(Append(recent, distance)) > 2 THEN Tail(Append(recent, distance))
                ELSE Append(recent, distance)
  BY DEF Latest, NoWindow
<1>1. CASE recent = <<>>
  <2>1. Append(recent, distance) = <<distance>> /\ Len(<<distance>>) = 1
    BY <1>1
  <2>2. recent' = <<distance>>
    BY <1>0, <2>1
  <2>3. \A last \in Distances : ~LastIs(last)
    <3>1. \A a, b : <<a>> # <<>> /\ <<a, b>> # <<>>
      OBVIOUS
    <3> QED
      BY <1>1, <3>1 DEF LastIs
  <2> QED
    BY <2>2, <2>3 DEF LastIs
<1>2. ASSUME NEW last \in Distances, LastIs(last)
      PROVE  recent' = <<last, distance>>
  <2>1. CASE recent = <<last>>
    <3>1. Append(recent, distance) = <<last, distance>> /\ Len(<<last, distance>>) = 2
      BY <2>1, AppendToOne
    <3> QED
      BY <1>0, <3>1
  <2>2. ASSUME NEW earlier \in Distances, recent = <<earlier, last>>
        PROVE  recent' = <<last, distance>>
    <3>1. Append(recent, distance) = <<earlier, last, distance>>
      BY <2>2, AppendToTwo
    <3>2. Len(<<earlier, last, distance>>) = 3 /\ Tail(<<earlier, last, distance>>) = <<last, distance>>
      OBVIOUS
    <3> QED
      BY <1>0, <3>1, <3>2
  <2> QED
    BY <1>2, <2>1, <2>2 DEF LastIs
<1> QED
  BY <1>1, <1>2 DEF LastIs

\* Two of two say so.
LEMMA BothConfirm ==
  ASSUME NEW a, NEW b
  PROVE /\ Present(a) /\ Present(b) => AtLeastTwo(Confirming(<<a, b>>, Present))
        /\ Absent(a) /\ Absent(b) => AtLeastTwo(Confirming(<<a, b>>, Absent))
<1>1. DOMAIN <<a, b>> = {1, 2} /\ <<a, b>>[1] = a /\ <<a, b>>[2] = b
  OBVIOUS
<1>2. Present(a) /\ Present(b) => {1, 2} \subseteq Confirming(<<a, b>>, Present)
  BY <1>1 DEF Confirming
<1>3. Absent(a) /\ Absent(b) => {1, 2} \subseteq Confirming(<<a, b>>, Absent)
  BY <1>1 DEF Confirming
<1>4. \A S : {1, 2} \subseteq S => AtLeastTwo(S)
  <2>1. SUFFICES ASSUME NEW S, {1, 2} \subseteq S PROVE AtLeastTwo(S)
    OBVIOUS
  <2>2. 1 \in S /\ 2 \in S /\ 1 # 2
    BY <2>1
  <2> QED
    BY <2>2 DEF AtLeastTwo
<1> QED
  BY <1>2, <1>3, <1>4

\* A decision that changes the side finds a candidate, and the candidate's result
\* is the one before the last.
LEMMA DecideRests ==
  ASSUME NoWindow, ZoneInv, Rests, NEW distance \in Distances, now' \in Time,
         ReadValid(distance), Decide(distance, now), SeeResult(distance), ~Lost
  PROVE Rests' /\ TwoForAChange
<1>1. /\ \E c \in Held : samples' = <<c>>
      /\ filtered' \in Held
      /\ Target # active => Confirms(Target, distance)
  BY TargetIsMeasured DEF ZoneInv
<1>2. /\ LastIs(distance)'
      /\ \A last \in Distances : LastIs(last) => recent' = <<last, distance>>
  <2>1. recent' = Latest(Append(recent, distance), SamplingSize + 1)
    BY DEF SeeResult
  <2> QED
    BY <2>1, LatestTwo DEF Rests
<1>3. Target \in BOOLEAN /\ active \in BOOLEAN /\ active = debounce.active /\ debounce \in Debounce
  BY DEF Target, ZoneInv, Types
<1>4. active' = debounce'.active
  BY DEF Decide
<1>5. \/ Target = active /\ debounce' = Stable(debounce, now)
      \/ Target # active /\ debounce' = Candidate(debounce, Target, now')
      \/ Target # active /\ debounce.hits /\ debounce' = debounce
      \/ Target # active /\ debounce.hits /\ debounce' = Switched(debounce, Target, now)
  BY <1>3, DebounceSteps DEF Decide
<1>6. CASE Target = active /\ debounce' = Stable(debounce, now)
  <2>1. debounce'.hits = FALSE /\ debounce'.active = active
    BY <1>3, <1>6 DEF Stable, Debounce
  <2> QED
    BY <1>1, <1>2, <1>4, <2>1 DEF Rests, CandidateRests, TwoForAChange
<1>7. CASE Target # active /\ debounce' = Candidate(debounce, Target, now')
  <2>1. debounce'.candidate = Target /\ debounce'.active = active
    BY <1>3, <1>7 DEF Candidate, Debounce
  <2>2. active' = active /\ Target = ~active' /\ Confirms(~active', distance)
    BY <1>1, <1>3, <1>4, <1>7, <2>1
  <2>3. CandidateRests'
    BY <1>2, <2>1, <2>2 DEF CandidateRests, Confirms, Present, Absent
  <2> QED
    BY <1>1, <1>2, <2>2, <2>3 DEF Rests, TwoForAChange
<1>8. CASE Target # active /\ debounce.hits /\ debounce' = debounce
  <2>1. active' = active /\ debounce'.candidate = ~active' /\ Confirms(~active', distance)
    BY <1>1, <1>3, <1>4, <1>8 DEF Rests, CandidateRests
  <2>2. CandidateRests'
    BY <1>2, <2>1 DEF CandidateRests, Confirms, Present, Absent
  <2> QED
    BY <1>1, <1>2, <2>1, <2>2 DEF Rests, TwoForAChange
<1>9. CASE Target # active /\ debounce.hits /\ debounce' = Switched(debounce, Target, now)
  <2>1. debounce'.hits = FALSE /\ debounce'.active = Target
    BY <1>3, <1>9 DEF Switched, Stable, Debounce
  <2>2. PICK last \in Distances : LastIs(last) /\ Confirms(~active, last)
    BY <1>9 DEF Rests, CandidateRests
  <2>3. recent' = <<last, distance>> /\ Confirms(~active, distance) /\ active' = ~active
    BY <1>1, <1>2, <1>3, <1>4, <1>9, <2>1, <2>2
  <2>4. TwoForAChange
    BY <2>2, <2>3, BothConfirm DEF TwoForAChange, Confirms
  <2> QED
    BY <1>1, <1>2, <2>1, <2>4 DEF Rests, CandidateRests
<1> QED
  BY <1>5, <1>6, <1>7, <1>8, <1>9

\* What a lost field leaves.
LEMMA WipeRests ==
  ASSUME Wipe, recent' = <<>>, samples' = <<>> \/ \E c \in Held : samples' = <<c>>,
         filtered' \in Held \cup {NAN}
  PROVE Rests' /\ TwoForAChange
  BY NoDebounceType DEF Wipe, Rests, CandidateRests, TwoForAChange, Lost

\* A pass that leaves the field alone.
LEMMA HoldRests ==
  ASSUME Rests, Hold, UNCHANGED <<samples, filtered>>, recent' = IF Lost THEN <<>> ELSE recent
  PROVE Rests' /\ TwoForAChange
<1>1. active' = active /\ debounce' = debounce
  BY DEF Hold
<1>2. Lost => debounce'.hits = FALSE
  BY NoDebounceType DEF Lost
<1>3. CASE Lost
  BY <1>1, <1>2, <1>3 DEF Rests, CandidateRests, TwoForAChange
<1>4. CASE ~Lost
  BY <1>1, <1>4 DEF Rests, CandidateRests, TwoForAChange, LastIs, Confirms, Present, Absent
<1> QED
  BY <1>3, <1>4

LEMMA InitRests == HInit => Rests
  BY NoDebounceType DEF HInit, Init, Rests, CandidateRests

LEMMA NextRests ==
  ASSUME NoWindow, ZoneInv, Rests, [HNext]_hvars
  PROVE Rests' /\ (TwoForAChange \/ UNCHANGED hvars)
<1>0. ZoneInv'
  BY NextZone DEF HNext, HResult, HRejection, HNothing, HPowerCycle, Next, hvars
<1>1. ASSUME NEW step \in Steps, NEW lost \in BOOLEAN, NEW distance \in Distances, HResult(distance, step, lost)
      PROVE  Rests' /\ TwoForAChange
  <2>1. /\ ReadValid(distance) /\ SeeResult(distance) /\ now' \in Time
        /\ Wipe \/ Decide(distance, now)
    BY <1>0, <1>1 DEF HResult, Result, ZoneInv, Types
  <2>2. CASE Wipe
    <3>1. Lost
      BY <2>2 DEF Wipe, Lost
    <3>2. recent' = <<>>
      BY <2>1, <3>1 DEF SeeResult
    <3>3. (\E c \in Held : samples' = <<c>>) /\ filtered' \in Held
      BY <2>1, TargetIsMeasured DEF ZoneInv
    <3> QED
      BY <2>2, <3>2, <3>3, WipeRests
  <2>3. CASE Decide(distance, now)
    <3>1. ~Lost
      BY <1>0, <2>1, <2>3, DecideZone DEF ZoneInv, Types, Lost
    <3> QED
      BY <2>1, <2>3, <3>1, DecideRests
  <2> QED
    BY <2>1, <2>2, <2>3
<1>2. ASSUME UNCHANGED <<samples, filtered>>, recent' = IF Lost THEN <<>> ELSE recent, Wipe \/ Hold
      PROVE  Rests' /\ TwoForAChange
  <2>1. CASE Wipe
    <3>1. Lost
      BY <2>1 DEF Wipe, Lost
    <3> QED
      BY <1>2, <2>1, <3>1, WipeRests DEF Rests
  <2> QED
    BY <1>2, <2>1, HoldRests
<1>3. ASSUME NEW step \in Steps, NEW lost \in BOOLEAN, NEW optical \in BOOLEAN, HRejection(optical, step, lost)
      PROVE  Rests' /\ TwoForAChange
  BY <1>2, <1>3 DEF HRejection, Rejection, ReadRejected, SeeNone
<1>4. ASSUME NEW step \in Steps, NEW lost \in BOOLEAN, HNothing(step, lost)
      PROVE  Rests' /\ TwoForAChange
  BY <1>2, <1>4 DEF HNothing, Nothing, ReadNothing, SeeNone
<1>5. ASSUME NEW step \in Steps, HPowerCycle(step)
      PROVE  Rests' /\ TwoForAChange
  <2>1. debounce' = NoDebounce /\ active' = FALSE /\ recent' = <<>> /\ samples' = <<>> /\ filtered' = NAN
    BY <1>5 DEF HPowerCycle, PowerCycle, SeePowerCycle
  <2> QED
    BY <2>1, NoDebounceType DEF Rests, CandidateRests, TwoForAChange, Lost
<1>6. CASE UNCHANGED hvars
  BY <1>6 DEF hvars, vars, zone, history, Rests, CandidateRests, LastIs, Confirms, Present, Absent
<1> QED
  BY <1>1, <1>3, <1>4, <1>5, <1>6 DEF HNext

\* A sampling size of one and deltas wide enough for the smoothing: nobody comes or
\* goes, short of a loss, on fewer than two raw results that say so, both taken
\* since the field was last lost.
THEOREM ChangesRestOnTwo == NoWindow => (HSpec => TwoMeasurements)
<1>0. SUFFICES ASSUME NoWindow PROVE HSpec => TwoMeasurements
  OBVIOUS
<1>1. HInit => Rests
  BY InitRests
<1>2. ZoneInv /\ Rests /\ [HNext]_hvars => Rests' /\ [TwoForAChange]_hvars
  BY <1>0, NextRests
<1>3. [TwoForAChange]_hvars =>
        [ /\ (~active /\ active') => AtLeastTwo(Confirming(recent', Present))
          /\ (active /\ ~active' /\ ~Lost) => AtLeastTwo(Confirming(recent', Absent)) ]_hvars
  BY DEF TwoForAChange
<1> QED
  BY <1>1, <1>2, <1>3, ZoneInvHolds, PTL DEF HSpec, TwoMeasurements
-----------------------------------------------------------------------------
(* Two results for a change of side, with a median window of three or more.*)

MedianWindow == SamplingSize >= 3 /\ SmoothingIsWeak /\ Baseline - MinDistance > ReleaseDelta

\* What a window may hold.
Clips == {Clipped(distance) : distance \in Distances}

NotAfter(w, k) == {i \in DOMAIN w : w[i] <= k}
Before(w, k) == {i \in DOMAIN w : w[i] < k}

LEMMA ClipsAreNat == Clips \subseteq 0 .. NAN
  BY ClippedType, Settings DEF Clips, NAN

LEMMA IndexSets ==
  ASSUME NEW w \in Seq(0 .. NAN), NEW S \in SUBSET DOMAIN w
  PROVE /\ Len(w) \in Nat /\ DOMAIN w = 1 .. Len(w)
        /\ IsFiniteSet(DOMAIN w) /\ Cardinality(DOMAIN w) = Len(w)
        /\ IsFiniteSet(S) /\ Cardinality(S) \in Nat /\ Cardinality(S) <= Len(w)
<1>1. Len(w) \in Nat /\ DOMAIN w = 1 .. Len(w)
  BY LenProperties
<1>2. \A n \in Nat : IsFiniteSet(1 .. n) /\ Cardinality(1 .. n) = n
  <2>1. SUFFICES ASSUME NEW n \in Nat PROVE IsFiniteSet(1 .. n) /\ Cardinality(1 .. n) = n
    OBVIOUS
  <2>2. IsFiniteSet(1 .. n) /\ Cardinality(1 .. n) = IF 1 > n THEN 0 ELSE n - 1 + 1
    BY FS_Interval
  <2> QED
    BY <2>2
<1> QED
  BY <1>1, <1>2, FS_Subset, FS_CardinalityType

LEMMA LeastNumber ==
  ASSUME NEW S \in SUBSET Nat, S # {}
  PROVE \E k \in S : \A j \in S : ~(j < k)
<1> DEFINE R == {pair \in Nat \X Nat : pair[1] < pair[2]}
<1>1. \A j, k \in Nat : j < k => <<j, k>> \in R
  OBVIOUS
<1>2. IsWellFoundedOn(R, Nat)
  BY NatLessThanWellFounded DEF OpToRel
<1> HIDE DEF R
<1>3. PICK k \in S : \A j \in S : ~(<<j, k>> \in R)
  BY <1>2, WFMin
<1> QED
  BY <1>1, <1>3

\* A window that is not empty has a median: the least distance that more than half
\* of the window does not exceed.
LEMMA MedianExists ==
  ASSUME NEW w \in Seq(0 .. NAN), w # <<>>
  PROVE /\ Sampled(w) \in Range(w)
        /\ Cardinality(Before(w, Sampled(w))) <= Len(w) \div 2
        /\ Cardinality(NotAfter(w, Sampled(w))) > Len(w) \div 2
<1> DEFINE half == Len(w) \div 2
           Enough == {k \in Nat : Cardinality(NotAfter(w, k)) > half}
<1>1. Len(w) \in Nat \ {0} /\ DOMAIN w = 1 .. Len(w) /\ \A i \in DOMAIN w : w[i] \in 0 .. NAN
  BY LenProperties, EmptySeq, ElementOfSeq
<1>2. half \in Nat /\ half < Len(w)
  BY <1>1
<1>3. NAN \in Nat
  BY Settings DEF NAN
<1>4. \A k : NotAfter(w, k) \in SUBSET DOMAIN w /\ Before(w, k) \in SUBSET DOMAIN w
  BY DEF NotAfter, Before
<1>5. \A k : /\ Cardinality(NotAfter(w, k)) \in Nat /\ IsFiniteSet(NotAfter(w, k))
             /\ Cardinality(Before(w, k)) \in Nat /\ IsFiniteSet(Before(w, k))
  BY <1>4, IndexSets
<1>6. NAN \in Enough
  <2>1. NotAfter(w, NAN) = DOMAIN w
    BY <1>1, <1>3 DEF NotAfter
  <2>2. Cardinality(DOMAIN w) = Len(w)
    BY IndexSets
  <2> QED
    BY <1>2, <1>3, <2>1, <2>2
<1>7. PICK k \in Enough : \A j \in Enough : ~(j < k)
  <2>1. Enough \in SUBSET Nat /\ Enough # {}
    BY <1>6
  <2> HIDE DEF Enough
  <2> QED
    BY <2>1, LeastNumber
<1>8. k \in Nat /\ Cardinality(NotAfter(w, k)) > half
  BY <1>7
<1>9. Cardinality(Before(w, k)) <= half
  <2>1. CASE k = 0
    <3>1. Before(w, k) = {}
      BY <1>1, <1>3, <2>1 DEF Before
    <3> QED
      BY <1>2, <3>1, FS_EmptySet
  <2>2. CASE k # 0
    <3>1. k - 1 \in Nat /\ k - 1 < k
      BY <1>8, <2>2
    <3>2. k - 1 \notin Enough
      BY <1>7, <3>1
    <3>3. Before(w, k) = NotAfter(w, k - 1)
      BY <1>1, <1>3, <1>8 DEF Before, NotAfter
    <3>4. ~(Cardinality(NotAfter(w, k - 1)) > half)
      BY <3>1, <3>2
    <3>5. Cardinality(NotAfter(w, k - 1)) \in Nat
      BY <1>5
    <3> QED
      BY <1>2, <3>3, <3>4, <3>5
  <2> QED
    BY <2>1, <2>2
<1>10. k \in Range(w)
  <2>1. Before(w, k) # NotAfter(w, k)
    BY <1>2, <1>5, <1>8, <1>9
  <2>2. PICK i \in DOMAIN w : w[i] <= k /\ ~(w[i] < k)
    <3>1. \A i \in DOMAIN w : w[i] < k => w[i] <= k
      BY <1>1, <1>3, <1>8
    <3>2. CASE \A i \in DOMAIN w : w[i] <= k => w[i] < k
      <4>1. Before(w, k) = NotAfter(w, k)
        BY <3>1, <3>2 DEF Before, NotAfter
      <4> QED
        BY <2>1, <4>1
    <3> QED
      BY <3>2
  <2>3. w[i] = k
    BY <1>1, <1>3, <1>8, <2>2
  <2> QED
    BY <2>3 DEF Range
<1>11. \E distance \in Range(w) :
          /\ Cardinality(Before(w, distance)) <= Len(w) \div 2
          /\ Cardinality(NotAfter(w, distance)) > Len(w) \div 2
  BY <1>8, <1>9, <1>10
<1>12. Sampled(w) = CHOOSE distance \in Range(w) :
          /\ Cardinality(Before(w, distance)) <= Len(w) \div 2
          /\ Cardinality(NotAfter(w, distance)) > Len(w) \div 2
  BY DEF Sampled, Before, NotAfter
<1> QED
  BY <1>11, <1>12

LEMMA TwoOrMore ==
  ASSUME NEW S, IsFiniteSet(S), Cardinality(S) >= 2
  PROVE AtLeastTwo(S)
<1>1. S # {}
  BY FS_EmptySet
<1>2. PICK i \in S : TRUE
  BY <1>1
<1>3. S # {i}
  BY FS_Singleton
<1> QED
  BY <1>2, <1>3 DEF AtLeastTwo

\* In a window of two, two distances are at most the median; in one of three, two
\* are also at least the median.
LEMMA MedianHasCompany ==
  ASSUME NEW w \in Seq(0 .. NAN), Len(w) >= 2
  PROVE /\ AtLeastTwo({i \in DOMAIN w : w[i] <= Sampled(w)})
        /\ Len(w) >= 3 => AtLeastTwo({i \in DOMAIN w : w[i] >= Sampled(w)})
<1> DEFINE m == Sampled(w)
           After == {i \in DOMAIN w : w[i] >= m}
<1>1. w # <<>> /\ Len(w) \in Nat
  BY LenProperties
<1>2. m \in Range(w) /\ Cardinality(Before(w, m)) <= Len(w) \div 2 /\ Cardinality(NotAfter(w, m)) > Len(w) \div 2
  BY <1>1, MedianExists
<1>3. \A i \in DOMAIN w : w[i] \in 0 .. NAN
  BY LenProperties, ElementOfSeq
<1>4. m \in 0 .. NAN /\ NAN \in Nat
  BY <1>2, <1>3, Settings DEF Range, NAN
<1>5. Before(w, m) \in SUBSET DOMAIN w /\ NotAfter(w, m) \in SUBSET DOMAIN w
  BY DEF Before, NotAfter
<1>6. /\ IsFiniteSet(DOMAIN w) /\ Cardinality(DOMAIN w) = Len(w)
      /\ IsFiniteSet(NotAfter(w, m)) /\ Cardinality(NotAfter(w, m)) \in Nat
      /\ IsFiniteSet(Before(w, m)) /\ Cardinality(Before(w, m)) \in Nat
  BY <1>5, IndexSets
<1>7. AtLeastTwo(NotAfter(w, m))
  <2>1. Cardinality(NotAfter(w, m)) >= 2
    BY <1>1, <1>2, <1>6
  <2> QED
    BY <1>6, <2>1, TwoOrMore
<1>8. ASSUME Len(w) >= 3
      PROVE  AtLeastTwo(After)
  <2>1. After = DOMAIN w \ Before(w, m)
    BY <1>3, <1>4 DEF Before
  <2>2. DOMAIN w \cap Before(w, m) = Before(w, m)
    BY <1>5
  <2>3. /\ IsFiniteSet(DOMAIN w \ Before(w, m))
        /\ Cardinality(DOMAIN w \ Before(w, m)) =
             Cardinality(DOMAIN w) - Cardinality(DOMAIN w \cap Before(w, m))
    BY <1>6, FS_Difference
  <2> HIDE DEF m, After
  <2>4. Cardinality(After) >= 2
    <3>1. Cardinality(After) = Len(w) - Cardinality(Before(w, m))
      BY <1>6, <2>1, <2>2, <2>3
    <3>2. \A n, c \in Nat : n >= 3 /\ c <= n \div 2 => n - c >= 2
      OBVIOUS
    <3> QED
      BY <1>1, <1>2, <1>6, <1>8, <3>1, <3>2
  <2> QED
    BY <2>1, <2>3, <2>4, TwoOrMore
<1> QED
  BY <1>7, <1>8 DEF NotAfter

\* A candidate rests on a result of the window, and somebody is seen on two.
Windowed ==
  /\ samples \in Seq(Clips) /\ Len(samples) <= SamplingSize
  /\ filtered \in Held \cup {NAN}
  /\ debounce.hits => debounce.candidate = ~active /\ Len(samples) >= 1
  /\ active => Len(samples) >= 2

\* What OutlierCountsOnce says of a step.
TwoOfTheWindow ==
  /\ (~active /\ active') => AtLeastTwo(Confirming(samples', Present))
  /\ (active /\ ~active' /\ ~Lost) => AtLeastTwo(Confirming(samples', Absent))

\* The window takes the result and forgets the oldest when it is full.
LEMMA WindowGrows ==
  ASSUME MedianWindow, Windowed, NEW distance \in Distances, ReadValid(distance)
  PROVE /\ samples' \in Seq(Clips) /\ samples' # <<>> /\ Len(samples') <= SamplingSize
        /\ Len(samples') >= 1
        /\ Len(samples) >= 1 => Len(samples') >= 2
        /\ Len(samples) >= 2 => Len(samples') >= 3
<1> DEFINE all == Append(samples, Clipped(distance))
<1>1. Clipped(distance) \in Clips
  BY DEF Clips
<1>2. samples \in Seq(Clips) /\ Len(samples) \in Nat /\ Len(samples) <= SamplingSize
  BY LenProperties DEF Windowed
<1>3. all \in Seq(Clips) /\ all # <<>> /\ Len(all) = Len(samples) + 1
  BY <1>1, <1>2, AppendProperties
<1>4. samples' = IF Len(all) > SamplingSize THEN Tail(all) ELSE all
  BY DEF ReadValid, Window
<1>5. SamplingSize \in Nat /\ SamplingSize >= 3
  BY Settings DEF MedianWindow
<1> HIDE DEF all
<1>6. Tail(all) \in Seq(Clips) /\ Len(Tail(all)) = Len(all) - 1
  BY <1>3, HeadTailProperties
<1>7. samples' \in Seq(Clips) /\ Len(samples') = IF Len(all) > SamplingSize THEN Len(samples) ELSE Len(samples) + 1
  BY <1>2, <1>3, <1>4, <1>6
<1>8. Len(samples') >= 1 => samples' # <<>>
  BY <1>7, EmptySeq
<1> QED
  BY <1>2, <1>3, <1>5, <1>7, <1>8

LEMMA ClippedWindow == ASSUME samples' \in Seq(Clips) PROVE samples' \in Seq(0 .. NAN)
<1>1. Len(samples') \in Nat /\ DOMAIN samples' = 1 .. Len(samples') /\ samples' \in [1 .. Len(samples') -> Clips]
  BY LenProperties
<1>2. samples' \in [1 .. Len(samples') -> 0 .. NAN]
  BY <1>1, ClipsAreNat
<1>3. Seq(0 .. NAN) = UNION {[1 .. n -> 0 .. NAN] : n \in Nat}
  BY SeqDef
<1> QED
  BY <1>1, <1>2, <1>3

\* A filter that shows another side has a median that says so too.
LEMMA TargetIsMedian ==
  ASSUME MedianWindow, Types, Windowed, NEW distance \in Distances, ReadValid(distance)
  PROVE /\ filtered' \in Held
        /\ Sampled(samples') \in 0 .. NAN
        /\ Target # active => Confirms(Target, Sampled(samples'))
<1> DEFINE m == Sampled(samples')
<1>1. samples' \in Seq(Clips) /\ samples' # <<>>
  BY WindowGrows
<1>2. samples' \in Seq(0 .. NAN)
  BY <1>1, ClippedWindow
<1>3. m \in Range(samples')
  BY <1>1, <1>2, MedianExists
<1>4. m \in Clips
  BY <1>1, <1>3, LenProperties, ElementOfSeq DEF Range
<1>5. PICK d \in Distances : m = Clipped(d)
  BY <1>4 DEF Clips
<1> HIDE DEF m
<1>6. m \in Held /\ m \in Nat /\ m <= NAN
  BY <1>5, ClippedType
<1>7. filtered' = IF filtered = NAN THEN m ELSE Smooth(filtered, m)
  BY DEF ReadValid, Smoothed, m
<1>8. Smooth(m, m) = m
  BY <1>6 DEF Smooth
<1>9. PICK held \in Held : filtered' = Smooth(held, m)
  BY <1>6, <1>7, <1>8 DEF Windowed
<1>10. filtered' \in Held
  BY <1>5, <1>9, SmoothHeld
<1>11. d \in Nat /\ {Baseline, TriggerDelta, ReleaseDelta, MinDistance} \subseteq Nat /\ Baseline - MinDistance > ReleaseDelta
  BY Settings, ZoneSignalAssumption DEF MedianWindow
<1>12. m = d \/ (d < m /\ m = MinDistance)
  BY <1>5, <1>11 DEF Clipped
<1>13. /\ Present(d) => Present(m)
       /\ Absent(d) => Absent(m)
  BY <1>6, <1>11, <1>12 DEF Present, Absent
<1>14. /\ Baseline - filtered' >= TriggerDelta => Present(m)
       /\ Baseline - filtered' <= ReleaseDelta => Absent(m)
  BY <1>5, <1>9, <1>13 DEF MedianWindow, SmoothingIsWeak
<1>15. filtered' \in Nat
  BY <1>10, Settings DEF Held, NAN
<1>16. Baseline - filtered' > ReleaseDelta \/ Baseline - filtered' <= ReleaseDelta
  <2>1. \A a, b, c \in Nat : a - b > c \/ a - b <= c
    OBVIOUS
  <2> QED
    BY <1>11, <1>15, <2>1
<1>0. Target \in BOOLEAN /\ active \in BOOLEAN
  BY DEF Target, Types
<1>17. ASSUME active, Target # active
       PROVE  Confirms(Target, m)
  <2>1. ~Target
    BY <1>0, <1>17
  <2>2. Baseline - filtered' <= ReleaseDelta
    BY <1>16, <1>17, <2>1 DEF Target
  <2> QED
    BY <1>14, <2>1, <2>2 DEF Confirms
<1>18. ASSUME ~active, Target # active
       PROVE  Confirms(Target, m)
  <2>1. Target
    BY <1>0, <1>18
  <2>2. Baseline - filtered' >= TriggerDelta
    BY <1>18, <2>1 DEF Target
  <2> QED
    BY <1>14, <2>1, <2>2 DEF Confirms
<1>19. Target # active => Confirms(Target, m)
  BY <1>17, <1>18
<1> QED
  BY <1>6, <1>10, <1>19 DEF m

\* If the median of the window says so, two of its distances do.
LEMMA MedianConfirms ==
  ASSUME NEW w \in Seq(0 .. NAN), Len(w) >= 2
  PROVE /\ Present(Sampled(w)) => AtLeastTwo(Confirming(w, Present))
        /\ Absent(Sampled(w)) /\ Len(w) >= 3 => AtLeastTwo(Confirming(w, Absent))
<1> DEFINE m == Sampled(w)
           NoFarther == {i \in DOMAIN w : w[i] <= m}
           NoNearer == {i \in DOMAIN w : w[i] >= m}
<1>1. AtLeastTwo(NoFarther) /\ (Len(w) >= 3 => AtLeastTwo(NoNearer))
  BY MedianHasCompany
<1>2. \A i \in DOMAIN w : w[i] \in Nat
  BY LenProperties, ElementOfSeq, Settings DEF NAN
<1>3. m \in Nat
  <2>1. w # <<>>
    BY EmptySeq
  <2>2. m \in Range(w)
    BY <2>1, MedianExists
  <2> QED
    BY <1>2, <2>2 DEF Range
<1>4. Baseline \in Nat /\ ReleaseDelta \in Nat /\ TriggerDelta \in Nat
  BY Settings
<1>5. Present(m) => NoFarther \subseteq Confirming(w, Present)
  <2> HIDE DEF m
  <2> QED
    BY <1>2, <1>3, <1>4 DEF Confirming, Present
<1>6. Absent(m) => NoNearer \subseteq Confirming(w, Absent)
  <2> HIDE DEF m
  <2> QED
    BY <1>2, <1>3, <1>4 DEF Confirming, Absent
<1>7. \A S, T : AtLeastTwo(S) /\ S \subseteq T => AtLeastTwo(T)
  BY DEF AtLeastTwo
<1> HIDE DEF m, NoFarther, NoNearer
<1>8. /\ Present(m) => AtLeastTwo(Confirming(w, Present))
      /\ Absent(m) /\ Len(w) >= 3 => AtLeastTwo(Confirming(w, Absent))
  BY <1>1, <1>5, <1>6, <1>7
<1> QED
  BY <1>8 DEF m

\* A decision that changes the side finds a candidate, so that the window holds the
\* candidate's result and the last one, and a third if somebody was seen before.
LEMMA DecideWindowed ==
  ASSUME MedianWindow, ZoneInv, Windowed, NEW distance \in Distances, now' \in Time,
         ReadValid(distance), Decide(distance, now)
  PROVE Windowed' /\ TwoOfTheWindow
<1>1. /\ filtered' \in Held
      /\ Target # active => Confirms(Target, Sampled(samples'))
  BY TargetIsMedian DEF ZoneInv
<1>2. /\ samples' \in Seq(Clips) /\ Len(samples') <= SamplingSize
      /\ Len(samples') >= 1
      /\ Len(samples) >= 1 => Len(samples') >= 2
      /\ Len(samples) >= 2 => Len(samples') >= 3
  BY WindowGrows
<1>3. Target \in BOOLEAN /\ active \in BOOLEAN /\ active = debounce.active /\ debounce \in Debounce
  BY DEF Target, ZoneInv, Types
<1>4. active' = debounce'.active
  BY DEF Decide
<1>5. \/ Target = active /\ debounce' = Stable(debounce, now)
      \/ Target # active /\ debounce' = Candidate(debounce, Target, now')
      \/ Target # active /\ debounce.hits /\ debounce' = debounce
      \/ Target # active /\ debounce.hits /\ debounce' = Switched(debounce, Target, now)
  BY <1>3, DebounceSteps DEF Decide
<1>6. Len(samples) \in Nat /\ Len(samples') \in Nat
  BY <1>2, LenProperties DEF Windowed
<1>7. active => Len(samples') >= 2
  BY <1>2, <1>6 DEF Windowed
<1>8. CASE Target = active /\ debounce' = Stable(debounce, now)
  <2>1. debounce'.hits = FALSE /\ active' = active
    BY <1>3, <1>4, <1>8 DEF Stable, Debounce
  <2> QED
    BY <1>1, <1>2, <1>7, <2>1 DEF Windowed, TwoOfTheWindow
<1>9. CASE Target # active /\ debounce' = Candidate(debounce, Target, now')
  <2>1. debounce'.candidate = Target /\ active' = active
    BY <1>3, <1>4, <1>9 DEF Candidate, Debounce
  <2>2. debounce'.candidate = ~active'
    BY <1>3, <1>9, <2>1
  <2> QED
    BY <1>1, <1>2, <1>7, <2>1, <2>2 DEF Windowed, TwoOfTheWindow
<1>10. CASE Target # active /\ debounce.hits /\ debounce' = debounce
  <2>1. active' = active /\ debounce'.candidate = ~active'
    BY <1>3, <1>4, <1>10 DEF Windowed
  <2> QED
    BY <1>1, <1>2, <1>7, <2>1 DEF Windowed, TwoOfTheWindow
<1>11. CASE Target # active /\ debounce.hits /\ debounce' = Switched(debounce, Target, now)
  <2>1. debounce'.hits = FALSE /\ active' = Target
    BY <1>3, <1>4, <1>11 DEF Switched, Stable, Debounce
  <2>2. active' = ~active /\ Confirms(~active, Sampled(samples'))
    BY <1>1, <1>3, <1>11, <2>1
  <2>3. Len(samples') >= 2 /\ (active => Len(samples') >= 3)
    BY <1>2, <1>11 DEF Windowed
  <2>4. TwoOfTheWindow
    BY <1>2, <2>2, <2>3, ClippedWindow, MedianConfirms DEF TwoOfTheWindow, Confirms
  <2> QED
    BY <1>1, <1>2, <2>1, <2>3, <2>4 DEF Windowed
<1> QED
  BY <1>5, <1>8, <1>9, <1>10, <1>11

\* A field that is lost, or left alone.
LEMMA WipeWindowed ==
  ASSUME Wipe, samples' \in Seq(Clips), Len(samples') <= SamplingSize, filtered' \in Held \cup {NAN}
  PROVE Windowed' /\ TwoOfTheWindow
  BY NoDebounceType DEF Wipe, Windowed, TwoOfTheWindow, Lost

LEMMA HoldWindowed ==
  ASSUME Windowed, Hold, UNCHANGED <<samples, filtered>>
  PROVE Windowed' /\ TwoOfTheWindow
  BY DEF Windowed, Hold, TwoOfTheWindow

LEMMA InitWindowed == HInit => Windowed
<1>1. <<>> \in Seq(Clips) /\ Len(<<>>) = 0
  BY EmptySeq
<1> QED
  BY <1>1, Settings, NoDebounceType DEF HInit, Init, Windowed

LEMMA NextWindowed ==
  ASSUME MedianWindow, ZoneInv, Windowed, [HNext]_hvars
  PROVE Windowed' /\ (TwoOfTheWindow \/ UNCHANGED hvars)
<1>0. ZoneInv'
  BY NextZone DEF HNext, HResult, HRejection, HNothing, HPowerCycle, Next, hvars
<1>1. ASSUME NEW step \in Steps, NEW lost \in BOOLEAN, NEW distance \in Distances, HResult(distance, step, lost)
      PROVE  Windowed' /\ TwoOfTheWindow
  <2>1. ReadValid(distance) /\ now' \in Time /\ (Wipe \/ Decide(distance, now))
    BY <1>0, <1>1 DEF HResult, Result, ZoneInv, Types
  <2>2. CASE Wipe
    <3>1. samples' \in Seq(Clips) /\ Len(samples') <= SamplingSize /\ filtered' \in Held
      BY <2>1, WindowGrows, TargetIsMedian DEF ZoneInv
    <3> QED
      BY <2>2, <3>1, WipeWindowed
  <2>3. CASE Decide(distance, now)
    BY <2>1, <2>3, DecideWindowed
  <2> QED
    BY <2>1, <2>2, <2>3
<1>2. ASSUME UNCHANGED <<samples, filtered>>, Wipe \/ Hold
      PROVE  Windowed' /\ TwoOfTheWindow
  <2>1. CASE Wipe
    BY <1>2, <2>1, WipeWindowed DEF Windowed
  <2> QED
    BY <1>2, <2>1, HoldWindowed
<1>3. ASSUME NEW step \in Steps, NEW lost \in BOOLEAN, NEW optical \in BOOLEAN, HRejection(optical, step, lost)
      PROVE  Windowed' /\ TwoOfTheWindow
  BY <1>2, <1>3 DEF HRejection, Rejection, ReadRejected
<1>4. ASSUME NEW step \in Steps, NEW lost \in BOOLEAN, HNothing(step, lost)
      PROVE  Windowed' /\ TwoOfTheWindow
  BY <1>2, <1>4 DEF HNothing, Nothing, ReadNothing
<1>5. ASSUME NEW step \in Steps, HPowerCycle(step)
      PROVE  Windowed' /\ TwoOfTheWindow
  <2>1. debounce' = NoDebounce /\ active' = FALSE /\ samples' = <<>> /\ filtered' = NAN
    BY <1>5 DEF HPowerCycle, PowerCycle
  <2>2. <<>> \in Seq(Clips) /\ Len(<<>>) = 0
    BY EmptySeq
  <2> QED
    BY <2>1, <2>2, Settings, NoDebounceType DEF Windowed, TwoOfTheWindow, Lost
<1>6. CASE UNCHANGED hvars
  BY <1>6 DEF hvars, vars, zone, history, Windowed
<1> QED
  BY <1>1, <1>3, <1>4, <1>5, <1>6 DEF HNext

\* A sampling size of three or more, deltas wide enough for the smoothing, and a
\* release delta that even the nearest distance reaches: nobody comes or goes,
\* short of a loss, on fewer than two results of the window that say so.
THEOREM OutliersCountOnce == MedianWindow => (HSpec => OutlierCountsOnce)
<1>0. SUFFICES ASSUME MedianWindow PROVE HSpec => OutlierCountsOnce
  OBVIOUS
<1>1. HInit => Windowed
  BY InitWindowed
<1>2. ZoneInv /\ Windowed /\ [HNext]_hvars => Windowed' /\ [TwoOfTheWindow]_hvars
  BY <1>0, NextWindowed
<1>3. [TwoOfTheWindow]_hvars =>
        [ /\ (~active /\ active') => AtLeastTwo(Confirming(samples', Present))
          /\ (active /\ ~active' /\ ~Lost) => AtLeastTwo(Confirming(samples', Absent)) ]_hvars
  BY DEF TwoOfTheWindow
<1> QED
  BY <1>1, <1>2, <1>3, ZoneInvHolds, PTL DEF HSpec, OutlierCountsOnce
=============================================================================
