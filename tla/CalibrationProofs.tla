------------------------- MODULE CalibrationProofs -------------------------
(***************************************************************************)
(* For any number of channels, any numbers of samples and passes: nothing  *)
(* counts while the device calibrates, the samples it then takes are of    *)
(* one clear spell, counting is unlocked by an empty doorway only, and an  *)
(* approach is never learned.                                              *)
(***************************************************************************)
EXTENDS Calibration, FiniteSetTheorems, TLAPS

\* The variables that are counted with.
TypeOK ==
  /\ count \in [Fields -> 0 .. Samples] /\ {up, calibrated} \subseteq SUBSET Channels
  /\ {clear_age, boot_age, spell, locked_for} \subseteq Nat
  /\ view \in [Fields -> Views]

\* No field has a result, as right after a rediscovery.
Blind == \A f \in Fields : view[f] = "none"

\* While the device calibrates, the observer has seen the doorway clear for at least as
\* long as the clear timer runs, or the next pass will stop that timer.
SpellIsReal == calibrating => Blind \/ spell >= clear_age

\* The lock's timer runs no longer than the doorway was seen clear.
LockIsReal == ~startup => locked_for >= boot_age

\* No baseline was tracked since a candidate's first result.
CandidatesKeepStill == hits \cap moved = {}

Inv ==
  /\ TypeOK /\ SpellIsReal /\ LockIsReal /\ OneClearSpell /\ CalibrationIsExclusive
  /\ CandidatesKeepStill /\ clear_age <= Settle + 1 /\ boot_age <= BootSettle + 1

LEMMA Numbers == Settle \in Nat /\ BootSettle \in Nat /\ Samples \in Nat /\ Samples >= 1
BY CalibrationAssumption

LEMMA Clipped ==
  ASSUME NEW n \in Nat, NEW most \in Nat
  PROVE /\ Clip(n, most) \in Nat /\ Clip(n, most) <= n /\ Clip(n, most) <= most
        /\ Clip(n, most) = n \/ Clip(n, most) = most
BY DEF Clip

LEMMA InitInv == Init => Inv
<1> SUFFICES ASSUME Init PROVE Inv
  OBVIOUS
<1>1. TypeOK
  BY Numbers DEF Init, TypeOK, Views
<1>2. OneClearSpell
  BY DEF Init, OneClearSpell
<1> QED
  BY <1>1, <1>2, Numbers
     DEF Init, Inv, SpellIsReal, Blind, LockIsReal, CalibrationIsExclusive, CandidatesKeepStill

-----------------------------------------------------------------------------
\* What process_calibration_ may change, and what it keeps.
Learning == TypeOK /\ clear_age <= Settle + 1

LEMMA MeasuredSamples ==
  ASSUME Learning, NEW fresh, NEW views, Measured(fresh, views)
  PROVE /\ calibrated \subseteq calibrated' /\ calibrated' \subseteq Channels
        /\ count' \in [Fields -> 0 .. Samples]
        /\ \A f \in Fields : count'[f] <= count[f] + 1
<1> DEFINE counted == [f \in Fields |-> Counted(f, fresh, views)]
           full == Full(counted, views)
<1>1. /\ count' = [f \in Fields |-> IF f[1] \in full THEN 0 ELSE counted[f]]
      /\ \E stable \in SUBSET full : calibrated' = calibrated \cup stable
  BY DEF Measured
<1>2. \A f \in Fields : /\ Counted(f, fresh, views) \in 0 .. Samples
                        /\ Counted(f, fresh, views) <= count[f] + 1
  BY Numbers DEF Counted, Clip, Learning, TypeOK
<1>3. full \subseteq Channels
  BY DEF Full, Reporting, Learning, TypeOK
<1>4. calibrated \subseteq calibrated' /\ calibrated' \subseteq Channels
  BY <1>1, <1>3 DEF Learning, TypeOK
<1>5. \A f \in Fields : count'[f] \in {0, Counted(f, fresh, views)}
  BY <1>1
<1>6. \A f \in Fields : count[f] \in 0 .. Samples
  BY DEF Learning, TypeOK
<1>7. count' \in [Fields -> 0 .. Samples]
  BY <1>1, <1>2, Numbers
<1>8. \A f \in Fields : count'[f] <= count[f] + 1
  BY <1>2, <1>5, <1>6, Numbers
<1> QED
  BY <1>4, <1>7, <1>8

LEMMA ProcessTypes ==
  ASSUME Learning, NEW someone \in BOOLEAN, NEW fresh, NEW views, Process(someone, fresh, views)
  PROVE /\ count' \in [Fields -> 0 .. Samples]
        /\ calibrated \subseteq calibrated' /\ calibrated' \subseteq Channels
        /\ clear_age' \in Nat /\ clear_age' <= Settle + 1
<1> USE Numbers DEF Learning, TypeOK
<1>1. CASE someone
  BY <1>1 DEF Process, Clip
<1>2. CASE ~someone /\ ~EnoughClear(views)
  <2>1. \A f \in Fields : Forgotten(f) \in 0 .. Samples
    BY DEF Forgotten
  <2> QED
    BY <1>2, <2>1 DEF Process
<1>3. CASE ~someone /\ EnoughClear(views)
  <2>1. /\ clear_age' = Clip(clear_age + 1, Settle + 1)
        /\ IF clear_age' <= Settle THEN UNCHANGED <<count, calibrated>> ELSE Measured(fresh, views)
    BY <1>3 DEF Process
  <2>2. clear_age' \in Nat /\ clear_age' <= Settle + 1
    BY <2>1 DEF Clip
  <2>3. CASE clear_age' <= Settle
    BY <2>1, <2>2, <2>3
  <2>4. CASE ~(clear_age' <= Settle)
    BY <2>1, <2>2, <2>4, MeasuredSamples
  <2> QED
    BY <2>3, <2>4
<1> QED
  BY <1>1, <1>2, <1>3

\* A pass brings one result at most, and a channel needs one of each field to be clear.
LEMMA BlindIsNotClear ==
  ASSUME TypeOK, Blind, NEW views, NEW c, NEW zone,
         \A f \in Fields : f # <<c, zone>> => views[f] = view[f]
  PROVE ~EnoughClear(views)
<1>1. \A b \in Channels : \E z \in Zones : views[b, z] = "none"
  <2> SUFFICES ASSUME NEW b \in Channels PROVE \E z \in Zones : views[b, z] = "none"
    OBVIOUS
  <2>1. PICK z \in Zones : z # zone
    BY DEF Zones
  <2>2. <<b, z>> \in Fields /\ <<b, z>> # <<c, zone>>
    BY <2>1 DEF Fields
  <2>3. views[b, z] = "none"
    BY <2>2 DEF Blind
  <2> QED
    BY <2>3
<1>2. Reporting(views) = {}
  BY <1>1 DEF Reporting, TypeOK
<1>3. ClearChannels(views) = {}
  BY <1>2 DEF ClearChannels
<1> QED
  BY <1>3, FS_EmptySet, CalibrationAssumption DEF EnoughClear

\* One more clear pass of a calibration: the spell covers the sample that it may have
\* added.
LEMMA SpellGrows ==
  ASSUME Inv, calibrating, NEW fresh, NEW views, EnoughClear(views), spell >= clear_age,
         Process(FALSE, fresh, views), spell' = Clip(spell + 1, Settle + Samples)
  PROVE /\ spell' >= clear_age'
        /\ \A f \in Fields : f[1] \notin calibrated' /\ count'[f] > 0 => spell' >= Settle + count'[f]
<1> USE Numbers DEF Inv, TypeOK
<1>1. /\ clear_age' = Clip(clear_age + 1, Settle + 1)
      /\ IF clear_age' <= Settle THEN UNCHANGED <<count, calibrated>> ELSE Measured(fresh, views)
  BY DEF Process
<1>2. spell' \in Nat /\ clear_age' \in Nat /\ clear_age' <= clear_age + 1 /\ clear_age' <= Settle + 1
  BY <1>1 DEF Clip
<1>3. spell' >= clear_age'
  BY <1>1, <1>2 DEF Clip
<1>4. count' \in [Fields -> 0 .. Samples] /\ calibrated \subseteq calibrated'
  <2>1. Learning /\ FALSE \in BOOLEAN
    BY DEF Learning
  <2> QED
    BY <2>1, ProcessTypes
<1>5. ASSUME NEW f \in Fields, f[1] \notin calibrated', count'[f] > 0
      PROVE spell' >= Settle + count'[f]
  <2>1. count[f] \in 0 .. Samples /\ (count[f] > 0 => spell >= Settle + count[f])
    BY <1>4, <1>5 DEF OneClearSpell
  <2>2. CASE clear_age' <= Settle
    <3>1. count' = count
      BY <1>1, <2>2
    <3>2. spell >= Settle + count[f]
      BY <1>5, <2>1, <3>1
    <3> QED
      BY <2>1, <3>1, <3>2 DEF Clip
  <2>3. CASE ~(clear_age' <= Settle)
    <3>1. count'[f] <= count[f] + 1
      BY <1>1, <2>3, MeasuredSamples DEF Learning
    <3>2. clear_age >= Settle
      BY <1>2, <2>3
    <3>3. spell >= Settle + count[f]
      BY <2>1, <3>2
    <3> QED
      BY <1>4, <2>1, <3>1, <3>3 DEF Clip
  <2> QED
    BY <2>2, <2>3
<1> QED
  BY <1>3, <1>5

LEMMA CalibrationPassInv ==
  ASSUME Inv, NEW fresh, CalibrationPass(fresh, view'), UNCHANGED up,
         view' \in [Fields -> Views],
         NEW c, NEW zone, \A f \in Fields : f # <<c, zone>> => view'[f] = view[f]
  PROVE Inv'
<1> USE Numbers DEF Inv, TypeOK
<1>1. calibrating /\ ~event /\ ~Active(on)
  BY DEF CalibrationPass, CalibrationIsExclusive, Active
<1>2. Process(FALSE, fresh, view')
  <2>1. (event \/ Active(on)) = FALSE
    BY <1>1
  <2> QED
    BY <2>1 DEF CalibrationPass
<1>3. /\ spell' = IF EnoughClear(view') THEN Clip(spell + 1, Settle + Samples) ELSE 0
      /\ moved' = moved \ fresh /\ UNCHANGED <<hits, on, event, locked_for>>
      /\ UNCHANGED <<startup, boot_age>> \/ (startup' = FALSE /\ boot_age' = 0)
  BY <1>1 DEF CalibrationPass
<1>4. /\ count' \in [Fields -> 0 .. Samples] /\ calibrated' \subseteq Channels
      /\ clear_age' \in Nat /\ clear_age' <= Settle + 1 /\ spell' \in Nat
  <2>1. Learning /\ FALSE \in BOOLEAN
    BY DEF Learning
  <2>2. /\ count' \in [Fields -> 0 .. Samples] /\ calibrated' \subseteq Channels
        /\ clear_age' \in Nat /\ clear_age' <= Settle + 1
    BY <1>2, <2>1, ProcessTypes
  <2> QED
    BY <1>3, <2>2 DEF Clip
<1>5. SpellIsReal' /\ OneClearSpell'
  <2>1. CASE EnoughClear(view')
    <3>1. spell >= clear_age
      BY <1>1, <2>1, BlindIsNotClear DEF SpellIsReal
    <3>2. /\ spell' >= clear_age'
          /\ \A f \in Fields : f[1] \notin calibrated' /\ count'[f] > 0 => spell' >= Settle + count'[f]
      BY <1>1, <1>2, <1>3, <2>1, <3>1, SpellGrows
    <3> QED
      BY <3>2 DEF SpellIsReal, OneClearSpell
  <2>2. CASE ~EnoughClear(view')
    <3>1. clear_age' = 0 /\ calibrated' = calibrated /\ count' = [f \in Fields |-> Forgotten(f)]
      BY <1>2, <2>2 DEF Process
    <3>2. \A f \in Fields : f[1] \notin calibrated => count'[f] = 0
      BY <3>1 DEF Forgotten
    <3> QED
      BY <1>4, <3>1, <3>2 DEF SpellIsReal, OneClearSpell
  <2> QED
    BY <2>1, <2>2
<1>6. CalibrationIsExclusive' /\ LockIsReal'
  BY <1>1, <1>3 DEF CalibrationIsExclusive, LockIsReal
<1>7. CandidatesKeepStill'
  BY <1>3 DEF CandidatesKeepStill
<1> QED
  BY <1>3, <1>4, <1>5, <1>6, <1>7

\* A candidate comes up, or goes on without a result of its own, only in a pass that
\* tracks no baseline.
LEMMA DebouncedKeepsStill ==
  ASSUME CandidatesKeepStill, NEW fresh, NEW views, Debounce(Debouncing(views), fresh, views),
         moved' = IF Tracked(fresh, views) = {} THEN moved \ fresh
                  ELSE {f \in Fields : views[f] = "near"}
  PROVE /\ CandidatesKeepStill'
        /\ \A f \in on' \ on : f \in hits
<1> DEFINE live == Debouncing(views)
<1>1. PICK lower \in SUBSET ((live \cap fresh) \ on) :
        Debounced({f \in live \cap fresh \cap on : views[f] = "far"} \cup lower, live, fresh)
  BY DEF Debounce
<1> DEFINE disagreeing == {f \in live \cap fresh \cap on : views[f] = "far"} \cup lower
<1>2. /\ hits' = (disagreeing \ hits) \cup ((hits \cap live) \ fresh)
      /\ on' = ((on \cap live) \ (disagreeing \cap hits)) \cup ((disagreeing \cap hits) \ on)
  BY <1>1 DEF Debounced
<1>3. disagreeing \subseteq fresh
  OBVIOUS
<1>4. ASSUME Tracked(fresh, views) = {} PROVE CandidatesKeepStill'
  BY <1>2, <1>3, <1>4 DEF CandidatesKeepStill
<1>5. ASSUME Tracked(fresh, views) # {} PROVE CandidatesKeepStill'
  <2>1. hits' = {}
    BY <1>5 DEF Tracked, Tracks
  <2> QED
    BY <2>1 DEF CandidatesKeepStill
<1>6. \A f \in on' \ on : f \in hits
  BY <1>2
<1>7. CandidatesKeepStill'
  BY <1>4, <1>5
<1> QED
  BY <1>6, <1>7

LEMMA CountingPassInv ==
  ASSUME Inv, NEW fresh, CountingPass(fresh, view'), UNCHANGED up, view' \in [Fields -> Views]
  PROVE Inv'
<1> USE Numbers DEF Inv, TypeOK
<1> DEFINE clear == Cardinality(Healthy(view')) >= Quorum /\ ~Active(on')
           someone == event \/ Active(on')
<1>1. /\ Process(someone, fresh, view') /\ Unlock(clear)
      /\ calibrating' = FALSE /\ spell' = 0
      /\ locked_for' = IF clear /\ ~startup THEN Clip(locked_for + 1, BootSettle + 1) ELSE 0
  BY DEF CountingPass
<1>2. /\ count' \in [Fields -> 0 .. Samples] /\ calibrated' \subseteq Channels
      /\ clear_age' \in Nat /\ clear_age' <= Settle + 1
  <2>1. CASE someone
    BY <1>1, <2>1 DEF Process, Clip
  <2>2. CASE ~someone
    <3>1. Process(FALSE, fresh, view')
      BY <1>1, <2>2 DEF Process
    <3> QED
      BY <3>1, ProcessTypes DEF Learning
  <2> QED
    BY <2>1, <2>2
<1>3. boot_age' \in Nat /\ boot_age' <= BootSettle + 1 /\ locked_for' \in Nat /\ LockIsReal'
  BY <1>1 DEF Unlock, Clip, LockIsReal
<1>4. CandidatesKeepStill'
  BY DebouncedKeepsStill DEF CountingPass
<1> QED
  BY <1>1, <1>2, <1>3, <1>4 DEF CalibrationIsExclusive, SpellIsReal, OneClearSpell

LEMMA UpdatedInv ==
  ASSUME Inv, NEW fresh, Updated(fresh), UNCHANGED up,
         view' \in [Fields -> Views],
         NEW c, NEW zone, \A f \in Fields : f # <<c, zone>> => view'[f] = view[f]
  PROVE Inv'
<1>1. CASE CalibrationPass(fresh, view')
  BY <1>1, CalibrationPassInv
<1>2. CASE CountingPass(fresh, view')
  BY <1>2, CountingPassInv
<1> QED
  BY <1>1, <1>2 DEF Updated

\* What happens between two passes takes samples away, and evidence with them.
LEMMA BetweenInv ==
  ASSUME Inv, BusReset \/ Recalibrate \/ Rediscover
              \/ \E c \in Channels : PowerCycle(c) \/ Recovered(c) \/ Fade(c)
  PROVE Inv'
<1> USE Numbers DEF Inv, TypeOK, SpellIsReal, LockIsReal, OneClearSpell, CalibrationIsExclusive,
                   CandidatesKeepStill
<1>1. CASE BusReset
  BY <1>1 DEF BusReset, signals, Blind
<1>2. ASSUME StartOver PROVE /\ view' \in [Fields -> Views] /\ Blind' /\ CandidatesKeepStill'
                             /\ count' \in [Fields -> 0 .. Samples]
                             /\ LockIsReal' /\ OneClearSpell' /\ CalibrationIsExclusive'
  BY <1>2 DEF StartOver, Blind, Views
<1>3. CASE Recalibrate
  <2>1. StartOver /\ calibrated' = {} /\ clear_age' = 0 /\ spell' = 0 /\ up' = up
    BY <1>3 DEF Recalibrate
  <2>2. boot_age' = 0 /\ locked_for' = 0
    BY <2>1 DEF StartOver
  <2> QED
    BY <1>2, <2>1, <2>2
<1>4. CASE Rediscover
  <2>1. StartOver /\ up' = {} /\ UNCHANGED <<calibrated, clear_age, spell>>
    BY <1>4 DEF Rediscover
  <2>2. boot_age' = 0 /\ locked_for' = 0
    BY <2>1 DEF StartOver
  <2> QED
    BY <1>2, <2>1, <2>2
<1>5. ASSUME NEW c \in Channels, view' = Blank(view, {c}, "none")
      PROVE view' \in [Fields -> Views] /\ (Blind => Blind')
  BY <1>5 DEF Blank, Blind, Views
<1>6. ASSUME NEW c \in Channels, PowerCycle(c) PROVE Inv'
  <2>1. \A f \in Fields : count'[f] \in {0, count[f]}
    BY <1>6 DEF PowerCycle, Blank
  <2>2. count' \in [Fields -> 0 .. Samples]
    BY <1>6 DEF PowerCycle, Blank
  <2>3. /\ up' \in SUBSET Channels /\ on' \subseteq on /\ hits' \subseteq hits
        /\ UNCHANGED <<calibrated, event, calibrating, clear_age, startup, boot_age, spell,
                       locked_for, moved>>
    BY <1>6 DEF PowerCycle, Without
  <2>4. OneClearSpell'
    BY <2>1, <2>3
  <2>5. view' \in [Fields -> Views] /\ (Blind => Blind')
    BY <1>5, <1>6 DEF PowerCycle
  <2>6. CalibrationIsExclusive' /\ SpellIsReal' /\ LockIsReal' /\ CandidatesKeepStill'
    BY <2>3, <2>5
  <2> QED
    BY <2>2, <2>3, <2>4, <2>5, <2>6
<1>7. ASSUME NEW c \in Channels, Recovered(c) PROVE Inv'
  BY <1>7 DEF Recovered, signals, Blind
<1>8. ASSUME NEW c \in Channels, Fade(c) PROVE Inv'
  <2>1. view' \in [Fields -> Views] /\ (Blind => Blind')
    BY <1>5, <1>8 DEF Fade
  <2> QED
    BY <1>8, <2>1 DEF Fade
<1> QED
  BY <1>1, <1>3, <1>4, <1>6, <1>7, <1>8

LEMMA NextInv == Inv /\ [Next]_vars => Inv'
<1> SUFFICES ASSUME Inv, [Next]_vars PROVE Inv'
  OBVIOUS
<1>1. CASE IdlePass
  <2>1. /\ view' \in [Fields -> Views]
        /\ \A f \in Fields : f # <<"none", "none">> => view'[f] = view[f]
    BY <1>1 DEF IdlePass, Inv, TypeOK
  <2> QED
    BY <1>1, <2>1, UpdatedInv DEF IdlePass
<1>2. ASSUME NEW c \in Channels, Pass(c) PROVE Inv'
  <2>1. /\ view' \in [Fields -> Views]
        /\ \A f \in Fields : f # <<c, turn[c]>> => view'[f] = view[f]
    BY <1>2 DEF Pass, Inv, TypeOK, Views
  <2> QED
    BY <1>2, <2>1, UpdatedInv DEF Pass
<1>3. CASE BusReset \/ Recalibrate \/ Rediscover
           \/ \E c \in Channels : PowerCycle(c) \/ Recovered(c) \/ Fade(c)
  BY <1>3, BetweenInv
<1>4. CASE UNCHANGED vars
  BY <1>4 DEF vars, signals, Inv, TypeOK, SpellIsReal, Blind, LockIsReal, OneClearSpell,
              CalibrationIsExclusive, CandidatesKeepStill
<1> QED
  BY <1>1, <1>2, <1>3, <1>4 DEF Next

LEMMA Invariance == Spec => []Inv
<1>1. Init /\ [][Next]_vars => []Inv
  BY InitInv, NextInv, PTL
<1> QED
  BY <1>1, PTL DEF Spec

-----------------------------------------------------------------------------
\* While the device calibrates, all samples towards a baseline are of one spell in
\* which every pass saw nobody and enough channels clear, after it settled.
THEOREM BaselinesAreOfOneSpell == Spec => []OneClearSpell
<1>1. Inv => OneClearSpell
  BY DEF Inv
<1> QED
  BY <1>1, Invariance, PTL

\* While the device calibrates the startup lock is closed, no episode runs and no
\* field is active.
THEOREM NothingCountsMeanwhile == Spec => []CalibrationIsExclusive
<1>1. Inv => CalibrationIsExclusive
  BY DEF Inv
<1> QED
  BY <1>1, Invariance, PTL

\* The lock is opened by the pass that completes the time for which every pass saw
\* an empty doorway and enough channels.
THEOREM LockNeedsEmptyDoorway == Spec => UnlockedByEmptyDoorway
<1>1. Inv /\ Next /\ ~startup /\ startup' => locked_for' > BootSettle
  <2> SUFFICES ASSUME Inv, Next, ~startup, startup' PROVE locked_for' > BootSettle
    OBVIOUS
  <2>1. PICK fresh : CountingPass(fresh, view')
    BY DEF Next, IdlePass, Pass, Updated, CalibrationPass, BusReset, Recalibrate, Rediscover,
       StartOver, PowerCycle, Recovered, Fade
  <2> DEFINE clear == Cardinality(Healthy(view')) >= Quorum /\ ~Active(on')
  <2>2. /\ Unlock(clear)
        /\ locked_for' = IF clear /\ ~startup THEN Clip(locked_for + 1, BootSettle + 1) ELSE 0
    BY <2>1 DEF CountingPass
  <2>3. clear /\ boot_age >= BootSettle
    BY <2>2 DEF Unlock
  <2> QED
    BY <2>2, <2>3, Numbers DEF Inv, TypeOK, LockIsReal, Clip
<1>2. Inv /\ [Next]_vars => [~startup /\ startup' => locked_for' > BootSettle]_vars
  BY <1>1
<1> QED
  BY <1>2, Invariance, PTL DEF Spec, UnlockedByEmptyDoorway

\* When a result makes a field active, no baseline was tracked at the field's result
\* before it, which was the first of somebody who approaches, or at any pass since.
THEOREM ApproachesAreNotLearned == Spec => ApproachIsNotLearned
<1>1. Inv /\ Next => (\A f \in on' \ on : f \notin moved)
  <2> SUFFICES ASSUME Inv, Next, NEW f \in on' \ on PROVE f \notin moved
    OBVIOUS
  <2>1. PICK fresh : CountingPass(fresh, view')
    BY DEF Next, IdlePass, Pass, Updated, CalibrationPass, BusReset, Recalibrate, Rediscover,
       StartOver, PowerCycle, Without, Recovered, Fade, signals
  <2>2. f \in hits
    BY <2>1, DebouncedKeepsStill DEF CountingPass, Inv
  <2> QED
    BY <2>2 DEF Inv, CandidatesKeepStill
<1>2. Inv /\ [Next]_vars => [\A f \in on' \ on : f \notin moved]_vars
  BY <1>1
<1> QED
  BY <1>2, Invariance, PTL DEF Spec, ApproachIsNotLearned
=============================================================================
