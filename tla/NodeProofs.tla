----------------------------- MODULE NodeProofs -----------------------------
(***************************************************************************)
(* For any number of failures, restarts and settings, whatever flash held  *)
(* when the firmware was installed: the settings stay coherent, no mixed   *)
(* baseline is ever used, what is not marked dirty is saved, the guard     *)
(* restarts after full outages only, and the counts implement Ledger.      *)
(***************************************************************************)
EXTENDS Node, TLAPS

\* The clock and the differences of two readings are readings again.
LEMMA TimeIsNat == Modulus \in Nat /\ Modulus # 0 /\ 0 \in Time /\ Time \subseteq Nat
  BY ModulusAssumption DEF Time

LEMMA ElapsedType == ASSUME NEW from \in Time, NEW to \in Time PROVE Elapsed(from, to) \in Time
  BY ModulusAssumption DEF Time, Elapsed

LEMMA LaterType == ASSUME NEW t \in Time, NEW d \in Time PROVE Later(t, d) \in Time
  BY ModulusAssumption DEF Time, Later

\* A step of the clock never ages a time by more than the step, wrap or not.
LEMMA ElapsedGrows ==
  ASSUME NEW t \in Time, NEW at \in Time, NEW d \in Time
  PROVE Elapsed(t, Later(at, d)) <= Elapsed(t, at) + d
  BY ModulusAssumption DEF Time, Elapsed, Later

LEMMA ElapsedFromItself == ASSUME NEW t \in Time PROVE Elapsed(t, t) = 0
  BY ModulusAssumption DEF Time, Elapsed

-----------------------------------------------------------------------------
(* The node.                                                               *)

SavedOK(r) == r \in Saved /\ (r.version = PERSISTED_STATE_VERSION => r.calibrated # "mixed")
ContentOK(r) == r = NOTHING \/ SavedOK(r)

\* What the preferences hold was found there or saved by this layout.
RecordsOK == ContentOK(pending) /\ ContentOK(flash)

\* Until they are loaded, counts without a record are those of a new device.
Fresh ==
  /\ wire => loaded
  /\ ~loaded /\ Latest = NOTHING => people = 0 /\ confirmed = 0

Inv == TypeOK /\ NoMixedBaselines /\ RecordsOK /\ Fresh /\ CleanMeansSaved

\* What the records and the variables saved in them are typed by.
RamOK ==
  /\ people \in 0 .. max_people /\ max_people \in 1 .. 5000
  /\ confirmed \in Nat /\ trigger \in Nat /\ release \in 0 .. trigger - 1
  /\ auto_save \in BOOLEAN /\ calibrated \in Calibrations /\ calibrated # "mixed"

\* Everything else that TypeOK speaks of.
BootOK ==
  /\ {now, cold_due, next_rediscovery, disconnected_since} \subseteq Time
  /\ {wire, loaded, waiting, calibrating, dirty} \subseteq BOOLEAN
  /\ cold \in {"power-on", "soft", "pending", "over"}
  /\ failures \in 0 .. BusFailures /\ offline \in 0 .. GuardMs

LEMMA Parts == Inv <=> RamOK /\ BootOK /\ RecordsOK /\ Fresh /\ CleanMeansSaved
<1>1. Inv => RamOK /\ BootOK
  BY DEF Inv, TypeOK, Coherent, NoMixedBaselines, RamOK, BootOK
<1>2. RecordsOK => {pending, flash} \subseteq Saved \cup {NOTHING}
  BY DEF RecordsOK, ContentOK, SavedOK
<1> QED
  BY <1>1, <1>2 DEF Inv, TypeOK, Coherent, NoMixedBaselines, RamOK, BootOK

LEMMA NothingIsNotSaved == NOTHING \notin Saved
<1>1. NOTHING.version = 0
  BY DEF NOTHING
<1>2. \A r \in Saved : r.version # 0
  BY DEF Saved, Layouts, PERSISTED_STATE_VERSION
<1> QED
  BY <1>1, <1>2

LEMMA FoundOK == \A r \in Found : ContentOK(r)
  BY NodeAssumption, OldBaselines DEF ContentOK, SavedOK, Saved, Layouts, PERSISTED_STATE_VERSION, Calibrations

LEMMA MigratedOK ==
  ASSUME NEW r, SavedOK(r)
  PROVE /\ SavedOK(Migrated(r)) /\ Migrated(r).version = PERSISTED_STATE_VERSION
        /\ Migrated(r).people = r.people /\ Migrated(r).confirmed = r.confirmed
        /\ Migrated(r).max_people = r.max_people
<1>1. CASE r.version = PERSISTED_STATE_VERSION
  BY <1>1 DEF Migrated
<1>2. CASE r.version # PERSISTED_STATE_VERSION
  <2>1. r.trigger \div 2 \in Nat /\ Smaller(160, r.trigger \div 2) \in Nat
    BY DEF SavedOK, Saved, Smaller
  <2> DEFINE rise == CASE r.version = 3 -> 160
                       [] r.version = 4 -> Smaller(160, r.trigger \div 2)
                       [] OTHER -> r.release
  <2>2. rise \in Nat
    BY <2>1 DEF SavedOK, Saved
  <2>3. r \in Saved
    BY DEF SavedOK
  <2>4. Migrated(r) = [r EXCEPT !.version = PERSISTED_STATE_VERSION, !.calibrated = "none",
                                !.release = rise]
    BY <1>2, <2>3 DEF Migrated, Saved
  <2> HIDE DEF rise
  <2>5. Migrated(r) \in Saved
    <3>1. PERSISTED_STATE_VERSION \in Layouts /\ "none" \in Calibrations
      BY DEF Layouts, Calibrations, PERSISTED_STATE_VERSION
    <3> QED
      BY <2>2, <2>3, <2>4, <3>1 DEF Saved
  <2>6. /\ Migrated(r).version = PERSISTED_STATE_VERSION /\ Migrated(r).calibrated = "none"
        /\ Migrated(r).people = r.people /\ Migrated(r).confirmed = r.confirmed
        /\ Migrated(r).max_people = r.max_people
    BY <2>3, <2>4 DEF Saved
  <2> QED
    BY <2>5, <2>6 DEF SavedOK
<1> QED
  BY <1>1, <1>2

LEMMA HalfIsLess == \A t \in Nat : t >= 2 => t \div 2 \in 0 .. t - 1
  OBVIOUS

LEMMA SanitizedOK ==
  ASSUME NEW x
  PROVE /\ Sanitized(x, 1, 5000, 50) \in 1 .. 5000
        /\ Sanitized(x, 40, 3000, 320) \in 40 .. 3000
        /\ Sanitized(x, 20, 1000, 160) \in Nat
  BY DEF Sanitized

LEMMA ReleaseBelowOK ==
  ASSUME NEW r \in Nat, NEW t \in Nat, t >= 2
  PROVE ReleaseBelow(r, t) \in 0 .. t - 1
  BY HalfIsLess DEF ReleaseBelow

LEMMA RestoreOK ==
  ASSUME NEW r, SavedOK(r), r.version = PERSISTED_STATE_VERSION, Restore(r)
  PROVE RamOK' /\ GivenBackBy(r)'
<1>1. r.people \in Int /\ r.confirmed \in Nat /\ r.auto_save \in BOOLEAN /\ r.calibrated \in Calibrations
  BY DEF SavedOK, Saved
<1>3. max_people' \in 1 .. 5000
  BY SanitizedOK DEF Restore, Defaults
<1>4. trigger' \in 40 .. 3000
  BY SanitizedOK DEF Restore, Defaults
<1>5. people' \in 0 .. max_people'
  <2>1. max_people' \in Int /\ 0 <= max_people'
    BY <1>3
  <2>2. people' = Clamp(r.people, 0, max_people')
    BY DEF Restore, Defaults
  <2>3. Clamp(r.people, 0, max_people') \in 0 .. max_people'
    BY <1>1, <2>1 DEF Clamp, Smaller
  <2> QED
    BY <2>2, <2>3
<1>6. release' \in 0 .. trigger' - 1
  <2>1. Sanitized(r.release, 20, 1000, 160) \in Nat
    BY SanitizedOK
  <2> QED
    <3>1. trigger' \in Nat /\ trigger' >= 2
      BY <1>4
    <3>2. release' = ReleaseBelow(Sanitized(r.release, 20, 1000, 160), trigger')
      BY DEF Restore, Defaults
    <3> QED
      BY <2>1, <3>1, <3>2, ReleaseBelowOK
<1>7. RamOK'
  BY <1>1, <1>3, <1>4, <1>5, <1>6 DEF Restore, Defaults, RamOK, SavedOK
<1>8. GivenBackBy(r)'
  BY NothingIsNotSaved DEF Restore, Defaults, GivenBackBy, SavedOK
<1> QED
  BY <1>7, <1>8

LEMMA RecordOK ==
  ASSUME RamOK
  PROVE /\ SavedOK(Record) /\ Record.version = PERSISTED_STATE_VERSION /\ Record # NOTHING
        /\ GivenBackBy(Record)
<1>1. SavedOK(Record) /\ Record.version = PERSISTED_STATE_VERSION
  BY DEF RamOK, SavedOK, Saved, Record, Layouts, PERSISTED_STATE_VERSION
<1>2. Record # NOTHING
  BY <1>1, NothingIsNotSaved DEF SavedOK
<1>3. GivenBackBy(Record)
  BY <1>2 DEF GivenBackBy, Record, RamOK, Clamp, Smaller, Sanitized
<1> QED
  BY <1>1, <1>2, <1>3

LEMMA Times ==
  /\ DiscoveryMs \in Time /\ RetryMs \in Time /\ ColdMs \in Time /\ GuardMs \in Nat
  /\ BusFailures \in Nat /\ 0 \in Time /\ Steps \subseteq Time /\ Time \subseteq Nat
  BY TimeIsNat, NodeAssumption

LEMMA BootIsClean ==
  ASSUME NEW content, ContentOK(content), NEW by_power \in BOOLEAN, Boot(content, by_power)
  PROVE Inv'
<1>1. RamOK'
  BY DEF Boot, Configured, RamOK, Calibrations
<1>2. Fresh' /\ CleanMeansSaved'
  BY DEF Boot, Fresh, CleanMeansSaved
<1>3. RecordsOK'
  BY DEF Boot, RecordsOK, ContentOK
<1>4. BootOK'
  <2>1. 0 \in 0 .. BusFailures /\ 0 \in 0 .. GuardMs /\ DiscoveryMs \in Time /\ 0 \in Time
    BY Times
  <2>2. cold' \in {"power-on", "soft"}
    BY DEF Boot
  <2>3. {now', cold_due', next_rediscovery', disconnected_since'} \subseteq Time
    BY <2>1 DEF Boot
  <2>4. /\ {wire', loaded', waiting', calibrating', dirty'} \subseteq BOOLEAN
        /\ failures' = 0 /\ offline' = 0
    BY DEF Boot
  <2> QED
    BY <2>1, <2>2, <2>3, <2>4 DEF BootOK
<1> QED
  BY <1>1, <1>2, <1>3, <1>4, Parts, PTL

\* What is saved is what it was saved from.
LEMMA SavedIsClean ==
  ASSUME RamOK', RecordsOK, Persist, flash' = flash
  PROVE RecordsOK' /\ CleanMeansSaved' /\ Latest' # NOTHING
<1>1. SavedOK(Record)' /\ (Record # NOTHING)' /\ GivenBackBy(Record)'
  BY RecordOK, PTL
<1>2. Latest' = Record'
  BY <1>1 DEF Persist, Latest
<1>3. CleanMeansSaved'
  BY <1>1, <1>2 DEF CleanMeansSaved, GivenBackBy
<1>4. RecordsOK'
  BY <1>1 DEF Persist, RecordsOK, ContentOK, SavedOK
<1> QED
  BY <1>1, <1>2, <1>3, <1>4

\* What is not saved is marked, or has not changed.
LEMMA UnsavedIsMarked ==
  ASSUME CleanMeansSaved, RecordsOK, UNCHANGED <<pending, flash>>,
         dirty' = TRUE \/ UNCHANGED <<people, confirmed, max_people, loaded, dirty>>
  PROVE RecordsOK' /\ CleanMeansSaved' /\ Latest' = Latest
  BY DEF RecordsOK, ContentOK, SavedOK, CleanMeansSaved, GivenBackBy, Latest

LEMMA DiscoverOK ==
  ASSUME Inv, Discover, flash' = flash
  PROVE /\ RamOK' /\ RecordsOK' /\ CleanMeansSaved'
        /\ loaded' = TRUE /\ calibrating' = TRUE /\ dirty' \in BOOLEAN
        /\ \E r : r = (IF loaded THEN Record ELSE Latest) /\ Latest' = r /\ GivenBackBy(r)'
<1>1. RamOK /\ BootOK /\ RecordsOK /\ Fresh
  BY Parts
<1>2. loaded' = TRUE /\ calibrating' = TRUE
  BY DEF Discover
<1>3. CASE loaded
  <2>1. PICK r : r = Record
    OBVIOUS
  <2>2. SavedOK(r) /\ r.version = PERSISTED_STATE_VERSION /\ r # NOTHING
    BY <1>1, <2>1, RecordOK
  <2>3. Load(r, FALSE) /\ pending' = r
    BY <1>3, <2>1 DEF Discover
  <2>4. Migrated(r) = r
    BY <2>2 DEF Migrated
  <2>5. Restore(r) /\ dirty' = FALSE
    <3>1. ~(r.version < PERSISTED_STATE_VERSION)
      BY <2>2 DEF PERSISTED_STATE_VERSION
    <3>2. Restore(r) /\ dirty' = (FALSE \/ r.version < PERSISTED_STATE_VERSION)
      BY <2>2, <2>3, <2>4 DEF Load
    <3> QED
      BY <3>1, <3>2, Zenon
  <2>6. RamOK' /\ GivenBackBy(r)'
    BY <2>2, <2>5, RestoreOK
  <2>7. Latest' = r /\ RecordsOK'
    BY <1>1, <2>2, <2>3 DEF Latest, RecordsOK, ContentOK, SavedOK
  <2>8. CleanMeansSaved'
    BY <2>6, <2>7 DEF CleanMeansSaved, GivenBackBy
  <2>9. \E s : s = (IF loaded THEN Record ELSE Latest) /\ Latest' = s /\ GivenBackBy(s)'
    <3> WITNESS r
    <3> QED
      BY <1>3, <2>1, <2>6, <2>7
  <2> QED
    BY <1>2, <2>5, <2>6, <2>7, <2>8, <2>9
<1>4. CASE ~loaded
  <2>1. PICK r : r = Latest
    OBVIOUS
  <2>2. Load(r, dirty) /\ UNCHANGED pending /\ ContentOK(r)
    BY <1>1, <1>4, <2>1 DEF Discover, Latest, RecordsOK
  <2>3. Latest' = r /\ RecordsOK'
    BY <1>1, <2>1, <2>2 DEF Latest, RecordsOK, ContentOK, SavedOK
  <2>4. CASE r = NOTHING
    <3>1. calibrated' = "none" /\ dirty' = dirty /\ UNCHANGED <<counts, settings>>
      BY <2>2, <2>4 DEF Load
    <3>2. RamOK'
      BY <1>1, <3>1 DEF RamOK, counts, settings, Calibrations
    <3>3. GivenBackBy(r)'
      BY <1>1, <1>4, <2>1, <2>4, <3>1 DEF Fresh, GivenBackBy, counts
    <3>4. \E s : s = (IF loaded THEN Record ELSE Latest) /\ Latest' = s /\ GivenBackBy(s)'
      <4> WITNESS r
      <4> QED
        BY <1>4, <2>1, <2>3, <3>3
    <3> QED
      BY <1>1, <1>2, <2>3, <3>1, <3>2, <3>3, <3>4 DEF BootOK, CleanMeansSaved, GivenBackBy
  <2>5. CASE r # NOTHING
    <3>1. SavedOK(r) /\ dirty \in BOOLEAN
      BY <1>1, <2>2, <2>5 DEF ContentOK, BootOK
    <3>2. Restore(Migrated(r)) /\ dirty' = (dirty \/ r.version < PERSISTED_STATE_VERSION)
      BY <2>2, <2>5 DEF Load
    <3>3. PICK whole : whole = Migrated(r)
      OBVIOUS
    <3>4. /\ SavedOK(whole) /\ whole.version = PERSISTED_STATE_VERSION /\ whole.people = r.people
          /\ whole.confirmed = r.confirmed /\ whole.max_people = r.max_people
      BY <3>1, <3>3, MigratedOK
    <3>5. RamOK' /\ GivenBackBy(whole)'
      BY <3>2, <3>3, <3>4, RestoreOK
    <3>6. GivenBackBy(r)'
      BY <2>5, <3>4, <3>5, NothingIsNotSaved DEF GivenBackBy, SavedOK
    <3>7. dirty' \in BOOLEAN
      BY <3>1, <3>2
    <3>8. \E s : s = (IF loaded THEN Record ELSE Latest) /\ Latest' = s /\ GivenBackBy(s)'
      <4> WITNESS r
      <4> QED
        BY <1>4, <2>1, <2>3, <3>6
    <3> QED
      BY <1>2, <2>3, <3>5, <3>6, <3>7, <3>8 DEF CleanMeansSaved, GivenBackBy
  <2> QED
    BY <2>4, <2>5
<1> QED
  BY <1>3, <1>4

LEMMA GoOnOK ==
  ASSUME BootOK, NEW step \in Steps, NEW away \in BOOLEAN, GoOn(step, away)
  PROVE /\ {now', cold_due', disconnected_since'} \subseteq Time /\ waiting' \in BOOLEAN
        /\ cold' \in {"power-on", "soft", "pending", "over"} /\ offline' \in 0 .. GuardMs
        /\ flash' = flash
<1>1. ColdMs \in Time /\ step \in Time /\ step \in Nat /\ GuardMs \in Nat /\ 0 \in Time
  BY Times
<1>2. now' \in Time
  BY <1>1, LaterType DEF GoOn, BootOK
<1>3. cold_due' \in Time
  BY <1>1, <1>2, LaterType DEF GoOn, BootOK, ColdDue
<1>4. disconnected_since' \in Time /\ waiting' \in BOOLEAN
  BY <1>1, <1>2 DEF GoOn, Watch, BootOK
<1>5. offline' \in 0 .. GuardMs
  BY <1>1 DEF GoOn, BootOK, Smaller
<1> QED
  BY <1>2, <1>3, <1>4, <1>5 DEF GoOn

\* The bus may go down after the start; nothing is loaded twice for that.
LEMMA BusHoldsOK ==
  ASSUME BootOK, BusHolds
  PROVE wire' \in BOOLEAN /\ failures' \in 0 .. BusFailures /\ (wire' => wire)
<1>1. wire \in BOOLEAN /\ failures \in 0 .. BusFailures /\ BusFailures \in Nat
  BY Times DEF BootOK
<1>2. wire' \in BOOLEAN /\ (wire' => wire)
  <2>1. wire' = wire \/ wire' = FALSE
    BY DEF BusHolds
  <2>2. CASE wire' = wire
    BY <1>1, <2>2
  <2>3. CASE wire' = FALSE
    BY <2>3
  <2> QED
    BY <2>1, <2>2, <2>3
<1>3. failures' \in 0 .. BusFailures
  BY <1>1 DEF BusHolds
<1> QED
  BY <1>2, <1>3

LEMMA InitOK == Init => Inv
<1> SUFFICES ASSUME Init PROVE Inv
  OBVIOUS
<1>1. RamOK
  BY DEF Init, RamOK, Calibrations
<1>2. Fresh /\ CleanMeansSaved
  BY DEF Init, Fresh, CleanMeansSaved
<1>3. RecordsOK
  BY FoundOK DEF Init, RecordsOK, ContentOK
<1>4. BootOK
  <2>1. {now, cold_due, next_rediscovery, disconnected_since} \subseteq Time
    BY Times DEF Init
  <2>2. {wire, loaded, waiting, calibrating, dirty} \subseteq BOOLEAN /\ cold = "power-on"
    BY DEF Init
  <2>3. failures \in 0 .. BusFailures /\ offline \in 0 .. GuardMs
    BY Times DEF Init
  <2> QED
    BY <2>1, <2>2, <2>3 DEF BootOK
<1> QED
  BY <1>1, <1>2, <1>3, <1>4, Parts

LEMMA UpdateOK == Inv /\ Update => Inv'
<1> SUFFICES ASSUME Inv, NEW step \in Steps, NEW away \in BOOLEAN,
                    \/ GuardRestart(step, away) \/ ColdRestart(step, away)
                    \/ AwaitBus(step, away) \/ BusFailed(step, away) \/ StartBus(step, away)
                    \/ Calibrate(step, away) \/ Count(step, away)
             PROVE Inv'
  BY DEF Update
<1>1. RamOK /\ BootOK /\ RecordsOK /\ Fresh /\ CleanMeansSaved
  BY Parts
<1> SUFFICES Inv' \/ (RamOK /\ BootOK /\ RecordsOK /\ Fresh /\ CleanMeansSaved)'
  BY Parts, PTL
<1>2. ASSUME GoOn(step, away)
      PROVE /\ {now', cold_due', disconnected_since'} \subseteq Time /\ waiting' \in BOOLEAN
            /\ cold' \in {"power-on", "soft", "pending", "over"} /\ offline' \in 0 .. GuardMs
            /\ flash' = flash
  BY <1>1, <1>2, GoOnOK
<1>3. CASE GuardRestart(step, away)
  BY <1>1, <1>3, RecordOK, BootIsClean DEF GuardRestart, ContentOK
<1>4. CASE ColdRestart(step, away)
  BY <1>1, <1>4, BootIsClean DEF ColdRestart, RecordsOK
<1>5. CASE AwaitBus(step, away)
  <2>1. GoOn(step, away) /\ UNCHANGED <<wire, loaded, calibrating, dirty, failures, next_rediscovery,
          pending, counts, settings, calibrated>>
    BY <1>5 DEF AwaitBus
  <2>2. RecordsOK' /\ CleanMeansSaved' /\ Latest' = Latest
    BY <1>1, <1>2, <2>1, UnsavedIsMarked DEF counts, settings
  <2>3. RamOK' /\ Fresh'
    BY <1>1, <2>1, <2>2 DEF RamOK, Fresh, counts, settings
  <2>4. BootOK'
    BY <1>1, <1>2, <2>1 DEF BootOK
  <2> QED
    BY <2>2, <2>3, <2>4
<1>6. CASE BusFailed(step, away)
  <2>1. /\ GoOn(step, away) /\ UNCHANGED <<wire, loaded, calibrating, dirty, pending, counts, settings,
             calibrated>>
        /\ failures < BusFailures /\ failures' = failures + 1
        /\ next_rediscovery' = Later(now', RetryMs)
    BY <1>6 DEF BusFailed
  <2>2. RecordsOK' /\ CleanMeansSaved' /\ Latest' = Latest
    BY <1>1, <1>2, <2>1, UnsavedIsMarked DEF counts, settings
  <2>3. RamOK' /\ Fresh'
    BY <1>1, <2>1, <2>2 DEF RamOK, Fresh, counts, settings
  <2>4. next_rediscovery' \in Time /\ failures' \in 0 .. BusFailures
    <3>1. now' \in Time /\ RetryMs \in Time /\ BusFailures \in Nat /\ failures \in 0 .. BusFailures
      BY <1>1, <1>2, <2>1, Times DEF BootOK
    <3>2. failures' \in 0 .. BusFailures
      BY <2>1, <3>1
    <3> QED
      BY <2>1, <3>1, <3>2, LaterType
  <2>5. BootOK'
    BY <1>1, <1>2, <2>1, <2>4 DEF BootOK
  <2> QED
    BY <2>2, <2>3, <2>5
<1>7. CASE StartBus(step, away)
  <2>1. GoOn(step, away) /\ wire' = TRUE /\ Discover /\ UNCHANGED <<next_rediscovery, failures>>
    BY <1>7 DEF StartBus
  <2>2. /\ RamOK' /\ RecordsOK' /\ CleanMeansSaved'
        /\ loaded' = TRUE /\ calibrating' = TRUE /\ dirty' \in BOOLEAN
    BY <1>2, <2>1, DiscoverOK
  <2>3. BootOK' /\ Fresh'
    BY <1>1, <1>2, <2>1, <2>2 DEF BootOK, Fresh
  <2> QED
    BY <2>2, <2>3
<1>8. CASE Calibrate(step, away)
  <2>1. GoOn(step, away) /\ wire /\ BusHolds /\ UNCHANGED <<counts, settings, loaded, next_rediscovery>>
    BY <1>8 DEF Calibrate
  <2>2. /\ calibrated' \in {calibrated, "own"} /\ calibrating' \in BOOLEAN /\ dirty' \in BOOLEAN
        /\ \/ Persist
           \/ UNCHANGED pending /\ (dirty' = TRUE \/ UNCHANGED dirty)
    BY <1>1, <1>8 DEF Calibrate, Persist, BootOK
  <2>3. RamOK'
    BY <1>1, <2>1, <2>2 DEF RamOK, counts, settings, Calibrations
  <2>4. RecordsOK' /\ CleanMeansSaved'
    BY <1>1, <1>2, <2>1, <2>2, <2>3, SavedIsClean, UnsavedIsMarked DEF counts, settings
  <2>5. BootOK' /\ Fresh'
    BY <1>1, <1>2, <2>1, <2>2, BusHoldsOK DEF BootOK, Fresh
  <2> QED
    BY <2>3, <2>4, <2>5
<1>9. CASE Count(step, away)
  <2>1. /\ GoOn(step, away) /\ wire /\ BusHolds
        /\ calibrating' = FALSE /\ UNCHANGED <<settings, calibrated, loaded, next_rediscovery>>
    BY <1>9 DEF Count
  <2>2. /\ confirmed' \in Nat /\ people' \in 0 .. max_people
        /\ \/ Persist
           \/ UNCHANGED pending /\ (dirty' = TRUE \/ UNCHANGED <<counts, dirty>>)
    <3>1. CASE UNCHANGED counts /\ SavedAtEnd(FALSE)
      BY <1>1, <3>1 DEF SavedAtEnd, RamOK, BootOK, counts
    <3>2. ASSUME NEW change \in {-1, 0, 1}, CountBy(change), SavedAtEnd(TRUE)
          PROVE /\ confirmed' \in Nat /\ people' \in 0 .. max_people
                /\ Persist \/ (UNCHANGED pending /\ dirty' = TRUE)
      <4>1. /\ people \in Int /\ max_people \in Nat /\ change \in Int /\ confirmed \in Nat
        BY <1>1 DEF RamOK
      <4>2. confirmed' \in Nat /\ people' = Clamp(people + change, 0, max_people)
        BY <3>2, <4>1 DEF CountBy
      <4>3. people' \in 0 .. max_people
        BY <4>1, <4>2 DEF Clamp, Smaller
      <4>4. Persist \/ (UNCHANGED pending /\ dirty' = TRUE)
        BY <3>2 DEF SavedAtEnd
      <4> QED
        BY <4>2, <4>3, <4>4
    <3> QED
      BY <1>9, <3>1, <3>2 DEF Count
  <2>3. RamOK'
    BY <1>1, <2>1, <2>2 DEF RamOK, settings
  <2>4. RecordsOK' /\ CleanMeansSaved'
    BY <1>1, <1>2, <2>1, <2>2, <2>3, SavedIsClean, UnsavedIsMarked DEF counts, settings
  <2>5. dirty' \in BOOLEAN
    BY <1>1, <2>2 DEF Persist, BootOK
  <2>6. BootOK' /\ Fresh'
    BY <1>1, <1>2, <2>1, <2>5, BusHoldsOK DEF BootOK, Fresh
  <2> QED
    BY <2>3, <2>4, <2>6
<1> QED
  BY <1>3, <1>4, <1>5, <1>6, <1>7, <1>8, <1>9

\* What an operator's act leaves alone.
LEMMA ActsOK ==
  ASSUME BootOK, Acts, UNCHANGED loaded, calibrating' \in BOOLEAN, dirty' \in BOOLEAN
  PROVE BootOK' /\ flash' = flash /\ wire' = wire
  BY DEF Acts, guard, BootOK

LEMMA OperateOK == Inv /\ Operate => Inv'
<1> SUFFICES ASSUME Inv, Operate PROVE (RamOK /\ BootOK /\ RecordsOK /\ Fresh /\ CleanMeansSaved)'
  BY Parts, PTL
<1>1. RamOK /\ BootOK /\ RecordsOK /\ Fresh /\ CleanMeansSaved
  BY Parts
<1>2. ASSUME NEW request \in Requests, ApplySettings(request)
      PROVE (RamOK /\ BootOK /\ RecordsOK /\ Fresh /\ CleanMeansSaved)'
  <2>1. /\ Acts /\ UNCHANGED <<confirmed, calibrated, calibrating, loaded>> /\ Persist
        /\ people' = Smaller(people, max_people')
    BY <1>2 DEF ApplySettings
  <2>2. /\ request.trigger \in Int /\ request.release \in Int /\ request.max_people \in Int
        /\ request.auto_save \in BOOLEAN
    BY NodeAssumption
  <2>3. max_people' \in 1 .. 500
    BY <1>2, <2>2 DEF ApplySettings, Clamp, Smaller
  <2>4. people' \in 0 .. max_people'
    BY <1>1, <2>1, <2>3 DEF Smaller, RamOK
  <2>5. trigger' \in 80 .. 1200
    BY <1>2, <2>2 DEF ApplySettings, Clamp, Smaller
  <2>6. release' \in 0 .. trigger' - 1
    <3>1. Clamp(request.release, 40, 900) \in Nat
      BY <2>2 DEF Clamp, Smaller
    <3>2. release' = ReleaseBelow(Clamp(request.release, 40, 900), trigger')
      BY <1>2 DEF ApplySettings
    <3>3. trigger' \in Nat /\ trigger' >= 2
      BY <2>5
    <3> QED
      BY <3>1, <3>2, <3>3, ReleaseBelowOK
  <2>7. RamOK'
    BY <1>1, <1>2, <2>1, <2>2, <2>3, <2>4, <2>5, <2>6 DEF RamOK, ApplySettings
  <2>8. BootOK' /\ flash' = flash /\ wire' = wire
    BY <1>1, <2>1, ActsOK DEF Persist, BootOK
  <2> QED
    BY <1>1, <2>1, <2>7, <2>8, SavedIsClean DEF Fresh
<1>3. CASE ResetCounts
  <2>1. /\ Acts /\ UNCHANGED <<settings, calibrated, calibrating, loaded>>
        /\ people' = 0 /\ confirmed' = 0
        /\ Persist \/ (dirty' = TRUE /\ UNCHANGED pending)
    BY <1>3 DEF ResetCounts
  <2>2. RamOK'
    BY <1>1, <2>1 DEF RamOK, settings
  <2>3. BootOK' /\ flash' = flash /\ wire' = wire
    BY <1>1, <2>1, ActsOK DEF Persist, BootOK
  <2> QED
    BY <1>1, <2>1, <2>2, <2>3, SavedIsClean, UnsavedIsMarked DEF Fresh
<1>4. CASE Recalibrate
  <2>1. /\ Acts /\ UNCHANGED <<counts, settings, dirty, pending, loaded>>
        /\ calibrated' = "none" /\ calibrating' = TRUE
    BY <1>4 DEF Recalibrate
  <2>2. RamOK'
    BY <1>1, <2>1 DEF RamOK, counts, settings, Calibrations
  <2>3. BootOK' /\ flash' = flash /\ wire' = wire
    BY <1>1, <2>1, ActsOK DEF BootOK
  <2>4. RecordsOK' /\ CleanMeansSaved' /\ Latest' = Latest
    BY <1>1, <2>1, <2>3, UnsavedIsMarked DEF counts, settings
  <2> QED
    BY <1>1, <2>1, <2>2, <2>3, <2>4 DEF Fresh, counts
<1>5. CASE Rediscover
  <2>1. Acts /\ Discover
    BY <1>5 DEF Rediscover
  <2>2. flash' = flash /\ UNCHANGED <<now, cold, cold_due, next_rediscovery, wire, failures, guard>>
    BY <2>1 DEF Acts
  <2>3. /\ RamOK' /\ RecordsOK' /\ CleanMeansSaved'
        /\ loaded' = TRUE /\ calibrating' = TRUE /\ dirty' \in BOOLEAN
    BY <2>1, <2>2, DiscoverOK
  <2> QED
    BY <1>1, <2>2, <2>3 DEF BootOK, Fresh, guard
<1>6. CASE \E value \in {60} : SetPeopleInside(value)
  <2>1. /\ Acts /\ UNCHANGED <<confirmed, settings, calibrated, calibrating, loaded>>
        /\ people' = Clamp(60, 0, max_people) /\ Persist
    BY <1>6 DEF SetPeopleInside
  <2>2. people' \in 0 .. max_people
    BY <1>1, <2>1 DEF Clamp, Smaller, RamOK
  <2>3. RamOK'
    BY <1>1, <2>1, <2>2 DEF RamOK, settings
  <2>4. BootOK' /\ flash' = flash /\ wire' = wire
    BY <1>1, <2>1, ActsOK DEF Persist, BootOK
  <2> QED
    BY <1>1, <2>1, <2>3, <2>4, SavedIsClean DEF Fresh
<1> QED
  BY <1>2, <1>3, <1>4, <1>5, <1>6 DEF Operate

LEMMA StepOK == Inv /\ [Next]_vars => Inv'
<1> SUFFICES ASSUME Inv, [Next]_vars PROVE Inv'
  OBVIOUS
<1>1. RamOK /\ BootOK /\ RecordsOK /\ Fresh /\ CleanMeansSaved
  BY Parts
<1>2. CASE Sync
  <2>1. /\ pending # NOTHING /\ flash' = pending /\ pending' = NOTHING
        /\ UNCHANGED <<now, boot, guard, counts, settings, calibrated, calibrating, dirty>>
    BY <1>2 DEF Sync
  <2>2. Latest' = Latest
    BY <2>1 DEF Latest
  <2>3. RecordsOK' /\ RamOK' /\ BootOK'
    BY <1>1, <2>1 DEF RecordsOK, ContentOK, SavedOK, RamOK, BootOK, boot, guard, counts, settings
  <2>4. Fresh' /\ CleanMeansSaved'
    BY <1>1, <2>1, <2>2 DEF Fresh, CleanMeansSaved, GivenBackBy, boot, counts, settings
  <2> QED
    BY <2>3, <2>4, Parts, PTL
<1>3. CASE SafeReboot
  <2>1. ContentOK(Latest)
    BY <1>1 DEF RecordsOK, Latest
  <2> QED
    BY <1>3, <2>1, BootIsClean DEF SafeReboot
<1>4. CASE PowerLoss
  BY <1>1, <1>4, BootIsClean DEF PowerLoss, RecordsOK
<1>5. CASE UNCHANGED vars
  BY <1>5 DEF vars, boot, guard, counts, settings, Inv, TypeOK, Coherent, NoMixedBaselines, RecordsOK,
    ContentOK, SavedOK, Fresh, CleanMeansSaved, GivenBackBy, Latest
<1> QED
  BY <1>2, <1>3, <1>4, <1>5, UpdateOK, OperateOK DEF Next

LEMMA Invariance == Spec => []Inv
  BY InitOK, StepOK, PTL DEF Spec

\* The counts never leave the range the settings give them, whatever is loaded,
\* asked for or counted, and the release delta stays below the trigger delta.
THEOREM SettingsStayCoherent == Spec => []TypeOK
<1>1. Inv => TypeOK
  BY DEF Inv
<1> QED
  BY <1>1, Invariance, PTL

\* What dirty does not mark as unsaved is what a restart gives back.
THEOREM CleanCountsAreSaved == Spec => []CleanMeansSaved
<1>1. Inv => CleanMeansSaved
  BY DEF Inv
<1> QED
  BY <1>1, Invariance, PTL

\* No baseline measured over two fields is ever counted with.
THEOREM BaselinesAreOwn == Spec => []NoMixedBaselines
<1>1. Inv => NoMixedBaselines
  BY DEF Inv
<1> QED
  BY <1>1, Invariance, PTL

-----------------------------------------------------------------------------
(* The outage guard.                                                       *)

\* However the clock wraps, an outage has been seen for as long as the guard waits.
Watched == waiting => offline >= Smaller(Elapsed(disconnected_since, now), GuardMs)

LEMMA GoOnWatched ==
  ASSUME BootOK, Watched, NEW step \in Steps, NEW away \in BOOLEAN, GoOn(step, away)
  PROVE Watched'
<1>1. step \in Time /\ step \in Nat /\ GuardMs \in Nat /\ now \in Time
  BY Times DEF BootOK
<1>2. disconnected_since \in Time /\ offline \in 0 .. GuardMs /\ waiting \in BOOLEAN
  BY DEF BootOK
<1>3. now' = Later(now, step) /\ now' \in Time
  BY <1>1, LaterType DEF GoOn
<1>4. CASE waiting' /\ waiting
  <2>1. disconnected_since' = disconnected_since /\ offline' = Smaller(offline + step, GuardMs)
    BY <1>4 DEF GoOn, Watch
  <2>2. Elapsed(disconnected_since, now') <= Elapsed(disconnected_since, now) + step
    BY <1>1, <1>2, <1>3, ElapsedGrows
  <2>3. Elapsed(disconnected_since, now) \in Time /\ Elapsed(disconnected_since, now') \in Time
    BY <1>1, <1>2, <1>3, ElapsedType
  <2>4. Elapsed(disconnected_since, now) \in Nat /\ Elapsed(disconnected_since, now') \in Nat
    BY <2>3, TimeIsNat
  <2>5. offline >= Smaller(Elapsed(disconnected_since, now), GuardMs)
    BY <1>4 DEF Watched
  <2>6. Smaller(offline + step, GuardMs) >= Smaller(Elapsed(disconnected_since, now'), GuardMs)
    BY <1>1, <1>2, <2>2, <2>4, <2>5 DEF Smaller
  <2> QED
    BY <2>1, <2>6 DEF Watched
<1>5. CASE waiting' /\ ~waiting
  <2>1. disconnected_since' = now' /\ offline' = 0
    BY <1>5 DEF GoOn, Watch
  <2>2. Elapsed(now', now') = 0
    BY <1>3, ElapsedFromItself
  <2> QED
    BY <1>1, <2>1, <2>2 DEF Watched, Smaller
<1> QED
  BY <1>4, <1>5 DEF Watched

LEMMA StepWatched == Inv /\ Watched /\ [Next]_vars => Watched'
<1> SUFFICES ASSUME Inv, Watched, [Next]_vars PROVE Watched'
  OBVIOUS
<1>1. BootOK
  BY Parts
<1>2. ASSUME NEW content, NEW by_power \in BOOLEAN, Boot(content, by_power) PROVE Watched'
  BY <1>2 DEF Boot, Watched
<1>3. CASE Update
  <2>1. PICK step \in Steps, away \in BOOLEAN :
          \/ GuardRestart(step, away) \/ ColdRestart(step, away)
          \/ AwaitBus(step, away) \/ BusFailed(step, away) \/ StartBus(step, away)
          \/ Calibrate(step, away) \/ Count(step, away)
    BY <1>3 DEF Update
  <2>2. CASE GuardRestart(step, away) \/ ColdRestart(step, away)
    BY <1>2, <2>2 DEF GuardRestart, ColdRestart
  <2>3. CASE GoOn(step, away)
    BY <1>1, <2>3, GoOnWatched
  <2> QED
    BY <2>1, <2>2, <2>3 DEF AwaitBus, BusFailed, StartBus, Calibrate, Count
<1>4. CASE Operate \/ Sync \/ UNCHANGED vars
  <2>1. UNCHANGED <<now, guard>>
    BY <1>4 DEF Operate, ApplySettings, ResetCounts, Recalibrate, Rediscover, SetPeopleInside, Acts,
       Sync, vars
  <2> QED
    BY <2>1 DEF Watched, guard
<1>5. CASE SafeReboot \/ PowerLoss
  BY <1>2, <1>5 DEF SafeReboot, PowerLoss
<1> QED
  BY <1>3, <1>4, <1>5 DEF Next

\* The guard restarts the device only at the end of an outage of the full timeout
\* that every pass saw, however the clock wraps meanwhile.
THEOREM RestartsFollowOutages == Spec => GuardAfterOutage
<1>1. Init => Watched
  BY DEF Init, Watched
<1>2. Inv /\ Watched /\ [Next]_vars
        => [\A step \in Steps : GuardRestart(step, TRUE) => offline + step >= GuardMs]_vars
  <2> SUFFICES ASSUME Inv, Watched, NEW step \in Steps, GuardRestart(step, TRUE)
               PROVE offline + step >= GuardMs
    OBVIOUS
  <2>1. /\ now \in Time /\ disconnected_since \in Time /\ offline \in 0 .. GuardMs
        /\ step \in Time /\ step \in Nat /\ GuardMs \in Nat
    BY Parts, Times DEF BootOK
  <2>2. waiting /\ Elapsed(disconnected_since, Later(now, step)) >= GuardMs
    BY DEF GuardRestart, GuardFires
  <2>3. Elapsed(disconnected_since, Later(now, step)) <= Elapsed(disconnected_since, now) + step
    BY <2>1, ElapsedGrows
  <2>4. Elapsed(disconnected_since, now) \in Nat /\ Elapsed(disconnected_since, Later(now, step)) \in Nat
    BY <2>1, ElapsedType, LaterType, TimeIsNat
  <2> QED
    BY <2>1, <2>2, <2>3, <2>4 DEF Watched, Smaller
<1> QED
  BY <1>1, <1>2, InitOK, StepOK, StepWatched, PTL DEF Spec, GuardAfterOutage

-----------------------------------------------------------------------------
(* The ledger, implemented.                                                *)

RamCounts == [people |-> people, confirmed |-> confirmed]

\* The outage guard finds the saved state loaded: without this it may save the
\* counts of a new device over those in flash.
GuardWaitsForLoad == [][\A step \in Steps : GuardRestart(step, TRUE) => loaded]_vars

LEMMA ClampOK == \A x \in Int, most \in Nat : Clamp(x, 0, most) \in 0 .. most
  BY DEF Clamp, Smaller

LEMMA ContentCounts == \A r : ContentOK(r) => CountsOf(r) \in Abstract!Counts
<1> SUFFICES ASSUME NEW r, ContentOK(r) PROVE CountsOf(r) \in Abstract!Counts
  OBVIOUS
<1>1. CASE r = NOTHING
  BY <1>1 DEF CountsOf, Abstract!Counts
<1>2. CASE r # NOTHING
  <2>1. r.people \in Int /\ r.confirmed \in Nat
    BY <1>2 DEF ContentOK, SavedOK, Saved
  <2>2. PICK most : most = Sanitized(r.max_people, 1, 5000, 50)
    OBVIOUS
  <2>3. most \in 1 .. 5000
    BY <2>2, SanitizedOK
  <2>4. PICK inside : inside = Clamp(r.people, 0, most)
    OBVIOUS
  <2>5. inside \in 0 .. 5000
    <3>1. most \in Nat
      BY <2>3
    <3>2. Clamp(r.people, 0, most) \in 0 .. most
      BY <2>1, <3>1, ClampOK, Zenon
    <3>3. inside \in 0 .. most
      BY <2>4, <3>2, Zenon
    <3>4. most \in Nat /\ most <= 5000
      BY <2>3
    <3> QED
      BY <3>3, <3>4
  <2>6. CountsOf(r).people = Clamp(r.people, 0, Sanitized(r.max_people, 1, 5000, 50))
    BY <1>2 DEF CountsOf
  <2>7. CountsOf(r).people = inside
    BY <2>6, <2>2, <2>4
  <2>8. CountsOf(r).confirmed = r.confirmed
    BY <1>2 DEF CountsOf
  <2>9. CountsOf(r) = [people |-> CountsOf(r).people, confirmed |-> CountsOf(r).confirmed]
    BY <1>2 DEF CountsOf
  <2> QED
    BY <2>1, <2>5, <2>7, <2>8, <2>9 DEF Abstract!Counts
<1> QED
  BY <1>1, <1>2

LEMMA RamCounted ==
  ASSUME RamOK
  PROVE RamCounts \in Abstract!Counts /\ CountsOf(Record) = RamCounts
<1>1. RamCounts \in Abstract!Counts
  BY DEF RamOK, RamCounts, Abstract!Counts
<1>2. Record # NOTHING /\ GivenBackBy(Record)
  BY RecordOK
<1>3. CountsOf(Record) = RamCounts
  BY <1>2 DEF CountsOf, GivenBackBy, RamCounts
<1> QED
  BY <1>1, <1>3

\* What a restart gives back: the same counts in flash, in the preferences and,
\* once they are loaded, in the RAM.
LEMMA BootRestores ==
  ASSUME NEW content, NEW by_power \in BOOLEAN, Boot(content, by_power),
         CountsOf(content) \in {Tally, CountsOf(Latest), CountsOf(flash)}
  PROVE Abstract!Next
<1>1. ~loaded' /\ Latest' = content /\ flash' = content
  BY DEF Boot, Latest
<1>2. Tally' = CountsOf(content) /\ CountsOf(Latest)' = CountsOf(content) /\ CountsOf(flash)' = CountsOf(content)
  BY <1>1 DEF Tally, CountsOf
<1> QED
  BY <1>2 DEF Abstract!Next, Abstract!Restart

\* Counts that change in the RAM, and may be saved with that.
LEMMA ChangeCounted ==
  ASSUME RamOK', loaded, loaded', flash' = flash,
         Persist \/ UNCHANGED pending,
         \/ Abstract!Passage(RamCounts, RamCounts')
         \/ Abstract!Corrected(RamCounts, RamCounts')
  PROVE Abstract!Next
<1>1. (RamCounts \in Abstract!Counts /\ CountsOf(Record) = RamCounts)'
  BY RamCounted, PTL
<1>2. Tally = RamCounts /\ Tally' = RamCounts' /\ CountsOf(flash)' = CountsOf(flash)
  BY DEF Tally, RamCounts, CountsOf
<1>3. CountsOf(Latest)' \in {CountsOf(Latest), RamCounts'}
  <2>1. CASE Persist
    <3>1. (Record # NOTHING)'
      BY RecordOK, PTL
    <3>2. Latest' = Record'
      BY <2>1, <3>1 DEF Persist, Latest
    <3> QED
      BY <1>1, <3>2 DEF CountsOf
  <2>2. CASE UNCHANGED pending
    BY <2>2 DEF Latest, CountsOf
  <2> QED
    BY <2>1, <2>2
<1> QED
  BY <1>1, <1>2, <1>3 DEF Abstract!Next, Abstract!Change, Abstract!Counts

\* Counts that stay, and may be saved.
LEMMA SaveCounted ==
  ASSUME RamOK', loaded, loaded', UNCHANGED <<flash, people, confirmed>>,
         Persist \/ UNCHANGED pending
  PROVE Abstract!Next \/ UNCHANGED Abstract!vars
<1>1. Tally' = Tally /\ Tally = RamCounts' /\ CountsOf(flash)' = CountsOf(flash)
  BY DEF Tally, RamCounts, CountsOf
<1>2. CASE Persist
  <2>1. (RamCounts \in Abstract!Counts /\ CountsOf(Record) = RamCounts)' /\ (Record # NOTHING)'
    BY RamCounted, RecordOK, PTL
  <2>2. Latest' = Record'
    BY <1>2, <2>1 DEF Persist, Latest
  <2>3. CountsOf(Latest)' = Tally
    BY <1>1, <2>1, <2>2 DEF CountsOf
  <2> QED
    BY <1>1, <2>3 DEF Abstract!Next, Abstract!Save
<1>3. CASE UNCHANGED pending
  <2>1. CountsOf(Latest)' = CountsOf(Latest)
    BY <1>3 DEF CountsOf, Latest
  <2> QED
    BY <1>1, <2>1 DEF Abstract!vars
<1> QED
  BY <1>2, <1>3

\* A rediscovery saves what the RAM holds and loads it again; the first only loads.
LEMMA DiscoverCounted ==
  ASSUME Inv, Discover, flash' = flash
  PROVE Abstract!Next \/ UNCHANGED Abstract!vars
<1>1. RamOK /\ loaded' /\ loaded \in BOOLEAN
  BY Parts, DiscoverOK DEF BootOK
<1>2. PICK r : r = (IF loaded THEN Record ELSE Latest) /\ Latest' = r /\ GivenBackBy(r)'
  BY DiscoverOK
<1>3. CountsOf(r) = RamCounts'
  BY <1>2 DEF CountsOf, GivenBackBy, RamCounts
<1>4. Tally' = CountsOf(r) /\ CountsOf(Latest)' = CountsOf(r) /\ CountsOf(flash)' = CountsOf(flash)
  BY <1>1, <1>2, <1>3 DEF Tally, RamCounts, CountsOf
<1>5. Tally = CountsOf(r)
  <2>1. CASE loaded
    BY <1>1, <1>2, <2>1, RamCounted DEF Tally, RamCounts
  <2>2. CASE ~loaded
    BY <1>2, <2>2 DEF Tally
  <2> QED
    BY <2>1, <2>2
<1> QED
  BY <1>4, <1>5 DEF Abstract!Next, Abstract!Save

LEMMA UpdateCounted ==
  ASSUME Inv, Inv', NEW step \in Steps, NEW away \in BOOLEAN,
         GuardRestart(step, TRUE) => loaded,
         \/ GuardRestart(step, away) \/ ColdRestart(step, away)
         \/ AwaitBus(step, away) \/ BusFailed(step, away) \/ StartBus(step, away)
         \/ Calibrate(step, away) \/ Count(step, away)
  PROVE Abstract!Next \/ UNCHANGED Abstract!vars
<1>1. RamOK /\ Fresh /\ loaded \in BOOLEAN /\ (RamOK /\ loaded \in BOOLEAN)'
  <2>1. (RamOK /\ BootOK /\ RecordsOK /\ Fresh /\ CleanMeansSaved)'
    BY Parts, PTL
  <2> QED
    BY <2>1, Parts DEF BootOK
<1>2. CASE GuardRestart(step, away)
  <2>1. away /\ Boot(Record, FALSE)
    BY <1>2 DEF GuardRestart, GuardFires
  <2>2. loaded
    BY <1>2, <2>1 DEF GuardRestart, GuardFires
  <2>3. CountsOf(Record) = Tally
    BY <1>1, <2>2, RamCounted DEF Tally, RamCounts
  <2> QED
    BY <2>1, <2>3, BootRestores
<1>3. CASE ColdRestart(step, away)
  BY <1>3, BootRestores DEF ColdRestart
<1>4. CASE AwaitBus(step, away) \/ BusFailed(step, away)
  <2>1. UNCHANGED <<loaded, counts, pending, flash>>
    BY <1>4 DEF AwaitBus, BusFailed, GoOn
  <2> QED
    BY <2>1 DEF Abstract!vars, Tally, CountsOf, Latest, counts
<1>5. CASE StartBus(step, away)
  BY <1>5, DiscoverCounted DEF StartBus, GoOn
<1>6. CASE Calibrate(step, away)
  <2>1. /\ wire /\ UNCHANGED <<loaded, flash, counts>>
        /\ Persist \/ UNCHANGED pending
    BY <1>6 DEF Calibrate, GoOn
  <2> QED
    BY <1>1, <2>1, SaveCounted DEF Fresh, counts
<1>7. CASE Count(step, away)
  <2>1. wire /\ UNCHANGED <<loaded, flash, settings>> /\ (Persist \/ UNCHANGED pending)
    BY <1>7 DEF Count, GoOn, SavedAtEnd
  <2>2. loaded /\ loaded'
    BY <1>1, <2>1 DEF Fresh
  <2>3. CASE UNCHANGED counts
    BY <1>1, <2>1, <2>2, <2>3, SaveCounted DEF counts
  <2>4. ASSUME NEW change \in {-1, 0, 1}, CountBy(change)
        PROVE Abstract!Passage(RamCounts, RamCounts')
    <3>1. people \in 0 .. max_people /\ max_people \in Nat /\ confirmed \in Nat
      BY <1>1 DEF RamOK
    <3>2. confirmed' = confirmed + 1 /\ people' = Clamp(people + change, 0, max_people)
      BY <2>4 DEF CountBy
    <3>3. people' \in (people - 1) .. (people + 1)
      BY <3>1, <3>2 DEF Clamp, Smaller
    <3> QED
      BY <3>2, <3>3 DEF RamCounts, Abstract!Passage
  <2> QED
    BY <1>1, <1>7, <2>1, <2>2, <2>3, <2>4, ChangeCounted DEF Count
<1> QED
  BY <1>2, <1>3, <1>4, <1>5, <1>6, <1>7

LEMMA OperateCounted ==
  ASSUME ~Hasty, Inv, Inv', Operate
  PROVE Abstract!Next \/ UNCHANGED Abstract!vars
<1>1. RamOK /\ loaded \in BOOLEAN /\ (RamOK /\ loaded \in BOOLEAN)'
  <2>1. (RamOK /\ BootOK /\ RecordsOK /\ Fresh /\ CleanMeansSaved)'
    BY Parts, PTL
  <2> QED
    BY <2>1, Parts DEF BootOK
<1>2. loaded /\ flash' = flash
  BY DEF Operate, ApplySettings, ResetCounts, Recalibrate, Rediscover, SetPeopleInside, Acts
<1>3. CASE \E request \in Requests : ApplySettings(request)
  <2>1. UNCHANGED <<confirmed, loaded>> /\ Persist
    BY <1>3 DEF ApplySettings
  <2> QED
    BY <1>1, <1>2, <2>1, ChangeCounted DEF Abstract!Corrected, RamCounts
<1>4. CASE ResetCounts
  <2>1. people' = 0 /\ confirmed' = 0 /\ UNCHANGED loaded /\ (Persist \/ UNCHANGED pending)
    BY <1>4 DEF ResetCounts
  <2>2. RamCounts' = Abstract!Zero
    BY <2>1 DEF RamCounts, Abstract!Zero
  <2> QED
    BY <1>1, <1>2, <2>1, <2>2, ChangeCounted DEF Abstract!Corrected
<1>5. CASE Recalibrate
  <2>1. UNCHANGED <<counts, pending, loaded>>
    BY <1>5 DEF Recalibrate
  <2> QED
    BY <1>1, <1>2, <2>1, SaveCounted DEF counts
<1>6. CASE Rediscover
  BY <1>2, <1>6, DiscoverCounted DEF Rediscover
<1>7. CASE \E value \in {60} : SetPeopleInside(value)
  <2>1. UNCHANGED <<confirmed, loaded>> /\ Persist
    BY <1>7 DEF SetPeopleInside
  <2> QED
    BY <1>1, <1>2, <2>1, ChangeCounted DEF Abstract!Corrected, RamCounts
<1> QED
  BY <1>3, <1>4, <1>5, <1>6, <1>7 DEF Operate

LEMMA StepCounted ==
  ASSUME ~Hasty
  PROVE Inv /\ Inv' /\ [Next]_vars /\ [\A step \in Steps : GuardRestart(step, TRUE) => loaded]_vars
          => [Abstract!Next]_(Abstract!vars)
<1> SUFFICES ASSUME Inv, Inv', [Next]_vars,
                    [\A step \in Steps : GuardRestart(step, TRUE) => loaded]_vars
             PROVE Abstract!Next \/ UNCHANGED Abstract!vars
  OBVIOUS
<1>1. CASE UNCHANGED vars
  BY <1>1 DEF vars, boot, counts, Abstract!vars, Tally, CountsOf, Latest
<1>2. CASE Next /\ \A step \in Steps : GuardRestart(step, TRUE) => loaded
  <2>1. CASE Update
    BY <1>2, <2>1, UpdateCounted DEF Update
  <2>2. CASE Operate
    BY <2>2, OperateCounted
  <2>3. CASE Sync
    <3>1. /\ UNCHANGED <<loaded, counts>> /\ Latest' = Latest /\ flash' = Latest
      BY <2>3 DEF Sync, boot, Latest
    <3>2. /\ Tally' = Tally /\ CountsOf(Latest)' = CountsOf(Latest)
          /\ CountsOf(flash)' = CountsOf(Latest)
      BY <3>1 DEF Tally, CountsOf, counts
    <3> QED
      BY <3>2 DEF Abstract!Next, Abstract!Write
  <2>4. CASE SafeReboot
    BY <2>4, BootRestores DEF SafeReboot
  <2>5. CASE PowerLoss
    BY <2>5, BootRestores DEF PowerLoss
  <2> QED
    BY <1>2, <2>1, <2>2, <2>3, <2>4, <2>5 DEF Next
<1> QED
  BY <1>1, <1>2

\* For an operator who waits for the device to start, and a guard that does: the
\* counts behave as a ledger, whatever is lost, restarted or migrated.
THEOREM CountsAreALedger ==
  ASSUME ~Hasty
  PROVE Spec /\ GuardWaitsForLoad => Implements
<1>1. Init => Abstract!Init
  <2> SUFFICES ASSUME Init PROVE Abstract!Init
    OBVIOUS
  <2>1. ~loaded /\ Latest = flash /\ ContentOK(flash)
    BY FoundOK DEF Init, Latest
  <2>2. Tally = CountsOf(flash) /\ CountsOf(Latest) = CountsOf(flash)
    BY <2>1 DEF Tally
  <2> QED
    BY <2>1, <2>2, ContentCounts DEF Abstract!Init
<1>2. Inv /\ Inv' /\ [Next]_vars /\ [\A step \in Steps : GuardRestart(step, TRUE) => loaded]_vars
        => [Abstract!Next]_(Abstract!vars)
  BY StepCounted
<1> QED
  BY <1>1, <1>2, Invariance, PTL DEF Spec, GuardWaitsForLoad, Implements, Abstract!Spec

\* A restart for the network gives back what the device had, where the saved
\* state is loaded before the first of them.
THEOREM RestartsSaveCounts == Spec /\ GuardWaitsForLoad => GuardSavesCounts
<1>1. Inv /\ [\A step \in Steps : GuardRestart(step, TRUE) => loaded]_vars
        => [\A step \in Steps : GuardRestart(step, TRUE) => Tally' = Tally]_vars
  <2> SUFFICES ASSUME Inv, NEW step \in Steps, GuardRestart(step, TRUE), loaded
               PROVE Tally' = Tally
    OBVIOUS
  <2>1. ~loaded' /\ Latest' = Record
    BY DEF GuardRestart, Boot, Latest
  <2>2. Tally' = CountsOf(Record)
    BY <2>1 DEF Tally, CountsOf
  <2>3. CountsOf(Record) = Tally
    BY Parts, RamCounted DEF Tally, RamCounts
  <2> QED
    BY <2>2, <2>3
<1> QED
  BY <1>1, Invariance, PTL DEF GuardWaitsForLoad, GuardSavesCounts
=============================================================================
