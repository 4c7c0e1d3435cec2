-------------------------------- MODULE Page --------------------------------
(***************************************************************************)
(* The script of the over-door page, embedded in tof_overdoor_ui.cpp, with *)
(* the device it asks.  The script runs to completion between two awaits,  *)
(* so a step is everything from one event to the next: an answer, a timer, *)
(* a click, an edit, a change of the tab's visibility.                     *)
(*                                                                         *)
(* The state of the device is a version, which grows with every change of  *)
(* it.  Delays are not told apart: a timer that is set may fire at any     *)
(* time, and a request may fail, or be aborted after five seconds, at any  *)
(* time, whether or not the device had done what it asked.                 *)
(***************************************************************************)
EXTENDS Naturals

CONSTANT MaxVersion  \* bound: how far the device's state is followed

ASSUME PageAssumption == MaxVersion \in Nat

VARIABLES
  device,    \* the version of the device's state
  hidden,    \* document.hidden
  timer,     \* refreshTimer is set
  poll,      \* refreshPromise: the request for the state
  snapshot,  \* the version in its answer
  force,     \* forceSettingsRefresh
  handler,   \* where the handler of a click or of the form waits; busy unless "idle"
  kind,      \* and which of the two it is
  made,      \* the version that its request made, 0 before the device applied it
  dirty,     \* settingsDirty
  shown,     \* the version the page shows
  acted,     \* observer: the version of the last action answered with success
  unsaved    \* observer: the form holds an edit that no save has carried off

requests == <<poll, snapshot, force>>
action == <<handler, kind, made>>
form == <<dirty, unsaved>>
page == <<device, hidden, timer, requests, action, form, shown, acted>>

Polls == {"none", "asked", "answered"}
Handlers == {"idle", "pausing", "posting", "refreshing"}
Kinds == {"command", "settings"}

Busy == handler # "idle"

-----------------------------------------------------------------------------
(* The device.                                                             *)

\* Somebody passes, another page acts, or an action this page gave up on is done.
Elsewhere ==
  /\ device < MaxVersion /\ device' = device + 1
  /\ UNCHANGED <<hidden, timer, requests, action, form, shown, acted>>

Read ==
  /\ poll = "asked" /\ poll' = "answered" /\ snapshot' = device
  /\ UNCHANGED <<device, hidden, timer, force, action, form, shown, acted>>

Apply ==
  /\ handler = "posting" /\ made = 0 /\ device < MaxVersion
  /\ device' = device + 1 /\ made' = device'
  /\ UNCHANGED <<hidden, timer, requests, handler, kind, form, shown, acted>>

-----------------------------------------------------------------------------
(* Polling.                                                                *)

\* refresh(): who asks while a request is under way gets its promise.
Refresh(forced) ==
  /\ force' = (force \/ forced)
  /\ poll' = IF poll = "none" THEN "asked" ELSE poll
  /\ UNCHANGED snapshot

TimerFires ==
  /\ timer /\ timer' = FALSE /\ Refresh(FALSE)
  /\ UNCHANGED <<device, hidden, action, form, shown, acted>>

\* Where the handler that awaits refreshPromise goes on to.
Resumed == IF handler \in {"pausing", "posting"} THEN "posting" ELSE "idle"

\* The finally of refresh() and, if a handler awaits it, that handler up to its
\* next await; scheduleRefresh sets no timer in a hidden tab or during an action.
PollEnds ==
  /\ poll' = "none" /\ force' = FALSE
  /\ handler' = Resumed /\ timer' = (~hidden /\ Resumed = "idle")
  /\ UNCHANGED <<device, hidden, kind, made, dirty, acted>>

\* Mutant: an action's refresh writes the form whatever is in it.
SyncsForced(focused) == force \/ (~dirty /\ ~focused)

\* shouldSyncSettingsFromState, as renderState is called; focused: the form has the focus.
Syncs(focused) == (force /\ ~dirty) \/ (~dirty /\ ~focused)

PollSucceeds ==
  /\ poll = "answered" /\ PollEnds
  /\ shown' = snapshot /\ UNCHANGED snapshot
  /\ \E focused \in BOOLEAN : unsaved' = (unsaved /\ ~Syncs(focused))

PollFails == poll # "none" /\ PollEnds /\ UNCHANGED <<shown, snapshot, unsaved>>

-----------------------------------------------------------------------------
(* The user.                                                               *)

\* Mutant: an action does not wait for the poll under way.
PausedNever == "posting"

\* pausePollingForAction
Paused == IF poll = "none" THEN "posting" ELSE "pausing"

\* A command button, or the submit of the settings.
Click(k) ==
  /\ ~Busy /\ kind' = k /\ handler' = Paused /\ made' = 0
  /\ timer' = FALSE
  /\ UNCHANGED <<device, hidden, requests, form, shown, acted>>

\* The answer to the action; a save takes the mark off the form.
PostSucceeds ==
  /\ handler = "posting" /\ made # 0 /\ acted' = made
  /\ dirty' = (dirty /\ kind # "settings") /\ unsaved' = (unsaved /\ kind # "settings")
  /\ handler' = "refreshing" /\ Refresh(TRUE) /\ timer' = (timer /\ poll # "none")
  /\ UNCHANGED <<device, hidden, kind, made, shown>>

\* Mutant: polling goes on only after a successful action.
PostFailsSilently ==
  /\ handler = "posting" /\ handler' = "idle"
  /\ UNCHANGED <<device, hidden, timer, requests, kind, made, form, shown, acted>>

PostFails ==
  /\ handler = "posting" /\ handler' = "idle" /\ timer' = ~hidden
  /\ UNCHANGED <<device, hidden, requests, kind, made, form, shown, acted>>

\* An edit during a save is not in it, and loses its mark with it.
Saving == handler = "posting" /\ kind = "settings"
Edit ==
  /\ dirty' = TRUE /\ unsaved' = (unsaved \/ ~Saving)
  /\ UNCHANGED <<device, hidden, timer, requests, action, shown, acted>>

Hide ==
  /\ ~hidden /\ hidden' = TRUE /\ timer' = FALSE
  /\ UNCHANGED <<device, requests, action, form, shown, acted>>

\* Mutant: a tab that becomes visible asks although an action is under way.
ShowAnyway ==
  /\ hidden /\ hidden' = FALSE /\ timer' = FALSE /\ Refresh(TRUE)
  /\ UNCHANGED <<device, action, form, shown, acted>>

Show ==
  /\ hidden /\ hidden' = FALSE /\ timer' = FALSE
  /\ IF Busy THEN UNCHANGED requests ELSE Refresh(TRUE)
  /\ UNCHANGED <<device, action, form, shown, acted>>

-----------------------------------------------------------------------------
\* The script ends with refresh(true).
PageInit ==
  /\ device = 0 /\ hidden \in BOOLEAN /\ timer = FALSE
  /\ poll = "asked" /\ snapshot = 0 /\ force = TRUE
  /\ handler = "idle" /\ kind = "command" /\ made = 0
  /\ dirty = FALSE /\ shown = 0 /\ acted = 0 /\ unsaved = FALSE

Endings == PollSucceeds \/ PollFails \/ PostSucceeds \/ PostFails

PageNext ==
  \/ Elsewhere \/ Read \/ Apply
  \/ TimerFires \/ Endings
  \/ \E k \in Kinds : Click(k)
  \/ Edit \/ Hide \/ Show

\* A browser fires the timers it was given and ends every request.
PageSpec == PageInit /\ [][PageNext]_page /\ WF_page(TimerFires) /\ WF_page(Endings)

-----------------------------------------------------------------------------
(* Properties.                                                             *)

PageTypeOK ==
  /\ device \in Nat /\ snapshot \in Nat /\ made \in Nat /\ shown \in Nat /\ acted \in Nat
  /\ hidden \in BOOLEAN /\ timer \in BOOLEAN /\ force \in BOOLEAN
  /\ dirty \in BOOLEAN /\ unsaved \in BOOLEAN
  /\ poll \in Polls /\ handler \in Handlers /\ kind \in Kinds

\* "Its browser polling pauses in hidden tabs and never overlaps requests"
\* (Documents/HOME_ASSISTANT_MINIMAL.md): an action and a poll are never under
\* way at once, and no poll is due in a hidden tab, during an action or a poll.
SingleFlight ==
  /\ poll # "none" => handler # "posting"
  /\ timer => ~hidden /\ ~Busy /\ poll = "none"

\* The page never goes back to a state from before the one it shows, nor from
\* before an action that it was told has succeeded.
ShownIsCurrent == [][shown' # shown => shown' > shown /\ shown' >= acted]_page

\* An edit stays in the form until a save has carried it off: no poll, command or
\* return to the tab overwrites it.
EditsKept == [][unsaved /\ ~unsaved' => Saving]_page

\* However it was hidden, clicked and refused before: a visible page of a device
\* that answers comes to show the device's state.
Undisturbed ==
  Read \/ Apply \/ TimerFires \/ PollSucceeds \/ PostSucceeds \/ Edit \/ Show
CatchesUp ==
  <>[][Undisturbed]_page /\ <>[]~hidden /\ WF_page(Read) /\ WF_page(Apply)
    => <>[](shown = device)
=============================================================================
