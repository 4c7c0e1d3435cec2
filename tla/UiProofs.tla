------------------------------ MODULE UiProofs ------------------------------
(***************************************************************************)
(* The over-door UI, device and browser.  For any number of requests,      *)
(* restarts and time-outs, at any interleaving of the HTTP task with the   *)
(* main loop: one callback is outstanding at most, and the bridge          *)
(* implements RemoteCall.  For any number of changes of the device: the    *)
(* page's requests never overlap, what it shows never goes back, and edits *)
(* are kept.                                                               *)
(***************************************************************************)
EXTENDS MainThreadBridge, Page, TLAPS

-----------------------------------------------------------------------------
(* The inductive invariant.                                                *)

\* The steps in which a request waits for its job.
Waits == {"wait", "check", "cancel"}

Tasks ==
  /\ http # "idle" => request \in Requests
  /\ http \notin {"idle", "defer"} => answer[request] = "none"
  /\ http = "defer" => answer[request] # "none"
  /\ main # "loop" => callback \in Requests

\* A request nobody answered and nobody serves has left no trace.
Untouched(r) == state[r] = "NONE" /\ applied[r] = 0
Waiting ==
  /\ \A r \in Requests : answer[r] = "none" /\ (http = "idle" \/ request # r) => Untouched(r)
  /\ http = "exchange" => Untouched(request)

\* Between exchange and schedule the bridge holds the job alone.
Handing ==
  http = "schedule" =>
    /\ busy /\ main = "loop"
    /\ \A i \in DOMAIN queue : ~JobAt(i)
    /\ state[request] = "WAITING" /\ applied[request] = 0

\* A job outside of work(): not begun, and no longer wanted unless its caller
\* still waits for it.
Pending(r) ==
  /\ state[r] \in {"WAITING", "CANCELLED"} /\ applied[r] = 0
  /\ state[r] = "WAITING" => http \in Waits /\ request = r
Queued == \A i \in DOMAIN queue : JobAt(i) => Pending(queue[i])

Taken ==
  /\ main = "claim" => Pending(callback)
  /\ main \in {"work", "respond", "publish"} => state[callback] = "RUNNING"
  /\ main = "work" => applied[callback] = 0
  /\ main \in {"respond", "publish"} => applied[callback] # 0
  /\ main = "publish" => response[callback] = "whole"
  /\ main = "release" => state[callback] # "NONE"

\* What a caller that sees DONE finds.
Finished ==
  /\ \A r \in Requests : state[r] = "DONE" => applied[r] # 0 /\ response[r] = "whole"
  /\ http = "send" => state[request] = "DONE"

Inv == TypeOK /\ OneOutstanding /\ Tasks /\ Waiting /\ Handing /\ Queued /\ Taken /\ Finished

-----------------------------------------------------------------------------
(* The initial state, and one lemma per action.                            *)

LEMMA InitInv == Init => Inv
<1> SUFFICES ASSUME Init PROVE Inv
  OBVIOUS
<1>0. busy \in BOOLEAN
  BY DEF Init
<1>1. queue \in Seq(Requests \cup {REBOOT}) /\ DOMAIN queue = {}
  BY DEF Init
<1>2. TypeOK
  BY <1>0, <1>1 DEF Init, TypeOK, States, HttpSteps, MainSteps, Answers
<1>3. OneOutstanding /\ Tasks /\ Waiting /\ Handing /\ Queued /\ Taken /\ Finished
  BY <1>1 DEF Init, OneOutstanding, JobAt, Tasks, Waiting, Untouched, Handing, Queued, Taken, Finished
<1> QED
  BY <1>2, <1>3 DEF Inv

\* A request arrives: only the HTTP task moves, and the request was untouched.
LEMMA ReceiveInv == ASSUME Inv, NEW r \in Requests, Receive(r) PROVE Inv'
<1> USE DEF Receive, Inv, http_vars, main_vars
<1>1. TypeOK'
  BY DEF TypeOK, HttpSteps
<1>2. OneOutstanding' /\ Handing'
  BY DEF OneOutstanding, JobAt, Handing
<1>3. Queued' /\ Taken'
  BY DEF JobAt, Queued, Pending, Waits, Taken
<1>4. Tasks' /\ Waiting' /\ Finished'
  BY DEF Tasks, Waiting, Untouched, Finished
<1> QED
  BY <1>1, <1>2, <1>3, <1>4

\* The bridge is taken or the request refused: a free bridge has no job anywhere.
LEMMA ExchangeInv == ASSUME Inv, Exchange PROVE Inv'
<1> USE DEF Exchange, Inv, Answered, http_vars, main_vars
<1>1. TypeOK'
  <2>1. busy' \in BOOLEAN /\ request \in Requests
    BY DEF Tasks
  <2>2. CASE busy
    BY <2>1, <2>2 DEF TypeOK, HttpSteps, Answers
  <2>3. CASE ~busy
    BY <2>1, <2>3 DEF TypeOK, HttpSteps, States
  <2> QED
    BY <2>2, <2>3
<1>2. OneOutstanding' /\ Handing'
  BY DEF TypeOK, OneOutstanding, JobAt, Tasks, Waiting, Untouched, Handing
<1>3. Queued' /\ Taken'
  BY DEF OneOutstanding, JobAt, Queued, Pending, Waits, Taken
<1>4. Tasks' /\ Waiting' /\ Finished'
  BY DEF TypeOK, Tasks, Waiting, Untouched, Finished
<1> QED
  BY <1>1, <1>2, <1>3, <1>4

\* The job enters a queue that held none.
LEMMA ScheduleInv == ASSUME Inv, Schedule PROVE Inv'
<1> USE DEF Schedule, Inv, http_vars, main_vars
<1>1. TypeOK'
  BY DEF TypeOK, HttpSteps, Tasks
<1>2. OneOutstanding' /\ Handing'
  BY DEF OneOutstanding, JobAt, Handing
<1>3. Queued' /\ Taken'
  BY DEF JobAt, Handing, Queued, Pending, Waits, Taken
<1>4. Tasks' /\ Waiting' /\ Finished'
  BY DEF Tasks, Waiting, Untouched, Finished
<1> QED
  BY <1>1, <1>2, <1>3, <1>4

\* The HTTP task stops waiting; the job keeps its caller until the answer.
LEMMA SeeDoneInv == ASSUME Inv, SeeDone PROVE Inv'
<1> USE DEF SeeDone, Inv, http_vars, main_vars
<1>1. TypeOK'
  BY DEF TypeOK, HttpSteps
<1>2. OneOutstanding' /\ Handing'
  BY DEF OneOutstanding, JobAt, Handing
<1>3. Queued' /\ Taken'
  BY DEF JobAt, Queued, Pending, Taken
<1>4. Tasks' /\ Waiting' /\ Finished'
  BY DEF Tasks, Waiting, Untouched, Finished
<1> QED
  BY <1>1, <1>2, <1>3, <1>4

\* The same at the end of the time.
LEMMA GiveUpInv == ASSUME Inv, GiveUp PROVE Inv'
<1> USE DEF GiveUp, Inv, http_vars, main_vars
<1>1. TypeOK'
  BY DEF TypeOK, HttpSteps
<1>2. OneOutstanding' /\ Handing'
  BY DEF OneOutstanding, JobAt, Handing
<1>3. Queued' /\ Taken'
  BY DEF JobAt, Queued, Pending, Waits, Taken
<1>4. Tasks' /\ Waiting' /\ Finished'
  BY DEF Tasks, Waiting, Untouched, Finished
<1> QED
  BY <1>1, <1>2, <1>3, <1>4

\* DONE once seen stays, so send finds it.
LEMMA CheckInv == ASSUME Inv, Check PROVE Inv'
<1> USE DEF Check, Inv, http_vars, main_vars
<1>1. TypeOK'
  BY DEF TypeOK, HttpSteps
<1>2. OneOutstanding' /\ Handing'
  BY DEF OneOutstanding, JobAt, Handing
<1>3. Queued' /\ Taken'
  BY DEF JobAt, Queued, Pending, Waits, Taken
<1>4. Tasks' /\ Waiting' /\ Finished'
  BY DEF Tasks, Waiting, Untouched, Finished
<1> QED
  BY <1>1, <1>2, <1>3, <1>4

\* A job that waits loses its caller and its claim together.
LEMMA CancelInv == ASSUME Inv, Cancel PROVE Inv'
<1> USE DEF Cancel, Inv, Answered, http_vars, main_vars
<1>1. TypeOK'
  BY DEF TypeOK, States, HttpSteps, Answers, Tasks
<1>2. OneOutstanding' /\ Handing'
  BY DEF OneOutstanding, JobAt, Handing
<1>3. Queued' /\ Taken'
  BY DEF TypeOK, JobAt, Tasks, Queued, Pending, Taken
<1>4. Tasks' /\ Waiting' /\ Finished'
  BY DEF TypeOK, Tasks, Waiting, Untouched, Finished
<1> QED
  BY <1>1, <1>2, <1>3, <1>4

\* An answered request is no longer pending anywhere: its job is done.
LEMMA SendInv == ASSUME Inv, Send PROVE Inv'
<1> USE DEF Send, Inv, Answered, http_vars, main_vars
<1>1. TypeOK'
  BY DEF TypeOK, HttpSteps, Answers, Tasks
<1>2. OneOutstanding' /\ Handing'
  BY DEF OneOutstanding, JobAt, Handing
<1>3. Queued' /\ Taken'
  BY DEF JobAt, Queued, Pending, Taken, Finished
<1>4. Tasks' /\ Waiting' /\ Finished'
  BY DEF TypeOK, Tasks, Waiting, Untouched, Finished
<1> QED
  BY <1>1, <1>2, <1>3, <1>4

\* A restart in the queue is no job.
LEMMA DeferRebootInv == ASSUME Inv, DeferReboot PROVE Inv'
<1> USE DEF DeferReboot, Inv, http_vars, main_vars
<1>1. TypeOK'
  BY DEF TypeOK, HttpSteps
<1>2. OneOutstanding' /\ Handing'
  BY DEF OneOutstanding, JobAt, Handing
<1>3. Queued' /\ Taken'
  BY DEF JobAt, Queued, Pending, Waits, Taken
<1>4. Tasks' /\ Waiting' /\ Finished'
  BY DEF Tasks, Waiting, Untouched, Finished
<1> QED
  BY <1>1, <1>2, <1>3, <1>4

\* The only job leaves the queue for the main loop.
LEMMA DequeueInv == ASSUME Inv, Dequeue PROVE Inv'
<1> USE DEF Dequeue, Inv, http_vars, main_vars
<1>1. TypeOK'
  BY DEF TypeOK, MainSteps
<1>2. OneOutstanding' /\ Handing'
  BY DEF TypeOK, OneOutstanding, JobAt, Handing
<1>3. Queued' /\ Taken'
  BY DEF JobAt, Waiting, Queued, Pending, Taken
<1>4. Tasks' /\ Waiting' /\ Finished'
  BY DEF TypeOK, Tasks, Waiting, Untouched, Finished
<1> QED
  BY <1>1, <1>2, <1>3, <1>4

\* A claimed job still waits for its caller, a cancelled one goes to release.
LEMMA ClaimInv == ASSUME Inv, Claim PROVE Inv'
<1> USE DEF Claim, Inv, http_vars, main_vars
<1>1. TypeOK'
  BY DEF TypeOK, States, MainSteps
<1>2. OneOutstanding' /\ Handing'
  BY DEF OneOutstanding, JobAt, Handing
<1>3. Queued' /\ Taken'
  BY DEF TypeOK, OneOutstanding, JobAt, Tasks, Queued, Pending, Taken
<1>4. Tasks' /\ Waiting' /\ Finished'
  BY DEF TypeOK, Tasks, Waiting, Untouched, Finished
<1> QED
  BY <1>1, <1>2, <1>3, <1>4

\* The work of a request is done in its own callback only.
LEMMA WorkInv == ASSUME Inv, Work PROVE Inv'
<1> USE DEF Work, Inv, http_vars, main_vars
<1>1. TypeOK'
  BY DEF TypeOK, MainSteps, Tasks
<1>2. OneOutstanding' /\ Handing'
  BY DEF OneOutstanding, JobAt, Handing
<1>3. Queued' /\ Taken'
  BY DEF TypeOK, OneOutstanding, JobAt, Tasks, Queued, Taken
<1>4. Tasks' /\ Waiting' /\ Finished'
  BY DEF Tasks, Waiting, Untouched, Taken, Finished
<1> QED
  BY <1>1, <1>2, <1>3, <1>4

\* The response is whole before it is published.
LEMMA RespondInv == ASSUME Inv, Respond PROVE Inv'
<1> USE DEF Respond, Inv, http_vars, main_vars
<1>1. TypeOK'
  BY DEF TypeOK, MainSteps, Tasks
<1>2. OneOutstanding' /\ Handing'
  BY DEF OneOutstanding, JobAt, Handing
<1>3. Queued' /\ Taken'
  BY DEF TypeOK, OneOutstanding, JobAt, Tasks, Queued, Taken
<1>4. Tasks' /\ Waiting' /\ Finished'
  BY DEF Tasks, Waiting, Untouched, Finished
<1> QED
  BY <1>1, <1>2, <1>3, <1>4

\* DONE comes after the work and after the whole response.
LEMMA PublishInv == ASSUME Inv, Publish PROVE Inv'
<1> USE DEF Publish, Inv, http_vars, main_vars
<1>1. TypeOK'
  BY DEF TypeOK, States, MainSteps, Tasks
<1>2. OneOutstanding' /\ Handing'
  BY DEF OneOutstanding, JobAt, Handing
<1>3. Queued' /\ Taken'
  BY DEF OneOutstanding, JobAt, Queued, Taken
<1>4. Tasks' /\ Waiting' /\ Finished'
  BY DEF Tasks, Waiting, Untouched, Taken, Finished
<1> QED
  BY <1>1, <1>2, <1>3, <1>4

\* The bridge is free again when no job is left.
LEMMA ReleaseInv == ASSUME Inv, Release PROVE Inv'
<1> USE DEF Release, Inv, http_vars, main_vars
<1>1. TypeOK'
  <2>1. busy' \in BOOLEAN
    OBVIOUS
  <2> QED
    BY <2>1 DEF TypeOK, MainSteps
<1>2. OneOutstanding' /\ Handing'
  BY DEF OneOutstanding, JobAt, Handing
<1>3. Queued' /\ Taken'
  BY DEF OneOutstanding, JobAt, Queued, Taken
<1>4. Tasks' /\ Waiting' /\ Finished'
  BY DEF Tasks, Waiting, Untouched, Finished
<1> QED
  BY <1>1, <1>2, <1>3, <1>4

\* Nothing survives that could belong to an answered request.
LEMMA RebootInv == ASSUME Inv, Reboot PROVE Inv'
<1> USE DEF Reboot, Inv, http_vars, main_vars
<1>1. TypeOK'
  <2>1. busy' \in BOOLEAN
    OBVIOUS
  <2> QED
    BY <2>1 DEF TypeOK, HttpSteps, Answers, Tasks
<1>2. OneOutstanding' /\ Handing'
  BY DEF OneOutstanding, Handing
<1>3. Queued' /\ Taken'
  BY DEF Queued, Taken
<1>4. Tasks' /\ Waiting' /\ Finished'
  BY DEF TypeOK, Tasks, Waiting, Untouched, Finished
<1> QED
  BY <1>1, <1>2, <1>3, <1>4

LEMMA NextInv == Inv /\ [Next]_vars => Inv'
<1> SUFFICES ASSUME Inv, [Next]_vars PROVE Inv'
  OBVIOUS
<1>1. CASE HttpNext
  BY <1>1, ReceiveInv, ExchangeInv, ScheduleInv, SeeDoneInv, GiveUpInv, CheckInv, CancelInv,
     SendInv, DeferRebootInv DEF HttpNext
<1>2. CASE MainNext
  BY <1>2, DequeueInv, ClaimInv, WorkInv, RespondInv, PublishInv, ReleaseInv, RebootInv
  DEF MainNext
<1>3. CASE UNCHANGED vars
  BY <1>3 DEF vars, Inv, TypeOK, OneOutstanding, JobAt, Tasks, Waiting, Untouched, Handing,
              Queued, Pending, Taken, Finished
<1> QED
  BY <1>1, <1>2, <1>3 DEF Next

LEMMA InvHolds == Spec => []Inv
  BY InitInv, NextInv, PTL DEF Spec

\* Every variable of the bridge keeps its type.
THEOREM BridgeTypes == Spec => []TypeOK
<1>1. Inv => TypeOK
  BY DEF Inv
<1> QED
  BY <1>1, InvHolds, PTL

\* "Exactly one callback may be outstanding" (main_thread_bridge.h), however
\* many requests time out, in every interleaving of the two tasks.
THEOREM OnlyOneOutstanding == Spec => []OneOutstanding
<1>1. Inv => OneOutstanding
  BY DEF Inv
<1> QED
  BY <1>1, InvHolds, PTL

-----------------------------------------------------------------------------
(* The bridge implements RemoteCall.                                       *)

LEMMA InitImplements == Init => Call!Init
  BY DEF Init, Call!Init

\* The effect of a request as RemoteCall sees it.
Effect == [r \in Requests |-> IF applied[r] # 0 THEN "done"
                             ELSE IF state[r] = "RUNNING" THEN "begun" ELSE "none"]
Unseen == UNCHANGED <<answer, Effect>>

\* Arriving, waiting and leaving are invisible to the caller.
LEMMA UnseenSteps ==
  ASSUME Inv, (\E r \in Requests : Receive(r)) \/ Schedule \/ SeeDone \/ GiveUp \/ Check
              \/ DeferReboot \/ Dequeue \/ Respond \/ Release \/ UNCHANGED vars
  PROVE Unseen
  BY DEF Receive, Schedule, SeeDone, GiveUp, Check, DeferReboot, Dequeue, Respond, Release, vars,
         http_vars, main_vars, Unseen, Effect

\* A refused request had no effect; one that takes the bridge has none yet.
LEMMA ExchangeImplements ==
  ASSUME Inv, Exchange PROVE Unseen \/ \E c \in Requests : Call!Refuse(c)
<1> USE DEF Inv, Tasks, Exchange, main_vars, Effect
<1>1. request \in Requests /\ answer[request] = "none" /\ Untouched(request)
  BY DEF Waiting
<1>2. CASE busy
  <2>1. Call!Refuse(request)
    BY <1>1, <1>2 DEF Untouched, Answered, Call!Refuse, Call!Answer
  <2> QED
    BY <1>1, <2>1
<1>3. CASE ~busy
  BY <1>1, <1>3 DEF Untouched, TypeOK, Unseen
<1> QED
  BY <1>2, <1>3

\* Cancelling changes no effect, whatever the job has become by then.
LEMMA CancelImplements == ASSUME Inv, Cancel PROVE \E c \in Requests : Call!TimeOut(c)
<1> USE DEF Inv, Tasks, Cancel, main_vars
<1>1. request \in Requests /\ answer[request] = "none"
  OBVIOUS
<1>2. Effect' = Effect
  BY <1>1 DEF Effect, TypeOK
<1>3. Call!TimeOut(request)
  BY <1>1, <1>2 DEF Effect, Answered, Call!TimeOut, Call!Answer
<1> QED
  BY <1>1, <1>3

\* What is sent is the whole response of work that is done.
LEMMA SendImplements == ASSUME Inv, Send PROVE \E c \in Requests : Call!Succeed(c)
<1> USE DEF Inv, Tasks, Send, main_vars
<1>1. request \in Requests /\ answer[request] = "none"
  OBVIOUS
<1>2. applied[request] # 0 /\ response[request] = "whole"
  BY <1>1 DEF Finished
<1>3. Call!Succeed(request)
  BY <1>1, <1>2 DEF Answered, Call!Succeed, Call!Answer
<1> QED
  BY <1>1, <1>3

\* Only a request whose caller still waits begins to take effect.
LEMMA ClaimImplements == ASSUME Inv, Claim PROVE Unseen \/ \E c \in Requests : Call!Begin(c)
<1> USE DEF Inv, Claim, http_vars
<1>1. PICK c \in Requests : c = callback /\ Pending(c)
  BY DEF Tasks, Taken
<1>2. CASE state[c] = "WAITING"
  <2>1. answer[c] = "none" /\ applied[c] = 0
    BY <1>1, <1>2 DEF Tasks, Pending, Waits
  <2>2. Effect' = [Effect EXCEPT ![c] = "begun"] /\ Effect[c] = "none"
    BY <1>1, <1>2, <2>1 DEF Effect, TypeOK
  <2>3. Call!Begin(c)
    BY <2>1, <2>2 DEF Effect, Call!Begin
  <2> QED
    BY <2>3
<1>3. CASE state[c] # "WAITING"
  BY <1>1, <1>3 DEF Unseen, Effect
<1> QED
  BY <1>2, <1>3

\* The effect of a request is its work, done once.
LEMMA WorkImplements == ASSUME Inv, Work PROVE \E c \in Requests : Call!Finish(c)
<1>1. PICK c \in Requests : c = callback /\ state[c] = "RUNNING" /\ applied[c] = 0
  BY DEF Inv, Work, Tasks, Taken
<1>2. \A r \in Requests : applied'[r] # 0 <=> r = c \/ applied[r] # 0
  BY <1>1 DEF Inv, Work, TypeOK
<1>3. state' = state /\ answer' = answer
  BY DEF Work, http_vars
<1>4. Effect' = [Effect EXCEPT ![c] = "done"] /\ Effect[c] = "begun"
  BY <1>1, <1>2, <1>3 DEF Effect
<1>5. Call!Finish(c)
  BY <1>3, <1>4 DEF Effect, Call!Finish
<1> QED
  BY <1>5

\* DONE is published over work that was done already.
LEMMA PublishImplements == ASSUME Inv, Publish PROVE Unseen
<1>1. callback \in Requests /\ applied[callback] # 0
  BY DEF Inv, Publish, Tasks, Taken
<1> QED
  BY <1>1 DEF Inv, Publish, http_vars, TypeOK, Unseen, Effect

\* A restart loses the open request, if there is one.
LEMMA RebootImplements == ASSUME Inv, Reboot PROVE Call!Lose
<1> DEFINE open == IF http \in {"idle", "defer"} THEN {} ELSE {request}
<1>1. open \in SUBSET {c \in Requests : answer[c] = "none"}
  BY DEF Inv, Tasks
<1>2. answer' = [c \in Requests |-> IF c \in open THEN "lost" ELSE answer[c]]
  BY DEF Inv, TypeOK, Reboot
<1>3. Effect' = Effect
  BY DEF Reboot, Effect
<1> HIDE DEF open
<1> QED
  BY <1>1, <1>2, <1>3 DEF Effect, Call!Lose

LEMMA NextImplements == Inv /\ [Next]_vars => [Call!Next]_(Call!vars)
<1> SUFFICES ASSUME Inv, [Next]_vars PROVE Call!Next \/ Unseen
  BY DEF Unseen, Effect, Call!vars
<1>1. CASE HttpNext
  BY <1>1, UnseenSteps, ExchangeImplements, CancelImplements, SendImplements
  DEF HttpNext, Call!Next
<1>2. CASE MainNext
  BY <1>2, UnseenSteps, ClaimImplements, WorkImplements, PublishImplements, RebootImplements
  DEF MainNext, Call!Next
<1>3. CASE UNCHANGED vars
  BY <1>3, UnseenSteps
<1> QED
  BY <1>1, <1>2, <1>3 DEF Next

\* Whatever times out, is refused or is interrupted by a restart: a request takes
\* effect at most once, and an answer "ok" is the whole answer to work that is done.
THEOREM BridgeImplementsRemoteCall == Spec => Implements
  BY InitImplements, NextImplements, InvHolds, PTL DEF Spec, Implements, Call!Spec

-----------------------------------------------------------------------------
(* The page: its inductive invariant.                                      *)

\* A handler that awaits a refresh has one under way, and an answer is as new as
\* anything the page shows or was told.
Awaits == handler \in {"pausing", "refreshing"} => poll # "none"
Known == acted <= device /\ shown <= device /\ made <= device
Current ==
  poll = "answered" => snapshot <= device /\ acted <= snapshot /\ shown <= snapshot
Marked == unsaved => dirty

PageInv == PageTypeOK /\ SingleFlight /\ Awaits /\ Known /\ Current /\ Marked

-----------------------------------------------------------------------------
LEMMA PageInitInv == PageInit => PageInv
<1> SUFFICES ASSUME PageInit PROVE PageInv
  OBVIOUS
<1>1. PageTypeOK
  BY DEF PageInit, PageTypeOK, Polls, Handlers, Kinds
<1>2. SingleFlight /\ Awaits /\ Marked
  BY DEF PageInit, SingleFlight, Awaits, Marked, Busy
<1>3. Known /\ Current
  BY DEF PageInit, Known, Current
<1> QED
  BY <1>1, <1>2, <1>3 DEF PageInv

\* The device.
LEMMA DeviceInv == ASSUME PageInv, Elsewhere \/ Read \/ Apply PROVE PageInv'
<1>1. CASE Elsewhere
  BY <1>1 DEF Elsewhere, PageInv, PageTypeOK, SingleFlight, Awaits, Known, Current, Marked, Busy,
     requests, action, form
<1>2. CASE Read
  BY <1>2 DEF Read, PageInv, PageTypeOK, SingleFlight, Awaits, Known, Current, Marked, Busy,
     action, form, Polls
<1>3. CASE Apply
  BY <1>3 DEF Apply, PageInv, PageTypeOK, SingleFlight, Awaits, Known, Current, Marked, Busy,
     requests, form
<1> QED
  BY <1>1, <1>2, <1>3

\* Polling.
LEMMA TimerInv == ASSUME PageInv, TimerFires PROVE PageInv'
BY DEF TimerFires, Refresh, PageInv, PageTypeOK, SingleFlight, Awaits, Known, Current, Marked, Busy,
   action, form, Polls

LEMMA PollEndsInv == ASSUME PageInv, PollSucceeds \/ PollFails PROVE PageInv'
<1>1. PollEnds
  BY DEF PollSucceeds, PollFails
<1>2. handler' \in {"idle", "posting"} /\ (timer' => ~hidden' /\ handler' = "idle")
  BY <1>1 DEF PollEnds, Resumed
<1>3. PageTypeOK'
  <2>1. timer' \in BOOLEAN
    BY <1>1 DEF PollEnds
  <2>2. unsaved' \in BOOLEAN /\ shown' \in Nat /\ snapshot' \in Nat
    BY DEF PollSucceeds, PollFails, PageInv, PageTypeOK
  <2> QED
    BY <1>1, <1>2, <2>1, <2>2 DEF PollEnds, PageInv, PageTypeOK, Polls, Handlers
<1>4. SingleFlight' /\ Awaits'
  BY <1>1, <1>2 DEF PollEnds, SingleFlight, Awaits, Busy
<1>5. Known' /\ Current'
  BY <1>1 DEF PollSucceeds, PollFails, PollEnds, PageInv, PageTypeOK, Known, Current
<1>6. Marked'
  BY <1>1 DEF PollSucceeds, PollFails, PollEnds, PageInv, Marked
<1> QED
  BY <1>3, <1>4, <1>5, <1>6 DEF PageInv

\* The user.
LEMMA ClickInv == ASSUME PageInv, NEW k \in Kinds, Click(k) PROVE PageInv'
<1>1. /\ handler' = Paused /\ timer' = FALSE /\ kind' = k /\ made' = 0
      /\ UNCHANGED <<device, hidden, poll, snapshot, force, dirty, unsaved, shown, acted>>
  BY DEF Click, requests, form
<1>2. PageTypeOK'
  BY <1>1 DEF Paused, PageInv, PageTypeOK, Handlers
<1>3. SingleFlight' /\ Awaits'
  BY <1>1 DEF Paused, SingleFlight, Awaits
<1>4. Known' /\ Current' /\ Marked'
  BY <1>1 DEF PageInv, PageTypeOK, Known, Current, Marked
<1> QED
  BY <1>2, <1>3, <1>4 DEF PageInv

LEMMA PostEndsInv == ASSUME PageInv, PostSucceeds \/ PostFails PROVE PageInv'
<1>1. CASE PostSucceeds
  BY <1>1 DEF PostSucceeds, Refresh, PageInv, PageTypeOK, SingleFlight, Awaits, Known, Current,
     Marked, Busy, Polls, Handlers
<1>2. CASE PostFails
  BY <1>2 DEF PostFails, PageInv, PageTypeOK, SingleFlight, Awaits, Known, Current, Marked, Busy,
     requests, form, Handlers
<1> QED
  BY <1>1, <1>2

LEMMA TabInv == ASSUME PageInv, Edit \/ Hide \/ Show PROVE PageInv'
<1>1. CASE Edit
  BY <1>1 DEF Edit, PageInv, PageTypeOK, SingleFlight, Awaits, Known, Current, Marked, Busy,
     requests, action
<1>2. CASE Hide
  BY <1>2 DEF Hide, PageInv, PageTypeOK, SingleFlight, Awaits, Known, Current, Marked, Busy,
     requests, action, form
<1>3. CASE Show
  BY <1>3 DEF Show, Refresh, PageInv, PageTypeOK, SingleFlight, Awaits, Known, Current, Marked, Busy,
     requests, action, form, Polls, Handlers
<1> QED
  BY <1>1, <1>2, <1>3

LEMMA StutterInv == PageInv /\ UNCHANGED page => PageInv'
BY DEF PageInv, PageTypeOK, SingleFlight, Awaits, Known, Current, Marked, Busy, page, requests, action, form

LEMMA PageNextInv == PageInv /\ [PageNext]_page => PageInv'
BY DeviceInv, TimerInv, PollEndsInv, ClickInv, PostEndsInv, TabInv, StutterInv DEF PageNext, Endings

LEMMA PageInvHolds == PageSpec => []PageInv
<1> QED
  BY PageInitInv, PageNextInv, PTL DEF PageSpec

-----------------------------------------------------------------------------
\* Every variable of the page keeps its type.
THEOREM PageTypes == PageSpec => []PageTypeOK
<1>1. PageInv => PageTypeOK
  BY DEF PageInv
<1> QED
  BY <1>1, PageInvHolds, PTL

\* The page has one request under way at most, and none is due while one is, while
\* an action runs or while the tab is hidden.
THEOREM OneRequestAtATime == PageSpec => []SingleFlight
<1>1. PageInv => SingleFlight
  BY DEF PageInv
<1> QED
  BY <1>1, PageInvHolds, PTL

\* What the page shows never goes back, nor behind an action that has succeeded.
THEOREM ShownNeverGoesBack == PageSpec => ShownIsCurrent
<1>1. PageInv /\ [PageNext]_page => [shown' # shown => shown' > shown /\ shown' >= acted]_page
  <2> SUFFICES ASSUME PageInv, PageNext, shown' # shown
               PROVE  shown' > shown /\ shown' >= acted
    BY DEF page
  <2>1. PollSucceeds
    BY DEF PageNext, Elsewhere, Read, Apply, TimerFires, Endings, PollFails, PostSucceeds,
       PostFails, Click, Edit, Hide, Show
  <2> QED
    BY <2>1 DEF PollSucceeds, PageInv, PageTypeOK, Current
<1> QED
  BY <1>1, PageInvHolds, PTL DEF PageSpec, ShownIsCurrent

\* Only a save takes an unsaved edit out of the form.
THEOREM EditsAreKept == PageSpec => EditsKept
<1>1. PageInv /\ [PageNext]_page => [unsaved /\ ~unsaved' => Saving]_page
  <2> SUFFICES ASSUME PageInv, PageNext, unsaved, ~unsaved'
               PROVE  Saving
    BY DEF page
  <2>1. ~PollSucceeds
    BY DEF PollSucceeds, Syncs, PageInv, Marked
  <2>2. PostSucceeds
    BY <2>1 DEF PageNext, Elsewhere, Read, Apply, TimerFires, Endings, PollFails,
       PostFails, Click, Edit, Hide, Show, form
  <2> QED
    BY <2>2 DEF PostSucceeds, Saving
<1> QED
  BY <1>1, PageInvHolds, PTL DEF PageSpec, EditsKept
=============================================================================
