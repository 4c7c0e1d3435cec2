-------------------------- MODULE MainThreadBridge --------------------------
(***************************************************************************)
(* The bridge between the HTTP task and the main loop: MainThreadBridge of *)
(* components/tof_overdoor_ui/main_thread_bridge.h with its one caller,    *)
(* send_from_main_ in tof_overdoor_ui.cpp.  Each action is one access to   *)
(* shared memory, so the two tasks interleave between any two of them.     *)
(*                                                                         *)
(* The HTTP task serves one request at a time; it gives up on a job after  *)
(* 1500 ms, which may pass at any moment since nothing bounds how long the *)
(* main loop stalls.                                                       *)
(***************************************************************************)
EXTENDS Naturals, Sequences

CONSTANTS
  Requests,  \* the requests that ever arrive
  Restarts,  \* those that ask for a restart
  REBOOT     \* the deferred callback that restarts the device

ASSUME BridgeAssumption == Restarts \subseteq Requests /\ REBOOT \notin Requests

VARIABLES
  busy,      \* MainThreadBridge::busy_
  state,     \* Job::state of each request, "NONE" before submit
  response,  \* Job::response: "empty", half "written" or "whole"
  queue,     \* callbacks deferred to the main loop
  http, request,   \* where the HTTP task is, and in which request
  main, callback,  \* where the main loop is, and in which callback
  applied,   \* how often the work of each request was done
  answer     \* what each request was sent

vars == <<busy, state, response, queue, http, request, main, callback, applied, answer>>

States == {"NONE", "WAITING", "RUNNING", "DONE", "CANCELLED"}
HttpSteps == {"idle", "exchange", "schedule", "wait", "check", "cancel", "send", "defer"}
MainSteps == {"loop", "claim", "work", "respond", "publish", "release"}
Answers == {"none", "ok", "torn", "busy", "timeout", "lost"}

None == "none"

Answered(r, a) == answer' = [answer EXCEPT ![r] = a]

-----------------------------------------------------------------------------
(* The HTTP task: handleRequest, send_from_main_ and submit.               *)

http_vars == <<http, request, answer>>
main_vars == <<main, callback, response, applied>>

Receive(r) ==
  /\ http = "idle" /\ answer[r] = "none"
  /\ http' = "exchange" /\ request' = r
  /\ UNCHANGED <<busy, state, queue, answer, main_vars>>

\* if (busy_.exchange(true)) return nullptr;
Exchange ==
  /\ http = "exchange"
  /\ busy' = TRUE
  /\ IF busy THEN http' = "idle" /\ Answered(request, "busy") /\ UNCHANGED state
             ELSE http' = "schedule" /\ state' = [state EXCEPT ![request] = "WAITING"] /\ UNCHANGED answer
  /\ UNCHANGED <<queue, request, main_vars>>

Schedule ==
  /\ http = "schedule"
  /\ queue' = Append(queue, request)
  /\ http' = "wait"
  /\ UNCHANGED <<busy, state, request, answer, main_vars>>

\* The loop over job->done() ends with the job or with the time.
SeeDone ==
  /\ http = "wait" /\ state[request] = "DONE"
  /\ http' = "check"
  /\ UNCHANGED <<busy, state, queue, request, answer, main_vars>>

\* Mutant: the HTTP task waits for the main loop without a limit.
NeverGiveUp ==
  /\ http = "wait" /\ FALSE
  /\ http' = "check"
  /\ UNCHANGED <<busy, state, queue, request, answer, main_vars>>

GiveUp ==
  /\ http = "wait"
  /\ http' = "check"
  /\ UNCHANGED <<busy, state, queue, request, answer, main_vars>>

\* if (!job->done()): the answer may have come since the loop ended.
Check ==
  /\ http = "check"
  /\ http' = IF state[request] = "DONE" THEN "send" ELSE "cancel"
  /\ UNCHANGED <<busy, state, queue, request, answer, main_vars>>

\* Mutant: giving up also frees the bridge.
CancelAndFree ==
  /\ http = "cancel"
  /\ state' = [state EXCEPT ![request] = IF @ = "WAITING" THEN "CANCELLED" ELSE @]
  /\ busy' = FALSE
  /\ Answered(request, "timeout") /\ http' = "idle"
  /\ UNCHANGED <<queue, request, main_vars>>

\* Job::cancel revokes a job that waits; work that runs is left to finish.
Cancel ==
  /\ http = "cancel"
  /\ state' = [state EXCEPT ![request] = IF @ = "WAITING" THEN "CANCELLED" ELSE @]
  /\ Answered(request, "timeout") /\ http' = "idle"
  /\ UNCHANGED <<busy, queue, request, main_vars>>

\* request->send(response...): what is sent is what the job holds by now.
Send ==
  /\ http = "send"
  /\ Answered(request, IF response[request] = "whole" THEN "ok" ELSE "torn")
  /\ http' = IF request \in Restarts THEN "defer" ELSE "idle"
  /\ UNCHANGED <<busy, state, queue, request, main_vars>>

\* if (response.restart) defer(safe_reboot)
DeferReboot ==
  /\ http = "defer"
  /\ queue' = Append(queue, REBOOT)
  /\ http' = "idle"
  /\ UNCHANGED <<busy, state, request, answer, main_vars>>

HttpNext ==
  \/ \E r \in Requests : Receive(r)
  \/ Exchange \/ Schedule \/ SeeDone \/ GiveUp \/ Check \/ Cancel \/ Send \/ DeferReboot

-----------------------------------------------------------------------------
(* The main loop: the scheduler and the callback that submit built.        *)

Dequeue ==
  /\ main = "loop" /\ queue # <<>> /\ Head(queue) # REBOOT
  /\ queue' = Tail(queue) /\ callback' = Head(queue)
  /\ main' = "claim"
  /\ UNCHANGED <<busy, state, response, applied, http_vars>>

\* Mutant: a callback runs its job whether or not it was cancelled.
ClaimAlways ==
  /\ main = "claim"
  /\ main' = "work" /\ state' = [state EXCEPT ![callback] = "RUNNING"]
  /\ UNCHANGED <<busy, queue, callback, response, applied, http_vars>>

\* Mutant: the bridge is freed only by a callback that ran its job.
ClaimOrForget ==
  /\ main = "claim"
  /\ IF state[callback] = "WAITING"
     THEN main' = "work" /\ state' = [state EXCEPT ![callback] = "RUNNING"] /\ UNCHANGED callback
     ELSE main' = "loop" /\ callback' = None /\ UNCHANGED state
  /\ UNCHANGED <<busy, queue, response, applied, http_vars>>

\* if (state.compare_exchange_strong(WAITING, RUNNING))
Claim ==
  /\ main = "claim"
  /\ IF state[callback] = "WAITING"
     THEN main' = "work" /\ state' = [state EXCEPT ![callback] = "RUNNING"]
     ELSE main' = "release" /\ UNCHANGED state
  /\ UNCHANGED <<busy, queue, callback, response, applied, http_vars>>

\* work(): read the counter's state, or apply_action_.
Work ==
  /\ main = "work"
  /\ applied' = [applied EXCEPT ![callback] = @ + 1]
  /\ main' = "respond"
  /\ UNCHANGED <<busy, state, queue, callback, response, http_vars>>

\* job->response = ... moves a string in more than one step.
Respond ==
  /\ main = "respond"
  /\ response' = [response EXCEPT ![callback] = IF @ = "empty" THEN "written" ELSE "whole"]
  /\ main' = IF response[callback] = "empty" THEN "respond" ELSE "publish"
  /\ UNCHANGED <<busy, state, queue, callback, applied, http_vars>>

Publish ==
  /\ main = "publish"
  /\ state' = [state EXCEPT ![callback] = "DONE"]
  /\ main' = "release"
  /\ UNCHANGED <<busy, queue, callback, response, applied, http_vars>>

Release ==
  /\ main = "release"
  /\ busy' = FALSE
  /\ main' = "loop" /\ callback' = None
  /\ UNCHANGED <<state, queue, response, applied, http_vars>>

\* safe_reboot: memory is lost, and so is the connection of an open request.
Reboot ==
  /\ main = "loop" /\ queue # <<>> /\ Head(queue) = REBOOT
  /\ busy' = FALSE /\ queue' = <<>>
  /\ http' = "idle" /\ request' = None
  /\ main' = "loop" /\ callback' = None
  /\ answer' = IF http = "idle" \/ http = "defer" THEN answer ELSE [answer EXCEPT ![request] = "lost"]
  /\ UNCHANGED <<state, response, applied>>

MainNext == Dequeue \/ Claim \/ Work \/ Respond \/ Publish \/ Release \/ Reboot

-----------------------------------------------------------------------------
Init ==
  /\ busy = FALSE
  /\ state = [r \in Requests |-> "NONE"]
  /\ response = [r \in Requests |-> "empty"]
  /\ queue = <<>>
  /\ http = "idle" /\ request = None
  /\ main = "loop" /\ callback = None
  /\ applied = [r \in Requests |-> 0]
  /\ answer = [r \in Requests |-> "none"]

Next == HttpNext \/ MainNext

Spec == Init /\ [][Next]_vars

\* The HTTP task is scheduled and its delays end: a request it has received
\* goes on.  Nothing is assumed of the main loop, which may stall for good.
FairSpec == Spec /\ WF_vars(http # "idle" /\ HttpNext)

-----------------------------------------------------------------------------
\* Types, and the bound of the scheduler's queue: one job, however many
\* requests time out, next to the restarts somebody asked for.
TypeOK ==
  /\ busy \in BOOLEAN
  /\ state \in [Requests -> States]
  /\ response \in [Requests -> {"empty", "written", "whole"}]
  /\ queue \in Seq(Requests \cup {REBOOT})
  /\ http \in HttpSteps /\ request \in Requests \cup {None}
  /\ main \in MainSteps /\ callback \in Requests \cup {None}
  /\ applied \in [Requests -> Nat]
  /\ answer \in [Requests -> Answers]

\* "Exactly one callback may be outstanding, including a timed-out callback
\* which the main loop has not consumed yet" (main_thread_bridge.h): jobs in
\* the queue and the job the main loop has taken exclude each other, and the
\* bridge is busy as long as there is one.
JobAt(i) == i \in DOMAIN queue /\ queue[i] # REBOOT

OneOutstanding ==
  /\ \A i, j \in DOMAIN queue : JobAt(i) /\ JobAt(j) => i = j
  /\ main # "loop" => \A i \in DOMAIN queue : ~JobAt(i)
  /\ (main # "loop" \/ \E i \in DOMAIN queue : JobAt(i)) => busy

\* A call of the bridge is a remote call: answered once, in effect at most
\* once, and answered "ok" with its own finished response only.
Call == INSTANCE RemoteCall WITH
  Calls  <- Requests,
  reply  <- answer,
  effect <- [r \in Requests |-> IF applied[r] # 0 THEN "done"
                                ELSE IF state[r] = "RUNNING" THEN "begun" ELSE "none"]

Implements == Call!Spec

\* Every request gets its answer, unless the device restarts, even if the main
\* loop never comes back.
AlwaysAnswered ==
  \A r \in Requests : (request = r /\ http # "idle") ~> answer[r] # "none"

\* A main loop that runs frees the bridge again and again, also after requests
\* whose callers gave up on them.
BridgeFrees == WF_vars(MainNext) => []<>~busy
=============================================================================
