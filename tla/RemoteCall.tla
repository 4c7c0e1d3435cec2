----------------------------- MODULE RemoteCall -----------------------------
(***************************************************************************)
(* What a browser may rely on when it calls the counter over HTTP: every   *)
(* call is answered once, takes effect at most once, and a call answered   *)
(* "ok" has taken effect.  A refused call never takes effect; a call that  *)
(* timed out may still do so, once, if the firmware had begun to work on   *)
(* it.  MainThreadBridge implements this specification.                    *)
(***************************************************************************)
CONSTANT Calls

VARIABLES
  reply,  \* the answer to each call, "none" while there is none
  effect  \* how far its effect is: "none", "begun" or "done"

vars == <<reply, effect>>

Init == reply = [c \in Calls |-> "none"] /\ effect = [c \in Calls |-> "none"]

Answer(c, answer) == reply[c] = "none" /\ reply' = [reply EXCEPT ![c] = answer]

Begin(c) ==
  /\ reply[c] = "none" /\ effect[c] = "none"
  /\ effect' = [effect EXCEPT ![c] = "begun"]
  /\ UNCHANGED reply

Finish(c) ==
  /\ effect[c] = "begun"
  /\ effect' = [effect EXCEPT ![c] = "done"]
  /\ UNCHANGED reply

Succeed(c) == effect[c] = "done" /\ Answer(c, "ok") /\ UNCHANGED effect
Refuse(c) == effect[c] = "none" /\ Answer(c, "busy") /\ UNCHANGED effect
TimeOut(c) == Answer(c, "timeout") /\ UNCHANGED effect

\* A restart of the device leaves the calls it interrupts without an answer.
Lose == 
  /\ \E lost \in SUBSET {c \in Calls : reply[c] = "none"} :
       reply' = [c \in Calls |-> IF c \in lost THEN "lost" ELSE reply[c]]
  /\ UNCHANGED effect

Next ==
  \/ \E c \in Calls : Begin(c) \/ Finish(c) \/ Succeed(c) \/ Refuse(c) \/ TimeOut(c)
  \/ Lose

Spec == Init /\ [][Next]_vars
=============================================================================
