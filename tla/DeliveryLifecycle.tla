------------------------- MODULE DeliveryLifecycle -------------------------
(***************************************************************************)
(* What the webhook inbox promises of each delivery, without workers,      *)
(* locks or a clock: it is taken in once and tried under some limit, its   *)
(* handler acts once an attempt at most and returns an object once at most, *)
(* and it is settled for good or lost with its worker.  WebhookInbox       *)
(* implements this specification.                                          *)
(***************************************************************************)
EXTENDS Integers

CONSTANTS
  Deliveries,
  Limits       \* how many attempts a failing delivery may be allowed

VARIABLES
  stage,      \* how far each delivery is
  attempts,   \* how often it was tried
  effects,    \* how often its handler did its work
  results     \* how often its handler returned an object

handled == <<effects, results>>
lvars == <<stage, attempts, effects, results>>

Init ==
  /\ stage = [d \in Deliveries |-> "absent"]
  /\ attempts = [d \in Deliveries |-> 0]
  /\ effects = [d \in Deliveries |-> 0] /\ results = [d \in Deliveries |-> 0]

Moves(d, from, to) == stage[d] = from /\ stage' = [stage EXCEPT ![d] = to]

Receive(d) == Moves(d, "absent", "queued") /\ UNCHANGED <<attempts, handled>>

Try(d) ==
  /\ Moves(d, "queued", "running")
  /\ attempts' = [attempts EXCEPT ![d] = @ + 1]
  /\ UNCHANGED handled

(* The handler acts, once for each attempt at most, and the worker may be  *)
(* gone with it.                                                           *)
Acts(d) ==
  /\ results[d] = 0 /\ effects[d] < attempts[d]
  /\ effects' = [effects EXCEPT ![d] = @ + 1]
  /\ \/ stage[d] = "running" /\ UNCHANGED stage
     \/ Moves(d, "running", "lost")
  /\ UNCHANGED attempts

(* It fails all the same, or it returns an object. *)
ActInVain(d) == Acts(d) /\ UNCHANGED results

Return(d) == Acts(d) /\ results' = [results EXCEPT ![d] = 1]

Complete(d) ==
  /\ results[d] = 1
  /\ Moves(d, "running", "completed")
  /\ UNCHANGED <<attempts, handled>>

(* No object was returned: another attempt within some limit ... *)
Retry(d) ==
  /\ results[d] = 0 /\ \E limit \in Limits : attempts[d] < limit
  /\ Moves(d, "running", "queued")
  /\ UNCHANGED <<attempts, handled>>

(* ... or none, at some limit. *)
GiveUp(d) ==
  /\ results[d] = 0 /\ \E limit \in Limits : attempts[d] >= limit
  /\ Moves(d, "running", "dead_letter")
  /\ UNCHANGED <<attempts, handled>>

(* The worker is gone, and nobody ever looks at the delivery again. *)
Lose(d) == Moves(d, "running", "lost") /\ UNCHANGED <<attempts, handled>>

Next ==
  \E d \in Deliveries :
    \/ Receive(d) \/ Try(d) \/ ActInVain(d) \/ Return(d)
    \/ Complete(d) \/ Retry(d) \/ GiveUp(d) \/ Lose(d)

Spec == Init /\ [][Next]_lvars
=============================================================================
