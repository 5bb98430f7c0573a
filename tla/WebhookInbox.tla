---------------------------- MODULE WebhookInbox ----------------------------
(***************************************************************************)
(* The durable webhook inbox (PostgresStateStore and MySQLStateStore:      *)
(* enqueue_webhook, claim_webhook, complete_webhook, fail_webhook) and the *)
(* workers that run process_webhook_once over it, one action per           *)
(* transaction or handler call; a claim is two, for its row lock.          *)
(***************************************************************************)
EXTENDS Integers, FiniteSets

CONSTANTS
  Deliveries,    \* delivery_id values GitHub sends, once or more often
  Registered,    \* the deliveries whose event type has a handler
  Workers,       \* processes that call process_webhook_once
  MaxAttempts,   \* each worker's max_attempts
  RetryDelay,    \* each worker's retry_seconds, in clock ticks
  Abandons,      \* whether a worker may stop, or lose the database, mid-event
  BadResults,    \* whether a handler may return what JSON cannot hold
  Null

ASSUME InboxAssumption ==
  /\ Registered \subseteq Deliveries
  /\ MaxAttempts \in [Workers -> Nat \ {0}]
  /\ RetryDelay \in [Workers -> Nat]
  /\ Abandons \in BOOLEAN /\ BadResults \in BOOLEAN
  /\ Null \notin Deliveries /\ Null \notin Workers

VARIABLES
  event,      \* agent_webhook_events, by delivery_id
  now,        \* the database clock
  wpc,        \* where each worker is in process_webhook_once
  claim,      \* the delivery it holds
  successes,  \* history: how often a delivery's handler returned an object
  effects     \* history: how often its handler did what it is there to do

history == <<successes, effects>>
vars == <<event, now, wpc, claim, successes, effects>>

Statuses == {"absent", "queued", "processing", "completed", "dead_letter"}

Row ==
  [status : Statuses, attempts : Nat, available : Nat, created : Nat,
   lockedBy : Workers \cup {Null}]

NoRow ==
  [status |-> "absent", attempts |-> 0, available |-> 0, created |-> 0,
   lockedBy |-> Null]

WorkerPCs == {"idle", "selected", "handling", "completing", "failing"}

TypeOK ==
  /\ event \in [Deliveries -> Row]
  /\ now \in Nat
  /\ wpc \in [Workers -> WorkerPCs]
  /\ claim \in [Workers -> Deliveries \cup {Null}]
  /\ successes \in [Deliveries -> Nat] /\ effects \in [Deliveries -> Nat]

Init ==
  /\ event = [d \in Deliveries |-> NoRow]
  /\ now = 0
  /\ wpc = [w \in Workers |-> "idle"]
  /\ claim = [w \in Workers |-> Null]
  /\ successes = [d \in Deliveries |-> 0] /\ effects = [d \in Deliveries |-> 0]
-----------------------------------------------------------------------------
(* Mutant: ON CONFLICT DO UPDATE, so that a redelivery queues again. *)
EnqueueAgain(d) ==
  /\ event' = [event EXCEPT ![d] = [status |-> "queued", attempts |-> 0,
                                    available |-> now, created |-> now,
                                    lockedBy |-> Null]]
  /\ UNCHANGED <<now, wpc, claim, history>>

(* INSERT ... ON CONFLICT (delivery_id) DO NOTHING: a redelivery of a known *)
(* event, whatever its state, changes nothing.                              *)
Enqueue(d) ==
  /\ event[d].status = "absent"
  /\ event' = [event EXCEPT ![d] = [status |-> "queued", attempts |-> 0,
                                    available |-> now, created |-> now,
                                    lockedBy |-> Null]]
  /\ UNCHANGED <<now, wpc, claim, history>>

(* Mutant: a SELECT without FOR UPDATE SKIP LOCKED. *)
LockedNever(d) == FALSE

(* A row lock between the claim's SELECT and its commit. *)
Locked(d) == \E w \in Workers : wpc[w] = "selected" /\ claim[w] = d

(* Mutant: available_at is compared with created_at. *)
ReadyByCreation(d) ==
  event[d].status = "queued" /\ event[d].available <= event[d].created /\ ~Locked(d)

(* WHERE status = 'queued' AND available_at <= now, SKIP LOCKED *)
Ready(d) ==
  event[d].status = "queued" /\ event[d].available <= now /\ ~Locked(d)

(* ORDER BY available_at, created_at *)
Before(d, e) ==
  \/ event[d].available < event[e].available
  \/ /\ event[d].available = event[e].available
     /\ event[d].created <= event[e].created

FirstReady(d) == Ready(d) /\ \A e \in Deliveries : Ready(e) => Before(d, e)

Select(w, d) ==
  /\ wpc[w] = "idle"
  /\ FirstReady(d)
  /\ wpc' = [wpc EXCEPT ![w] = "selected"]
  /\ claim' = [claim EXCEPT ![w] = d]
  /\ UNCHANGED <<event, now, history>>

(* The claim's UPDATE and its commit. *)
Taken(row, w) ==
  [status |-> "processing", attempts |-> row.attempts + 1,
   available |-> row.available, created |-> row.created, lockedBy |-> w]

Take(w) ==
  /\ wpc[w] = "selected"
  /\ event' = [event EXCEPT ![claim[w]] = Taken(@, w)]
  /\ wpc' = [wpc EXCEPT ![w] = "handling"]
  /\ UNCHANGED <<now, claim, history>>

(* The handler has done its work, whatever becomes of its answer. *)
Acts(w) ==
  /\ wpc[w] = "handling" /\ claim[w] \in Registered
  /\ effects' = [effects EXCEPT ![claim[w]] = @ + 1]

Returns(w) == Acts(w) /\ successes' = [successes EXCEPT ![claim[w]] = @ + 1]

(* The handler returns an object that JSON can hold. *)
HandlerReturns(w) ==
  /\ Returns(w)
  /\ wpc' = [wpc EXCEPT ![w] = "completing"]
  /\ UNCHANGED <<event, now, claim>>

(* The handler raises, before or after it has acted, or returns no object, *)
(* or there is none (KeyError).                                            *)
HandlerRaises(w) ==
  /\ wpc[w] = "handling"
  /\ Acts(w) \/ UNCHANGED effects
  /\ wpc' = [wpc EXCEPT ![w] = "failing"]
  /\ UNCHANGED <<event, now, claim, successes>>

Leave(w) ==
  /\ wpc' = [wpc EXCEPT ![w] = "idle"]
  /\ claim' = [claim EXCEPT ![w] = Null]

(* The handler returns a dictionary that json.dumps refuses: complete_webhook *)
(* raises before its UPDATE, outside the try, and the worker is gone.         *)
HandlerReturnsBad(w) ==
  /\ BadResults
  /\ Returns(w)
  /\ Leave(w)
  /\ UNCHANGED <<event, now>>

Complete(w) ==
  LET d == claim[w]
  IN /\ wpc[w] = "completing"
     /\ IF event[d].status = "processing"
        THEN event' = [event EXCEPT ![d].status = "completed",
                                    ![d].lockedBy = Null]
        ELSE UNCHANGED event
     /\ Leave(w)
     /\ UNCHANGED <<now, history>>

(* Mutant: one attempt too few, before the dead letter. *)
FailedEarly(row, w) ==
  LET last == row.attempts + 1 >= MaxAttempts[w]
  IN [status    |-> IF last THEN "dead_letter" ELSE "queued",
      attempts  |-> row.attempts,
      available |-> IF last THEN row.available ELSE now + RetryDelay[w],
      created   |-> row.created,
      lockedBy  |-> Null]

(* Mutant: one attempt too many, before the dead letter. *)
FailedLate(row, w) ==
  LET last == row.attempts > MaxAttempts[w]
  IN [status    |-> IF last THEN "dead_letter" ELSE "queued",
      attempts  |-> row.attempts,
      available |-> IF last THEN row.available ELSE now + RetryDelay[w],
      created   |-> row.created,
      lockedBy  |-> Null]

(* Mutant: the delay is set, the status is not. *)
FailedStillProcessing(row, w) ==
  LET last == row.attempts >= MaxAttempts[w]
  IN [status    |-> IF last THEN "dead_letter" ELSE row.status,
      attempts  |-> row.attempts,
      available |-> IF last THEN row.available ELSE now + RetryDelay[w],
      created   |-> row.created,
      lockedBy  |-> Null]

(* Mutant: a status the table's CHECK does not know. *)
FailedUnknownStatus(row, w) ==
  LET last == row.attempts >= MaxAttempts[w]
  IN [status    |-> IF last THEN "failed" ELSE "queued",
      attempts  |-> row.attempts,
      available |-> IF last THEN row.available ELSE now + RetryDelay[w],
      created   |-> row.created,
      lockedBy  |-> Null]

(* The row fail_webhook writes: the last attempt allowed, or another one   *)
(* after the delay.                                                        *)
Failed(row, w) ==
  LET last == row.attempts >= MaxAttempts[w]
  IN [status    |-> IF last THEN "dead_letter" ELSE "queued",
      attempts  |-> row.attempts,
      available |-> IF last THEN row.available ELSE now + RetryDelay[w],
      created   |-> row.created,
      lockedBy  |-> Null]

FailEvent(w) ==
  LET d == claim[w]
  IN /\ wpc[w] = "failing"
     /\ IF event[d].status = "processing"
        THEN event' = [event EXCEPT ![d] = Failed(@, w)]
        ELSE UNCHANGED event
     /\ Leave(w)
     /\ UNCHANGED <<now, history>>

(* The worker's process dies, or a statement raises out of                 *)
(* process_webhook_once: what it had not committed is rolled back, what it *)
(* had committed stays, and what its handler had done.                     *)
Abandon(w) ==
  /\ Abandons
  /\ wpc[w] # "idle"
  /\ Acts(w) \/ UNCHANGED effects
  /\ Leave(w)
  /\ UNCHANGED <<event, now, successes>>

(* The clock matters, and moves, only while some event waits for it. *)
Tick ==
  /\ \E d \in Deliveries : event[d].status = "queued" /\ event[d].available > now
  /\ now' = now + 1
  /\ UNCHANGED <<event, wpc, claim, history>>

Work(w) ==
  \/ \E d \in Deliveries : Select(w, d)
  \/ Take(w) \/ HandlerReturns(w) \/ HandlerRaises(w)
  \/ Complete(w) \/ FailEvent(w)

Next ==
  \/ \E d \in Deliveries : Enqueue(d)
  \/ \E w \in Workers : Work(w) \/ HandlerReturnsBad(w) \/ Abandon(w)
  \/ Tick

Spec == Init /\ [][Next]_vars

(* The workers poll in a loop and the clock advances; nothing obliges      *)
(* GitHub to send, or a worker to fail.                                    *)
FairSpec == Spec /\ WF_vars(Tick) /\ \A w \in Workers : WF_vars(Work(w))
-----------------------------------------------------------------------------
Holds(w, d) == wpc[w] \in {"handling", "completing", "failing"} /\ claim[w] = d

Abandoned(d) ==
  event[d].status = "processing" /\ \A w \in Workers : ~Holds(w, d)

(* The row lock and the status are what keeps an event to one worker: no   *)
(* two workers run a handler, or report, for the same claim of a delivery. *)
OneWorkerPerEvent ==
  \A v, w \in Workers : \A d \in Deliveries :
    (Holds(v, d) \/ (wpc[v] = "selected" /\ claim[v] = d))
    /\ (Holds(w, d) \/ (wpc[w] = "selected" /\ claim[w] = d)) => v = w

(* A report always meets the row as the claim left it: complete_webhook and *)
(* fail_webhook never find their event in another state or another worker's *)
(* hands, although neither checks locked_by.                                *)
ReportsMeetTheirClaim ==
  \A w \in Workers : \A d \in Deliveries :
    Holds(w, d) => event[d].status = "processing" /\ event[d].lockedBy = w

(* From claim_webhook to the report a delivery is one worker's and stays   *)
(* as it was claimed.                                                      *)
ClaimsAreKept == OneWorkerPerEvent /\ ReportsMeetTheirClaim

(* A handler may act again for a delivery when it raised or its worker     *)
(* stopped, so it has to be idempotent; but, through failures, redeliveries *)
(* and workers of different policies, it returns an object once at most    *)
(* and acts no more often than some worker's limit allows.                 *)
HandlerActsWithinLimits ==
  \A d \in Deliveries :
    /\ successes[d] <= 1
    /\ effects[d] > 0 => \E w \in Workers : effects[d] <= MaxAttempts[w]

(* A completed event has an object that its handler returned; a dead letter *)
(* has none, whatever its handler did before it raised, and used up the     *)
(* attempts of some worker's policy.                                        *)
SettledForAReason ==
  \A d \in Deliveries :
    /\ event[d].status = "completed" => successes[d] = 1
    /\ event[d].status = "dead_letter" =>
         /\ successes[d] = 0
         /\ \E w \in Workers : event[d].attempts >= MaxAttempts[w]

(* Workers with different policies share an event, so the largest bounds it.*)
AttemptsBounded ==
  \A d \in Deliveries : event[d].attempts > 0 =>
    \E w \in Workers : event[d].attempts <= MaxAttempts[w]

(* A settled event is never claimed, requeued or enqueued again, and an    *)
(* attempt is never uncounted.                                             *)
SettledIsFinal ==
  [][\A d \in Deliveries :
       /\ event[d].status \in {"completed", "dead_letter"} => event'[d] = event[d]
       /\ event'[d].attempts >= event[d].attempts]_vars

(* A worker that neither stops nor has a result that cannot be stored lets *)
(* go of an event only with a report that settles it or queues it again.   *)
ClaimsEndInReports ==
  [][\A w \in Workers : \A d \in Deliveries :
       Holds(w, d) /\ wpc'[w] = "idle" =>
         \/ event'[d].status \in {"queued", "completed", "dead_letter"}
         \/ Abandon(w) \/ HandlerReturnsBad(w)]_vars

(* Failures and retries end: once workers no longer stop, a delivery is    *)
(* completed or becomes a dead letter unless the worker that held it was   *)
(* gone before.                                                            *)
DeliveriesSettleUnlessAbandoned ==
  <>[][\A w \in Workers : ~Abandon(w)]_vars =>
    \A d \in Deliveries : event[d].status # "absent" ~>
      event[d].status \in {"completed", "dead_letter"} \/ Abandoned(d)

(* Every delivery taken in is completed or becomes a dead letter. *)
EveryDeliverySettles ==
  \A d \in Deliveries : event[d].status # "absent" ~>
    event[d].status \in {"completed", "dead_letter"}

(* A delivery's stage, by its row and by who holds it. *)
Stage(d) ==
  IF event[d].status # "processing" THEN event[d].status
  ELSE IF Abandoned(d) THEN "lost" ELSE "running"

Lifecycle == INSTANCE DeliveryLifecycle
               WITH Limits   <- {MaxAttempts[w] : w \in Workers},
                    stage    <- [d \in Deliveries |-> Stage(d)],
                    attempts <- [d \in Deliveries |-> event[d].attempts],
                    effects  <- effects,
                    results  <- successes

(* Workers, row locks, delays and faults together give every delivery the  *)
(* life DeliveryLifecycle describes, and no other: the handler acts once an *)
(* attempt, a returned object is followed by no retry and a lost delivery  *)
(* by nothing at all.                                                      *)
ImplementsLifecycle == Lifecycle!Spec
-----------------------------------------------------------------------------
(* What a worker may rely on at each of its steps. *)
WorkerInv(w) ==
  /\ wpc[w] = "idle" <=> claim[w] = Null
  /\ wpc[w] = "selected" => event[claim[w]].status = "queued"
  /\ wpc[w] \in {"handling", "failing"} => successes[claim[w]] = 0
  /\ wpc[w] = "completing" => successes[claim[w]] = 1
  /\ wpc[w] = "handling" => effects[claim[w]] < event[claim[w]].attempts

(* What each status says of the attempts and of the handler's runs. *)
EventInv(d) ==
  /\ successes[d] <= 1 /\ effects[d] <= event[d].attempts
  /\ event[d].status \in {"absent", "queued"} => successes[d] = 0
  /\ event[d].status = "absent" => event[d].attempts = 0
  /\ event[d].status = "queued" =>
       \/ event[d].attempts = 0
       \/ \E w \in Workers : event[d].attempts < MaxAttempts[w]

(* The inductive invariant behind the safety properties above. *)
InboxInv ==
  /\ TypeOK
  /\ \A w \in Workers : WorkerInv(w)
  /\ \A d \in Deliveries : EventInv(d)
  /\ OneWorkerPerEvent
  /\ ReportsMeetTheirClaim
  /\ SettledForAReason
  /\ AttemptsBounded
=============================================================================
