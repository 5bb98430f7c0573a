------------------------- MODULE WebhookInboxProofs -------------------------
(***************************************************************************)
(* Machine-checked proofs of the inbox's safety, for any number of         *)
(* deliveries and workers, any retry policies and any faults.              *)
(***************************************************************************)
EXTENDS WebhookInbox, TLAPS

LEMMA InitInv == Init => InboxInv
BY InboxAssumption
   DEF Init, InboxInv, TypeOK, NoRow, Row, Statuses, WorkerPCs, WorkerInv,
       EventInv, OneWorkerPerEvent, ReportsMeetTheirClaim, Holds,
       SettledForAReason, AttemptsBounded

(* What the claim's and the reports' UPDATEs do to a row. *)
LEMMA TakenRow ==
  ASSUME NEW row \in Row, NEW w \in Workers
  PROVE  /\ Taken(row, w) \in Row
         /\ Taken(row, w).status = "processing" /\ Taken(row, w).lockedBy = w
         /\ Taken(row, w).attempts = row.attempts + 1
BY DEF Taken, Row, Statuses

LEMMA FailedRow ==
  ASSUME NEW row \in Row, NEW w \in Workers, now \in Nat
  PROVE  /\ Failed(row, w) \in Row
         /\ Failed(row, w).attempts = row.attempts
         /\ \/ /\ Failed(row, w).status = "dead_letter"
               /\ row.attempts >= MaxAttempts[w]
            \/ /\ Failed(row, w).status = "queued"
               /\ row.attempts < MaxAttempts[w]
<1>1. row.attempts \in Nat /\ MaxAttempts[w] \in Nat
      /\ now + RetryDelay[w] \in Nat
  BY InboxAssumption DEF Row
<1> QED
  BY <1>1 DEF Failed, Row, Statuses

(* A worker's step leaves other workers and their events alone, so only    *)
(* worker w and delivery d are left to show.                               *)
LEMMA WorkerStep ==
  ASSUME InboxInv, NEW w \in Workers, NEW d \in Deliveries,
         TypeOK',
         \A v \in Workers : v # w => wpc'[v] = wpc[v] /\ claim'[v] = claim[v],
         \A e \in Deliveries : e # d =>
           /\ event'[e] = event[e] /\ successes'[e] = successes[e]
           /\ effects'[e] = effects[e],
         \A v \in Workers : v # w /\ claim[v] = d =>
           /\ event'[d] = event[d] /\ successes'[d] = successes[d]
           /\ effects'[d] = effects[d],
         claim'[w] \in {d, Null},
         wpc'[w] # "idle" => \A v \in Workers : v # w => claim[v] # d,
         WorkerInv(w)', EventInv(d)',
         Holds(w, d)' => event'[d].status = "processing"
                         /\ event'[d].lockedBy = w,
         event'[d].status = "completed" => successes'[d] = 1,
         event'[d].status = "dead_letter" =>
           /\ successes'[d] = 0
           /\ \E v \in Workers : event'[d].attempts >= MaxAttempts[v],
         event'[d].attempts > 0 =>
           \E v \in Workers : event'[d].attempts <= MaxAttempts[v]
  PROVE  InboxInv'
<1>1. \A v \in Workers : WorkerInv(v)'
  <2> SUFFICES ASSUME NEW v \in Workers, v # w PROVE WorkerInv(v)'
    OBVIOUS
  <2>1. WorkerInv(v) /\ claim[v] \in Deliveries \cup {Null}
    BY DEF InboxInv, TypeOK
  <2>2. CASE claim[v] = d
    BY <2>1, <2>2 DEF WorkerInv
  <2>3. CASE claim[v] # d
    <3>1. claim[v] # Null => event'[claim[v]] = event[claim[v]]
                             /\ successes'[claim[v]] = successes[claim[v]]
                             /\ effects'[claim[v]] = effects[claim[v]]
      BY <2>1, <2>3
    <3>2. claim[v] = Null => wpc[v] = "idle"
      BY <2>1 DEF WorkerInv
    <3> QED
      BY <2>1, <3>1, <3>2 DEF WorkerInv
  <2> QED
    BY <2>2, <2>3
<1>2. \A e \in Deliveries : EventInv(e)'
  BY DEF InboxInv, EventInv
<1>3. \A v \in Workers : \A e \in Deliveries :
        v # w => (Holds(v, e)' <=> Holds(v, e))
  BY DEF Holds
<1>4. OneWorkerPerEvent'
  <2> SUFFICES ASSUME NEW u \in Workers, NEW v \in Workers,
                      NEW e \in Deliveries, u # v,
                      wpc'[u] # "idle", claim'[u] = e,
                      wpc'[v] # "idle", claim'[v] = e
               PROVE  FALSE
    BY DEF OneWorkerPerEvent, Holds
  <2>1. \A x \in Workers : x # w /\ wpc[x] # "idle" /\ claim[x] = e =>
          Holds(x, e) \/ (wpc[x] = "selected" /\ claim[x] = e)
    BY DEF InboxInv, TypeOK, WorkerPCs, Holds
  <2>2. CASE u # w /\ v # w
    BY <2>1, <2>2 DEF InboxInv, OneWorkerPerEvent
  <2>3. CASE u = w \/ v = w
    BY <2>3, InboxAssumption
  <2> QED
    BY <2>2, <2>3
<1>5. ReportsMeetTheirClaim'
  <2> SUFFICES ASSUME NEW v \in Workers, NEW e \in Deliveries, Holds(v, e)'
               PROVE  event'[e].status = "processing" /\ event'[e].lockedBy = v
    BY DEF ReportsMeetTheirClaim
  <2>1. CASE v = w
    BY <2>1, InboxAssumption DEF Holds
  <2>2. CASE v # w
    BY <1>3, <2>2 DEF InboxInv, ReportsMeetTheirClaim, Holds
  <2> QED
    BY <2>1, <2>2
<1>7. SettledForAReason'
  BY DEF InboxInv, SettledForAReason
<1>8. AttemptsBounded'
  BY DEF InboxInv, AttemptsBounded
<1> QED
  BY <1>1, <1>2, <1>4, <1>5, <1>7, <1>8 DEF InboxInv
-----------------------------------------------------------------------------
(* One lemma per action. *)

LEMMA EnqueueInv ==
  ASSUME InboxInv, NEW d \in Deliveries, Enqueue(d)
  PROVE  InboxInv'
<1> USE DEF Enqueue, history
<1>1. TypeOK'
  BY DEF InboxInv, TypeOK, Row, Statuses
<1>2. /\ event'[d].status = "queued" /\ event'[d].attempts = 0
      /\ \A e \in Deliveries : e # d => event'[e] = event[e]
  BY DEF InboxInv, TypeOK
<1>3. \A w \in Workers : wpc[w] # "idle" => claim[w] \in Deliveries \ {d}
  <2> SUFFICES ASSUME NEW w \in Workers, wpc[w] # "idle"
               PROVE  claim[w] \in Deliveries \ {d}
    OBVIOUS
  <2>1. claim[w] \in Deliveries /\ WorkerInv(w)
    BY DEF InboxInv, TypeOK, WorkerInv
  <2>2. wpc[w] = "selected" \/ Holds(w, claim[w])
    BY DEF InboxInv, TypeOK, WorkerPCs, Holds
  <2> QED
    BY <2>1, <2>2 DEF InboxInv, WorkerInv, ReportsMeetTheirClaim
<1>4. \A w \in Workers : WorkerInv(w)'
  BY <1>2, <1>3 DEF InboxInv, WorkerInv
<1>5. \A e \in Deliveries : EventInv(e)'
  BY <1>2 DEF InboxInv, EventInv
<1>6. OneWorkerPerEvent'
  BY DEF InboxInv, OneWorkerPerEvent, Holds
<1>7. ReportsMeetTheirClaim'
  BY <1>2, <1>3 DEF InboxInv, ReportsMeetTheirClaim, Holds
<1>9. SettledForAReason' /\ AttemptsBounded'
  BY <1>2 DEF InboxInv, SettledForAReason, AttemptsBounded
<1> QED
  BY <1>1, <1>4, <1>5, <1>6, <1>7, <1>9 DEF InboxInv

LEMMA SelectInv ==
  ASSUME InboxInv, NEW w \in Workers, NEW d \in Deliveries, Select(w, d)
  PROVE  InboxInv'
<1> USE DEF Select, history
<1>1. TypeOK' /\ wpc'[w] = "selected" /\ claim'[w] = d
  BY DEF InboxInv, TypeOK, WorkerPCs
<1>2. event[d].status = "queued" /\ ~Locked(d)
  BY DEF FirstReady, Ready
<1>3. \A v \in Workers : v # w => claim[v] # d
  <2> SUFFICES ASSUME NEW v \in Workers, v # w, claim[v] = d PROVE FALSE
    OBVIOUS
  <2>1. wpc[v] # "idle"
    BY InboxAssumption DEF InboxInv, WorkerInv
  <2>2. wpc[v] = "selected" \/ Holds(v, d)
    BY <2>1 DEF InboxInv, TypeOK, WorkerPCs, Holds
  <2> QED
    BY <1>2, <2>2 DEF Locked, InboxInv, ReportsMeetTheirClaim
<1>4. WorkerInv(w)'
  BY <1>1, <1>2, InboxAssumption DEF WorkerInv
<1>5. EventInv(d)' /\ ~Holds(w, d)'
  BY <1>1 DEF InboxInv, EventInv, Holds
<1>6. /\ event'[d].status = "completed" => successes'[d] = 1
      /\ event'[d].status # "dead_letter"
      /\ event'[d].attempts > 0 =>
           \E v \in Workers : event'[d].attempts <= MaxAttempts[v]
  BY <1>2 DEF InboxInv, SettledForAReason, AttemptsBounded
<1> QED
  BY <1>1, <1>3, <1>4, <1>5, <1>6, WorkerStep DEF InboxInv, TypeOK

(* What a worker that is not idle knows of the delivery it claimed. *)
LEMMA ClaimFacts ==
  ASSUME InboxInv, NEW w \in Workers, wpc[w] # "idle"
  PROVE  /\ claim[w] \in Deliveries
         /\ event[claim[w]] \in Row
         /\ event[claim[w]].attempts \in Nat
         /\ successes[claim[w]] \in Nat /\ effects[claim[w]] \in Nat
         /\ \A v \in Workers : v # w => claim[v] # claim[w]
         /\ WorkerInv(w) /\ EventInv(claim[w])
         /\ wpc[w] # "selected" => /\ event[claim[w]].status = "processing"
                                  /\ event[claim[w]].lockedBy = w
         /\ event[claim[w]].attempts > 0 =>
              \E v \in Workers : event[claim[w]].attempts <= MaxAttempts[v]
<1>1. claim[w] \in Deliveries /\ WorkerInv(w)
  BY DEF InboxInv, TypeOK, WorkerInv
<1>2. \A v \in Workers : claim[v] = claim[w] =>
        wpc[v] = "selected" \/ Holds(v, claim[w])
  BY <1>1, InboxAssumption DEF InboxInv, TypeOK, WorkerPCs, WorkerInv, Holds
<1>3. \A v \in Workers : v # w => claim[v] # claim[w]
  BY <1>1, <1>2 DEF InboxInv, OneWorkerPerEvent
<1>4. /\ event[claim[w]] \in Row
      /\ successes[claim[w]] \in Nat /\ effects[claim[w]] \in Nat
  BY <1>1 DEF InboxInv, TypeOK
<1>5. event[claim[w]].attempts \in Nat
  BY <1>4 DEF Row
<1>6. wpc[w] # "selected" => /\ event[claim[w]].status = "processing"
                             /\ event[claim[w]].lockedBy = w
  BY <1>1, <1>2 DEF InboxInv, ReportsMeetTheirClaim
<1> QED
  BY <1>1, <1>3, <1>4, <1>5, <1>6
     DEF InboxInv, AttemptsBounded

LEMMA TakeInv ==
  ASSUME InboxInv, NEW w \in Workers, Take(w)
  PROVE  InboxInv'
<1> PICK d \in Deliveries : d = claim[w]
  BY ClaimFacts DEF Take
<1>1. wpc[w] = "selected" /\ UNCHANGED <<now, claim, successes, effects>>
      /\ wpc' = [wpc EXCEPT ![w] = "handling"]
  BY DEF Take, history
<1>2. /\ d \in Deliveries /\ event[d] \in Row /\ event[d].attempts \in Nat
      /\ event[d].status = "queued" /\ successes[d] = 0 /\ EventInv(d)
      /\ effects[d] \in Nat
      /\ \A v \in Workers : v # w => claim[v] # d
  BY <1>1, ClaimFacts DEF WorkerInv, EventInv
<1>3. event' = [event EXCEPT ![d] = Taken(event[d], w)]
  BY <1>2 DEF Take, InboxInv, TypeOK
<1>4. /\ event'[d] \in Row
      /\ event'[d].status = "processing" /\ event'[d].lockedBy = w
      /\ event'[d].attempts = event[d].attempts + 1
  <2>1. event'[d] = Taken(event[d], w)
    BY <1>2, <1>3 DEF InboxInv, TypeOK
  <2> QED
    BY <1>2, <2>1, TakenRow
<1>5. TypeOK' /\ wpc'[w] = "handling" /\ claim'[w] = d
  BY <1>1, <1>2, <1>3, <1>4 DEF InboxInv, TypeOK, WorkerPCs
<1>6. WorkerInv(w)' /\ EventInv(d)'
  BY <1>1, <1>2, <1>4, <1>5, InboxAssumption DEF WorkerInv, EventInv
<1>7. \E v \in Workers : event'[d].attempts <= MaxAttempts[v]
  <2>1. CASE event[d].attempts = 0
    BY <1>4, <2>1, InboxAssumption
  <2>2. CASE event[d].attempts # 0
    <3>1. PICK v \in Workers : event[d].attempts < MaxAttempts[v]
      BY <1>2, <2>2 DEF EventInv
    <3> QED
      BY <1>2, <1>4, <3>1, InboxAssumption
  <2> QED
    BY <2>1, <2>2
<1>8. /\ \A v \in Workers : v # w => wpc'[v] = wpc[v] /\ claim'[v] = claim[v]
      /\ \A e \in Deliveries : e # d =>
           event'[e] = event[e] /\ successes'[e] = successes[e]
  BY <1>1, <1>3 DEF InboxInv, TypeOK
<1> QED
  BY <1>1, <1>2, <1>4, <1>5, <1>6, <1>7, <1>8, WorkerStep

(* A step that writes no event row: a handler call or a worker leaving. *)
LEMMA HandlerInv ==
  ASSUME InboxInv, NEW w \in Workers, wpc[w] # "idle", event' = event,
         now' = now,
         NEW q \in {"idle", "completing", "failing"},
         wpc' = [wpc EXCEPT ![w] = q],
         claim' = IF q = "idle" THEN [claim EXCEPT ![w] = Null] ELSE claim,
         q # "idle" => wpc[w] = "handling",
         \/ successes' = successes /\ q # "completing"
         \/ /\ wpc[w] = "handling" /\ q # "failing"
            /\ successes' = [successes EXCEPT ![claim[w]] = @ + 1],
         Acts(w) \/ UNCHANGED effects
  PROVE  InboxInv'
<1> PICK d \in Deliveries : d = claim[w]
  BY ClaimFacts
<1>1. /\ d \in Deliveries /\ event[d].attempts \in Nat /\ successes[d] \in Nat
      /\ \A v \in Workers : v # w => claim[v] # d
      /\ WorkerInv(w) /\ EventInv(d) /\ effects[d] \in Nat
      /\ wpc[w] # "selected" => /\ event[d].status = "processing"
                               /\ event[d].lockedBy = w
      /\ event[d].attempts > 0 =>
           \E v \in Workers : event[d].attempts <= MaxAttempts[v]
  BY ClaimFacts
<1>2. /\ successes'[d] \in {successes[d], successes[d] + 1}
      /\ successes'[d] = successes[d] + 1 => wpc[w] = "handling" /\ successes[d] = 0
      /\ q = "failing" => successes'[d] = 0
      /\ q = "completing" => successes'[d] = 1
      /\ successes' \in [Deliveries -> Nat]
      /\ \A e \in Deliveries : e # d => successes'[e] = successes[e]
  BY <1>1 DEF InboxInv, TypeOK, WorkerInv
<1>20. /\ effects' \in [Deliveries -> Nat] /\ effects'[d] <= event[d].attempts
       /\ \A e \in Deliveries : e # d => effects'[e] = effects[e]
  <2>1. CASE UNCHANGED effects
    BY <1>1, <2>1 DEF InboxInv, TypeOK, EventInv
  <2>2. CASE Acts(w)
    <3>1. effects' = [effects EXCEPT ![d] = @ + 1] /\ effects[d] < event[d].attempts
      BY <1>1, <2>2 DEF Acts, WorkerInv
    <3> QED BY <1>1, <3>1 DEF InboxInv, TypeOK
  <2> QED BY <2>1, <2>2
<1>3. TypeOK' /\ wpc'[w] = q
  BY <1>1, <1>2, <1>20 DEF InboxInv, TypeOK, WorkerPCs
<1>4. claim'[w] = IF q = "idle" THEN Null ELSE d
  BY DEF InboxInv, TypeOK
<1>5. WorkerInv(w)'
  BY <1>1, <1>2, <1>3, <1>4, InboxAssumption DEF WorkerInv
<1>6. EventInv(d)'
  BY <1>1, <1>2, <1>20 DEF EventInv
<1>7. Holds(w, d)' => event'[d].status = "processing" /\ event'[d].lockedBy = w
  BY <1>1, <1>3, <1>4, InboxAssumption DEF Holds
<1>8. /\ \A v \in Workers : v # w => wpc'[v] = wpc[v] /\ claim'[v] = claim[v]
      /\ \A e \in Deliveries : e # d =>
           /\ event'[e] = event[e] /\ successes'[e] = successes[e]
           /\ effects'[e] = effects[e]
  BY <1>2, <1>20 DEF InboxInv, TypeOK
<1>9. /\ event[d].status = "completed" => successes'[d] = 1
      /\ event[d].status = "dead_letter" =>
           /\ successes'[d] = 0
           /\ \E v \in Workers : event[d].attempts >= MaxAttempts[v]
  <2>1. wpc[w] = "selected" => event[d].status = "queued"
    BY <1>1 DEF WorkerInv
  <2> QED
    BY <1>1, <2>1
<1>10. \A v \in Workers : v # w /\ claim[v] = d =>
         /\ event'[d] = event[d] /\ successes'[d] = successes[d]
         /\ effects'[d] = effects[d]
  BY <1>1
<1> QED
  BY <1>1, <1>3, <1>4, <1>5, <1>6, <1>7, <1>8, <1>9, <1>10, WorkerStep

(* The two reports, which write the row of a processing event. *)
LEMMA ReportInv ==
  ASSUME InboxInv, NEW w \in Workers, Complete(w) \/ FailEvent(w)
  PROVE  InboxInv'
<1> PICK d \in Deliveries : d = claim[w]
  BY ClaimFacts DEF Complete, FailEvent
<1>1. wpc[w] \in {"completing", "failing"} /\ Leave(w)
      /\ UNCHANGED <<now, successes, effects>>
  BY DEF Complete, FailEvent, history
<1>2. /\ d \in Deliveries /\ event[d] \in Row /\ event[d].attempts \in Nat
      /\ \A v \in Workers : v # w => claim[v] # d
      /\ WorkerInv(w) /\ EventInv(d) /\ event[d].status = "processing"
      /\ event[d].attempts > 0 =>
           \E v \in Workers : event[d].attempts <= MaxAttempts[v]
  BY <1>1, ClaimFacts
<1>3. CASE Complete(w)
  <2>1. event' = [event EXCEPT ![d] = [event[d] EXCEPT !.status = "completed",
                                                       !.lockedBy = Null]]
    BY <1>2, <1>3 DEF Complete, InboxInv, TypeOK, Row
  <2>2. /\ event'[d] \in Row /\ event'[d].status = "completed"
        /\ event'[d].attempts = event[d].attempts
        /\ successes[d] = 1
    BY <1>2, <1>3, <2>1 DEF InboxInv, TypeOK, Row, Statuses, WorkerInv, Complete
  <2>3. TypeOK' /\ wpc'[w] = "idle" /\ claim'[w] = Null
    BY <1>1, <1>2, <2>1, <2>2 DEF InboxInv, TypeOK, WorkerPCs, Leave
  <2>4. /\ \A v \in Workers : v # w => wpc'[v] = wpc[v] /\ claim'[v] = claim[v]
        /\ \A e \in Deliveries : e # d =>
             /\ event'[e] = event[e] /\ successes'[e] = successes[e]
             /\ effects'[e] = effects[e]
    BY <1>1, <1>2, <2>1 DEF InboxInv, TypeOK, Leave
  <2>5. WorkerInv(w)' /\ EventInv(d)' /\ ~Holds(w, d)'
    BY <1>1, <1>2, <2>2, <2>3 DEF WorkerInv, EventInv, Holds
  <2> QED
    BY <1>1, <1>2, <2>2, <2>3, <2>4, <2>5, WorkerStep
<1>4. CASE FailEvent(w)
  <2>1. event' = [event EXCEPT ![d] = Failed(event[d], w)]
        /\ successes[d] = 0 /\ now \in Nat
        /\ MaxAttempts[w] \in Nat \ {0} /\ RetryDelay[w] \in Nat
    BY <1>2, <1>4, InboxAssumption DEF FailEvent, InboxInv, TypeOK, WorkerInv
  <2>2. /\ event'[d] \in Row
        /\ event'[d].attempts = event[d].attempts
        /\ \/ event'[d].status = "dead_letter" /\ event[d].attempts >= MaxAttempts[w]
           \/ event'[d].status = "queued" /\ event[d].attempts < MaxAttempts[w]
    <3>1. event'[d] = Failed(event[d], w)
      BY <1>2, <2>1 DEF InboxInv, TypeOK
    <3> QED
      BY <1>2, <2>1, <3>1, FailedRow
  <2>3. TypeOK' /\ wpc'[w] = "idle" /\ claim'[w] = Null
    BY <1>1, <1>2, <2>1, <2>2 DEF InboxInv, TypeOK, WorkerPCs, Leave
  <2>4. /\ \A v \in Workers : v # w => wpc'[v] = wpc[v] /\ claim'[v] = claim[v]
        /\ \A e \in Deliveries : e # d =>
             /\ event'[e] = event[e] /\ successes'[e] = successes[e]
             /\ effects'[e] = effects[e]
    BY <1>1, <1>2, <2>1 DEF InboxInv, TypeOK, Leave
  <2>5. WorkerInv(w)' /\ EventInv(d)' /\ ~Holds(w, d)'
    BY <1>1, <1>2, <2>1, <2>2, <2>3 DEF WorkerInv, EventInv, Holds
  <2> QED
    BY <1>1, <1>2, <2>1, <2>2, <2>3, <2>4, <2>5, WorkerStep
<1> QED
  BY <1>3, <1>4
-----------------------------------------------------------------------------
LEMMA NextInv == InboxInv /\ [Next]_vars => InboxInv'
<1> SUFFICES ASSUME InboxInv, [Next]_vars PROVE InboxInv'
  OBVIOUS
<1>1. CASE UNCHANGED vars
  BY <1>1 DEF vars, InboxInv, TypeOK, WorkerInv, EventInv, OneWorkerPerEvent,
              ReportsMeetTheirClaim, Holds, SettledForAReason, AttemptsBounded
<1>2. CASE Tick
  BY <1>2 DEF Tick, history, InboxInv, TypeOK, WorkerInv, EventInv, OneWorkerPerEvent,
              ReportsMeetTheirClaim, Holds, SettledForAReason, AttemptsBounded
<1>3. ASSUME NEW d \in Deliveries, Enqueue(d) PROVE InboxInv'
  BY <1>3, EnqueueInv
<1>4. ASSUME NEW w \in Workers, Work(w) PROVE InboxInv'
  <2>1. ASSUME NEW d \in Deliveries, Select(w, d) PROVE InboxInv'
    BY <2>1, SelectInv
  <2>2. CASE Take(w)
    BY <2>2, TakeInv
  <2>3. CASE HandlerReturns(w)
    BY <2>3, HandlerInv DEF HandlerReturns, Returns, Acts
  <2>4. CASE HandlerRaises(w)
    BY <2>4, HandlerInv DEF HandlerRaises, Acts
  <2>5. CASE Complete(w) \/ FailEvent(w)
    BY <2>5, ReportInv
  <2> QED
    BY <1>4, <2>1, <2>2, <2>3, <2>4, <2>5 DEF Work
<1>5. ASSUME NEW w \in Workers, HandlerReturnsBad(w) PROVE InboxInv'
  BY <1>5, HandlerInv DEF HandlerReturnsBad, Returns, Acts, Leave
<1>6. ASSUME NEW w \in Workers, Abandon(w) PROVE InboxInv'
  BY <1>6, HandlerInv DEF Abandon, Leave
<1> QED
  BY <1>1, <1>2, <1>3, <1>4, <1>5, <1>6 DEF Next

LEMMA Inductive == Spec => []InboxInv
BY InitInv, NextInv, PTL DEF Spec

(* Every row and worker keeps its type. *)
THEOREM TypeCorrect == Spec => []TypeOK
<1>1. InboxInv => TypeOK
  BY DEF InboxInv
<1> QED
  BY <1>1, Inductive, PTL

(* A delivery is in one worker's hands at a time, and what that worker     *)
(* reports meets the row it claimed.                                       *)
THEOREM ClaimsAreExclusive == Spec => []ClaimsAreKept
<1>1. InboxInv => ClaimsAreKept
  BY DEF InboxInv, ClaimsAreKept
<1> QED
  BY <1>1, Inductive, PTL

(* A handler returns an object once at most for a delivery, and acts no    *)
(* more often than some worker's limit allows, whatever fails.             *)
THEOREM HandlersWithinLimits == Spec => []HandlerActsWithinLimits
<1>1. InboxInv => HandlerActsWithinLimits
  <2> SUFFICES ASSUME InboxInv, NEW d \in Deliveries
               PROVE  /\ successes[d] <= 1
                      /\ effects[d] > 0 => \E w \in Workers : effects[d] <= MaxAttempts[w]
    BY DEF HandlerActsWithinLimits
  <2>1. /\ effects[d] \in Nat /\ event[d].attempts \in Nat
        /\ successes[d] <= 1 /\ effects[d] <= event[d].attempts
        /\ event[d].attempts > 0 =>
             \E w \in Workers : event[d].attempts <= MaxAttempts[w]
    BY DEF InboxInv, TypeOK, Row, EventInv, AttemptsBounded
  <2>2. \A w \in Workers : MaxAttempts[w] \in Nat
    BY InboxAssumption
  <2> QED BY <2>1, <2>2
<1> QED
  BY <1>1, Inductive, PTL

(* Completed and dead-letter events are what their status says, and no     *)
(* event is attempted more often than some worker's policy allows.         *)
THEOREM SettledSoundly == Spec => [](SettledForAReason /\ AttemptsBounded)
<1>1. InboxInv => SettledForAReason /\ AttemptsBounded
  BY DEF InboxInv
<1> QED
  BY <1>1, Inductive, PTL

(* Nothing reopens a settled event or uncounts an attempt. *)
THEOREM SettledStays == Spec => SettledIsFinal
<1> DEFINE Kept == \A d \in Deliveries :
                     /\ event[d].status \in {"completed", "dead_letter"} =>
                          event'[d] = event[d]
                     /\ event'[d].attempts >= event[d].attempts
<1>1. InboxInv /\ [Next]_vars => [Kept]_vars
  <2> SUFFICES ASSUME InboxInv, Next, NEW d \in Deliveries
               PROVE  /\ event[d].status \in {"completed", "dead_letter"} =>
                           event'[d] = event[d]
                      /\ event'[d].attempts >= event[d].attempts
    OBVIOUS
  <2>1. event[d] \in Row /\ event[d].attempts \in Nat
    BY DEF InboxInv, TypeOK, Row
  <2>2. CASE UNCHANGED event
    BY <2>1, <2>2
  <2>3. ASSUME NEW e \in Deliveries, Enqueue(e)
        PROVE  event'[d] = event[d] \/ (/\ event[d].status = "absent"
                                       /\ event[d].attempts = 0)
    BY <2>3 DEF Enqueue, InboxInv, TypeOK, EventInv
  <2>4. ASSUME NEW w \in Workers, Take(w)
        PROVE  \/ event'[d] = event[d]
               \/ /\ event[d].status = "queued"
                  /\ event'[d].attempts = event[d].attempts + 1
    <3>1. CASE d # claim[w]
      BY <2>4, <3>1, ClaimFacts DEF Take, InboxInv, TypeOK
    <3>2. CASE d = claim[w]
      <4>1. event'[d] = Taken(event[d], w)
        BY <2>4, <3>2 DEF Take, InboxInv, TypeOK
      <4> QED
        BY <2>1, <2>4, <3>2, <4>1, ClaimFacts, TakenRow DEF Take, WorkerInv
    <3> QED
      BY <3>1, <3>2
  <2>5. ASSUME NEW w \in Workers, Complete(w)
        PROVE  \/ event'[d] = event[d]
               \/ /\ event[d].status = "processing"
                  /\ event'[d].attempts = event[d].attempts
    BY <2>1, <2>5 DEF Complete, InboxInv, TypeOK, Row
  <2>6. ASSUME NEW w \in Workers, FailEvent(w)
        PROVE  \/ event'[d] = event[d]
               \/ /\ event[d].status = "processing"
                  /\ event'[d].attempts = event[d].attempts
    <3>1. event'[d] = event[d] \/ (/\ event[d].status = "processing"
                                  /\ event'[d] = Failed(event[d], w))
      BY <2>6 DEF FailEvent, InboxInv, TypeOK
    <3> QED
      BY <2>1, <3>1, FailedRow DEF InboxInv, TypeOK
  <2>7. event'[d].attempts >= event[d].attempts
    <3>1. ASSUME NEW e \in Deliveries, Enqueue(e)
          PROVE  event'[d].attempts >= event[d].attempts
      <4>1. event'[d] = event[d] \/ event'[d].attempts = 0
        BY <3>1 DEF Enqueue, InboxInv, TypeOK
      <4> QED
        BY <2>1, <2>3, <3>1, <4>1
    <3> QED
      BY <2>1, <2>2, <2>4, <2>5, <2>6, <3>1
         DEF Next, Work, Select, HandlerReturns, HandlerRaises, Tick,
             HandlerReturnsBad, Abandon
  <2> QED
    BY <2>2, <2>3, <2>4, <2>5, <2>6, <2>7
       DEF Next, Work, Select, HandlerReturns, HandlerRaises, Tick,
           HandlerReturnsBad, Abandon
<1> QED
  BY <1>1, Inductive, PTL DEF Spec, SettledIsFinal

(* A worker lets go of its event with a report (complete_webhook and       *)
(* fail_webhook meet the row as it was claimed), unless it stops or its    *)
(* result cannot be stored.                                                *)
THEOREM ClaimsEnd == Spec => ClaimsEndInReports
<1> DEFINE Ends == \A w \in Workers : \A d \in Deliveries :
                     Holds(w, d) /\ wpc'[w] = "idle" =>
                       \/ event'[d].status \in {"queued", "completed", "dead_letter"}
                       \/ Abandon(w) \/ HandlerReturnsBad(w)
<1>1. InboxInv /\ [Next]_vars => [Ends]_vars
  <2> SUFFICES ASSUME InboxInv, Next, NEW w \in Workers, NEW d \in Deliveries,
                      Holds(w, d), wpc'[w] = "idle",
                      ~Abandon(w), ~HandlerReturnsBad(w)
               PROVE  event'[d].status \in {"queued", "completed", "dead_letter"}
    OBVIOUS
  <2>1. /\ TypeOK /\ claim[w] = d
        /\ wpc[w] \in {"handling", "completing", "failing"}
        /\ event[d] \in Row /\ event[d].status = "processing"
    BY DEF InboxInv, TypeOK, Holds, ReportsMeetTheirClaim
  <2>2. PICK v \in Workers :
          \/ \E e \in Deliveries : Select(v, e)
          \/ Take(v) \/ HandlerReturns(v) \/ HandlerRaises(v)
          \/ Complete(v) \/ FailEvent(v) \/ HandlerReturnsBad(v) \/ Abandon(v)
    BY <2>1 DEF Next, Work, Enqueue, Tick
  <2>3. v = w
    BY <2>1, <2>2 DEF TypeOK, Select, Take, HandlerReturns, HandlerRaises, Complete,
       FailEvent, HandlerReturnsBad, Abandon, Leave
  <2>4. Complete(w) \/ FailEvent(w)
    BY <2>1, <2>2, <2>3 DEF TypeOK, Select, Take, HandlerReturns, HandlerRaises
  <2>5. CASE Complete(w)
    <3>1. event' = [event EXCEPT ![d].status = "completed", ![d].lockedBy = Null]
      BY <2>1, <2>5 DEF Complete
    <3> QED BY <2>1, <3>1 DEF TypeOK, Row
  <2>6. CASE FailEvent(w)
    <3>1. event'[d] = Failed(event[d], w)
      BY <2>1, <2>6 DEF FailEvent, TypeOK
    <3> QED BY <3>1 DEF Failed
  <2> QED BY <2>4, <2>5, <2>6
<1>2. Spec => [][Ends]_vars
  BY <1>1, Inductive, PTL DEF Spec
<1> QED BY <1>2 DEF ClaimsEndInReports

(* The claim query reads queued rows only and nothing looks at locked_at:  *)
(* an event whose worker is gone keeps its row, whoever comes.             *)
LostStaysLost ==
  [][\A d \in Deliveries :
       Abandoned(d) => event'[d] = event[d] /\ Abandoned(d)']_vars

(* So a worker that stops between claim_webhook and its report costs the   *)
(* delivery for good, with any workers, policies and redeliveries.         *)
THEOREM AbandonedForGood == Spec => LostStaysLost
<1> DEFINE Lost == \A d \in Deliveries :
                     Abandoned(d) => event'[d] = event[d] /\ Abandoned(d)'
<1>1. InboxInv /\ [Next]_vars => [Lost]_vars
  <2> SUFFICES ASSUME InboxInv, Next, NEW d \in Deliveries, Abandoned(d)
               PROVE  event'[d] = event[d] /\ Abandoned(d)'
    OBVIOUS
  <2>1. TypeOK /\ event[d].status = "processing" /\ \A w \in Workers : ~Holds(w, d)
    BY DEF InboxInv, Abandoned
  <2>2. \A w \in Workers : Take(w) => claim[w] # d /\ claim[w] \in Deliveries
    BY <2>1, ClaimFacts DEF Take, WorkerInv
  <2>3. \A w \in Workers : Complete(w) \/ FailEvent(w) => claim[w] # d
    BY <2>1 DEF Complete, FailEvent, Holds
  <2>4. event'[d] = event[d]
    BY <2>1, <2>2, <2>3
       DEF Next, Work, Enqueue, Select, Take, HandlerReturns, HandlerRaises, Complete,
       FailEvent, HandlerReturnsBad, Abandon, Tick, TypeOK
  <2>5. \A w \in Workers : ~Holds(w, d)'
    BY <2>1, <2>2, InboxAssumption
       DEF Next, Work, Enqueue, Select, Take, HandlerReturns, HandlerRaises, Complete,
       FailEvent, HandlerReturnsBad, Abandon, Tick, TypeOK, Holds, Leave, Returns, Acts
  <2> QED BY <2>1, <2>4, <2>5 DEF Abandoned
<1>2. Spec => [][Lost]_vars
  BY <1>1, Inductive, PTL DEF Spec
<1> QED BY <1>2 DEF LostStaysLost
-----------------------------------------------------------------------------
(* Refinement. *)

Stages == [d \in Deliveries |-> Stage(d)]
Attempts == [d \in Deliveries |-> event[d].attempts]

(* A worker's step leaves the stages of the deliveries it does not hold.   *)
LEMMA OtherStages ==
  ASSUME InboxInv, NEW w \in Workers, NEW d \in Deliveries,
         claim[w] \in {d, Null}, claim'[w] \in {d, Null},
         \A v \in Workers : v # w => wpc'[v] = wpc[v] /\ claim'[v] = claim[v],
         \A e \in Deliveries : e # d => event'[e] = event[e]
  PROVE  /\ Stages' = [Stages EXCEPT ![d] = Stage(d)']
         /\ Attempts' = [Attempts EXCEPT ![d] = event'[d].attempts]
<1>1. ASSUME NEW e \in Deliveries, e # d
      PROVE  Stage(e)' = Stage(e)
  <2>1. \A v \in Workers : Holds(v, e)' <=> Holds(v, e)
    BY <1>1, InboxAssumption DEF Holds
  <2> QED BY <1>1, <2>1 DEF Stage, Abandoned
<1> QED BY <1>1 DEF Stages, Attempts

(* What a claimed delivery's stage is, before and after a step.            *)
LEMMA ClaimedStage ==
  ASSUME InboxInv, NEW w \in Workers, wpc[w] # "idle"
  PROVE  /\ wpc[w] = "selected" => Stage(claim[w]) = "queued"
         /\ wpc[w] # "selected" => Stage(claim[w]) = "running"
<1>1. /\ claim[w] \in Deliveries /\ WorkerInv(w)
      /\ wpc[w] # "selected" => event[claim[w]].status = "processing"
  BY ClaimFacts
<1>2. wpc[w] # "selected" => Holds(w, claim[w])
  BY DEF InboxInv, TypeOK, WorkerPCs, Holds
<1> QED BY <1>1, <1>2 DEF Stage, Abandoned, WorkerInv

(* A worker that goes, and leaves the row, takes the delivery with it.     *)
LEMMA GoneStage ==
  ASSUME InboxInv, NEW w \in Workers, wpc[w] # "idle", Leave(w), UNCHANGED event,
         NEW d \in Deliveries, d = claim[w]
  PROVE  /\ wpc[w] = "selected" => Stages' = Stages
         /\ wpc[w] # "selected" => Stages' = [Stages EXCEPT ![d] = "lost"]
         /\ Attempts' = Attempts
<1>1. /\ \A v \in Workers : v # w => claim[v] # d
      /\ wpc[w] # "selected" => event[d].status = "processing"
      /\ wpc[w] = "selected" => event[d].status = "queued"
  BY ClaimFacts DEF WorkerInv
<1>2. /\ wpc'[w] = "idle" /\ claim'[w] = Null
      /\ \A v \in Workers : v # w => wpc'[v] = wpc[v] /\ claim'[v] = claim[v]
  BY DEF Leave, InboxInv, TypeOK
<1>3. \A v \in Workers : ~Holds(v, d)'
  BY <1>1, <1>2 DEF Holds
<1>4. /\ wpc[w] # "selected" => Stage(d)' = "lost"
      /\ wpc[w] = "selected" => Stage(d)' = "queued" /\ Stage(d) = "queued"
  BY <1>1, <1>3 DEF Stage, Abandoned
<1>5. Stages' = [Stages EXCEPT ![d] = Stage(d)'] /\ Attempts' = Attempts
  BY <1>2, OtherStages DEF Attempts
<1>6. Stages[d] = Stage(d)
  BY DEF Stages
<1> QED BY <1>4, <1>5, <1>6 DEF Stages

(* Every step of the inbox is a step in some delivery's life, or none.     *)
LEMMA StepRefines ==
  ASSUME InboxInv, Next
  PROVE  Lifecycle!Next \/ UNCHANGED Lifecycle!lvars
<1> DEFINE Limits == {MaxAttempts[w] : w \in Workers}
<1>0. /\ \A d \in Deliveries : Stages[d] = Stage(d) /\ Attempts[d] = event[d].attempts
      /\ \A d \in Deliveries : event[d] \in Row /\ event[d].attempts \in Nat
      /\ event \in [Deliveries -> Row] /\ successes \in [Deliveries -> Nat]
      /\ effects \in [Deliveries -> Nat]
  BY DEF Stages, Attempts, InboxInv, TypeOK, Row
<1>1. ASSUME NEW d \in Deliveries, Enqueue(d)
      PROVE  Lifecycle!Receive(d)
  <2>1. /\ event[d].status = "absent" /\ event'[d].status = "queued"
        /\ event'[d].attempts = 0 /\ event[d].attempts = 0
        /\ \A e \in Deliveries : e # d => event'[e] = event[e]
        /\ UNCHANGED <<wpc, claim, successes, effects>>
    BY <1>1, <1>0 DEF Enqueue, history, InboxInv, EventInv
  <2>2. \A e \in Deliveries : e # d => Stage(e)' = Stage(e)
    BY <2>1 DEF Stage, Abandoned, Holds
  <2>3. Stage(d) = "absent" /\ Stage(d)' = "queued"
    BY <2>1 DEF Stage
  <2>4. Stages' = [Stages EXCEPT ![d] = "queued"] /\ Attempts' = Attempts
    BY <2>1, <2>2, <2>3 DEF Stages, Attempts
  <2> QED BY <1>0, <2>1, <2>3, <2>4
          DEF Lifecycle!Receive, Lifecycle!Moves, Lifecycle!handled, Stages, Attempts
<1>2. ASSUME NEW w \in Workers, NEW d \in Deliveries, Select(w, d)
      PROVE  UNCHANGED Lifecycle!lvars
  <2>1. /\ event' = event /\ successes' = successes /\ effects' = effects
        /\ wpc[w] = "idle" /\ wpc'[w] = "selected"
        /\ \A v \in Workers : v # w => wpc'[v] = wpc[v] /\ claim'[v] = claim[v]
    BY <1>2 DEF Select, history, InboxInv, TypeOK
  <2>2. \A v \in Workers : \A e \in Deliveries : Holds(v, e)' <=> Holds(v, e)
    BY <2>1 DEF Holds
  <2>3. \A e \in Deliveries : Stage(e)' = Stage(e)
    BY <2>1, <2>2 DEF Stage, Abandoned
  <2> QED BY <2>1, <2>3 DEF Lifecycle!lvars
<1>3. ASSUME NEW w \in Workers, Take(w)
      PROVE  \E d \in Deliveries : Lifecycle!Try(d)
  <2>1. PICK d \in Deliveries : d = claim[w]
    BY <1>3, ClaimFacts DEF Take
  <2>2. /\ wpc[w] = "selected" /\ Stage(d) = "queued"
        /\ event' = [event EXCEPT ![d] = Taken(event[d], w)]
        /\ wpc' = [wpc EXCEPT ![w] = "handling"] /\ UNCHANGED <<claim, history>>
    BY <1>3, <2>1, ClaimedStage DEF Take
  <2>3. /\ event'[d].status = "processing"
        /\ event'[d].attempts = event[d].attempts + 1
        /\ wpc'[w] = "handling" /\ claim'[w] = d
        /\ \A v \in Workers : v # w => wpc'[v] = wpc[v]
        /\ \A e \in Deliveries : e # d => event'[e] = event[e]
    BY <1>0, <2>1, <2>2, TakenRow DEF InboxInv, TypeOK
  <2>4. Stage(d)' = "running"
    BY <2>3 DEF Stage, Abandoned, Holds
  <2>5. /\ Stages' = [Stages EXCEPT ![d] = "running"]
        /\ Attempts' = [Attempts EXCEPT ![d] = event[d].attempts + 1]
    BY <2>1, <2>2, <2>3, <2>4, OtherStages
  <2>6. Lifecycle!Try(d)
    BY <1>0, <2>2, <2>5 DEF Lifecycle!Try, Lifecycle!Moves, Lifecycle!handled, history,
       Stages, Attempts
  <2> QED BY <2>6
<1>4. ASSUME NEW w \in Workers, Acts(w), UNCHANGED event,
             NEW d \in Deliveries, d = claim[w],
             \/ UNCHANGED claim /\ \E q \in {"completing", "failing"} :
                  wpc' = [wpc EXCEPT ![w] = q]
             \/ Leave(w)
      PROVE  Lifecycle!Acts(d)
  <2>1. /\ wpc[w] = "handling" /\ Stage(d) = "running" /\ successes[d] = 0
        /\ effects[d] < event[d].attempts
        /\ effects' = [effects EXCEPT ![d] = @ + 1]
    BY <1>4, ClaimedStage, ClaimFacts DEF Acts, WorkerInv
  <2>2. CASE UNCHANGED claim /\ \E q \in {"completing", "failing"} :
               wpc' = [wpc EXCEPT ![w] = q]
    <3>1. /\ wpc'[w] \in {"completing", "failing"} /\ claim' = claim
          /\ \A v \in Workers : v # w => wpc'[v] = wpc[v]
      BY <2>2 DEF InboxInv, TypeOK
    <3>2. \A v \in Workers : \A e \in Deliveries : Holds(v, e)' <=> Holds(v, e)
      BY <2>1, <3>1 DEF Holds
    <3>3. \A e \in Deliveries : Stage(e)' = Stage(e)
      BY <1>4, <3>2 DEF Stage, Abandoned
    <3>4. Stages' = Stages /\ Attempts' = Attempts
      BY <1>4, <3>3 DEF Stages, Attempts
    <3> QED BY <1>0, <2>1, <3>4 DEF Lifecycle!Acts, Stages, Attempts
  <2>3. CASE Leave(w)
    <3>1. Stages' = [Stages EXCEPT ![d] = "lost"] /\ Attempts' = Attempts
      BY <1>4, <2>1, <2>3, GoneStage
    <3> QED BY <1>0, <2>1, <3>1 DEF Lifecycle!Acts, Lifecycle!Moves, Stages, Attempts
  <2> QED BY <1>4, <2>2, <2>3
<1>40. ASSUME NEW w \in Workers, HandlerReturns(w) \/ HandlerReturnsBad(w)
       PROVE  \E d \in Deliveries : Lifecycle!Return(d)
  <2>1. PICK d \in Deliveries : d = claim[w]
    BY <1>40, ClaimFacts DEF HandlerReturns, HandlerReturnsBad, Returns, Acts
  <2>2. Lifecycle!Acts(d)
    BY <1>4, <1>40, <2>1 DEF HandlerReturns, HandlerReturnsBad, Returns
  <2>3. successes[d] = 0 /\ successes' = [successes EXCEPT ![d] = @ + 1]
    BY <1>40, <2>1, ClaimFacts
       DEF HandlerReturns, HandlerReturnsBad, Returns, Acts, WorkerInv
  <2>4. successes' = [successes EXCEPT ![d] = 1]
    BY <1>0, <2>3
  <2>5. Lifecycle!Return(d)
    BY <2>2, <2>4 DEF Lifecycle!Return
  <2> QED BY <2>5
<1>5. ASSUME NEW w \in Workers, HandlerRaises(w)
      PROVE  \/ UNCHANGED Lifecycle!lvars
             \/ \E d \in Deliveries : Lifecycle!ActInVain(d)
  <2>1. /\ event' = event /\ successes' = successes /\ claim' = claim
        /\ wpc[w] = "handling" /\ wpc'[w] = "failing"
        /\ \A v \in Workers : v # w => wpc'[v] = wpc[v]
    BY <1>5 DEF HandlerRaises, InboxInv, TypeOK
  <2>2. CASE UNCHANGED effects
    <3>1. \A v \in Workers : \A e \in Deliveries : Holds(v, e)' <=> Holds(v, e)
      BY <2>1 DEF Holds
    <3>2. \A e \in Deliveries : Stage(e)' = Stage(e)
      BY <2>1, <3>1 DEF Stage, Abandoned
    <3> QED BY <2>1, <2>2, <3>2 DEF Lifecycle!lvars
  <2>3. CASE Acts(w)
    <3>1. PICK d \in Deliveries : d = claim[w]
      BY <2>1, ClaimFacts
    <3>2. Lifecycle!Acts(d)
      BY <1>4, <1>5, <2>3, <3>1 DEF HandlerRaises
    <3>3. Lifecycle!ActInVain(d)
      BY <2>1, <3>2 DEF Lifecycle!ActInVain
    <3> QED BY <3>3
  <2> QED BY <1>5, <2>2, <2>3 DEF HandlerRaises
<1>6. ASSUME NEW w \in Workers, Complete(w) \/ FailEvent(w)
      PROVE  \E d \in Deliveries :
               Lifecycle!Complete(d) \/ Lifecycle!Retry(d) \/ Lifecycle!GiveUp(d)
  <2>1. PICK d \in Deliveries : d = claim[w]
    BY <1>6, ClaimFacts DEF Complete, FailEvent
  <2>2. /\ wpc[w] \in {"completing", "failing"} /\ Leave(w) /\ UNCHANGED history
        /\ Stage(d) = "running" /\ event[d].status = "processing" /\ WorkerInv(w)
    BY <1>6, <2>1, ClaimedStage, ClaimFacts DEF Complete, FailEvent
  <2>3. /\ claim'[w] = Null
        /\ \A v \in Workers : v # w => wpc'[v] = wpc[v] /\ claim'[v] = claim[v]
    BY <2>2 DEF Leave, InboxInv, TypeOK
  <2>4. CASE Complete(w)
    <3>1. /\ event' = [event EXCEPT ![d].status = "completed", ![d].lockedBy = Null]
          /\ successes[d] = 1
      BY <2>1, <2>2, <2>4 DEF Complete, WorkerInv
    <3>2. /\ event'[d].status = "completed" /\ event'[d].attempts = event[d].attempts
          /\ \A e \in Deliveries : e # d => event'[e] = event[e]
      BY <1>0, <3>1 DEF Row
    <3>3. Stage(d)' = "completed"
      BY <3>2 DEF Stage
    <3>4. Stages' = [Stages EXCEPT ![d] = "completed"] /\ Attempts' = Attempts
      <4>1. /\ Stages' = [Stages EXCEPT ![d] = Stage(d)']
            /\ Attempts' = [Attempts EXCEPT ![d] = event'[d].attempts]
        BY <2>1, <2>3, <3>2, OtherStages
      <4>2. Attempts' = Attempts
        BY <3>2, <4>1 DEF Attempts
      <4> QED BY <3>3, <4>1, <4>2
    <3>5. Lifecycle!Complete(d)
      BY <1>0, <2>2, <3>1, <3>4
         DEF Lifecycle!Complete, Lifecycle!Moves, Lifecycle!handled, history,
           Stages, Attempts
    <3> QED BY <3>5
  <2>5. CASE FailEvent(w)
    <3>1. event' = [event EXCEPT ![d] = Failed(event[d], w)] /\ successes[d] = 0
      BY <2>1, <2>2, <2>5 DEF FailEvent, WorkerInv
    <3>2. event'[d] = Failed(event[d], w)
          /\ \A e \in Deliveries : e # d => event'[e] = event[e]
      BY <1>0, <3>1
    <3>3. /\ event'[d].attempts = event[d].attempts
          /\ \/ /\ event'[d].status = "dead_letter"
                /\ event[d].attempts >= MaxAttempts[w]
             \/ /\ event'[d].status = "queued"
                /\ event[d].attempts < MaxAttempts[w]
      BY <1>0, <3>2, FailedRow DEF InboxInv, TypeOK
    <3>4. Stage(d)' = event'[d].status
      BY <3>3 DEF Stage
    <3>5. Stages' = [Stages EXCEPT ![d] = event'[d].status] /\ Attempts' = Attempts
      <4>1. /\ Stages' = [Stages EXCEPT ![d] = Stage(d)']
            /\ Attempts' = [Attempts EXCEPT ![d] = event'[d].attempts]
        BY <2>1, <2>3, <3>2, OtherStages
      <4>2. Attempts' = Attempts
        BY <3>3, <4>1 DEF Attempts
      <4> QED BY <3>4, <4>1, <4>2
    <3>6. MaxAttempts[w] \in Limits
      OBVIOUS
    <3>7. CASE event'[d].status = "dead_letter"
      <4>1. Lifecycle!GiveUp(d)
        BY <1>0, <2>2, <3>1, <3>3, <3>5, <3>6, <3>7
           DEF Lifecycle!GiveUp, Lifecycle!Moves, Lifecycle!handled, history,
           Stages, Attempts
      <4> QED BY <4>1
    <3>8. CASE event'[d].status = "queued"
      <4>1. Lifecycle!Retry(d)
        BY <1>0, <2>2, <3>1, <3>3, <3>5, <3>6, <3>8
           DEF Lifecycle!Retry, Lifecycle!Moves, Lifecycle!handled, history,
           Stages, Attempts
      <4> QED BY <4>1
    <3> QED BY <3>3, <3>7, <3>8
  <2> QED BY <1>6, <2>4, <2>5
<1>7. ASSUME NEW w \in Workers, Abandon(w)
      PROVE  \/ UNCHANGED Lifecycle!lvars
             \/ \E d \in Deliveries : Lifecycle!Lose(d) \/ Lifecycle!ActInVain(d)
  <2>1. PICK d \in Deliveries : d = claim[w]
    BY <1>7, ClaimFacts DEF Abandon
  <2>2. /\ wpc[w] # "idle" /\ Leave(w) /\ UNCHANGED <<event, successes>>
        /\ wpc[w] # "selected" => Stage(d) = "running"
    BY <1>7, <2>1, ClaimedStage DEF Abandon
  <2>3. /\ wpc[w] = "selected" => Stages' = Stages
        /\ wpc[w] # "selected" => Stages' = [Stages EXCEPT ![d] = "lost"]
        /\ Attempts' = Attempts
    BY <2>1, <2>2, GoneStage
  <2>30. CASE Acts(w)
    <3>1. Lifecycle!Acts(d)
      BY <1>4, <2>1, <2>2, <2>30
    <3>2. Lifecycle!ActInVain(d)
      BY <2>2, <3>1 DEF Lifecycle!ActInVain
    <3> QED BY <3>2
  <2>4. CASE UNCHANGED effects /\ wpc[w] = "selected"
    BY <2>2, <2>3, <2>4 DEF Lifecycle!lvars, Stages, Attempts
  <2>5. CASE UNCHANGED effects /\ wpc[w] # "selected"
    <3>1. Lifecycle!Lose(d)
      BY <1>0, <2>2, <2>3, <2>5
         DEF Lifecycle!Lose, Lifecycle!Moves, Lifecycle!handled, Stages, Attempts
    <3> QED BY <3>1
  <2> QED BY <1>7, <2>30, <2>4, <2>5 DEF Abandon
<1>8. CASE Tick
  <2>1. UNCHANGED <<event, wpc, claim, successes, effects>>
    BY <1>8 DEF Tick, history
  <2>2. \A e \in Deliveries : Stage(e)' = Stage(e)
    BY <2>1 DEF Stage, Abandoned, Holds
  <2> QED BY <2>1, <2>2 DEF Lifecycle!lvars
<1> QED
  BY <1>1, <1>2, <1>3, <1>40, <1>5, <1>6, <1>7, <1>8
     DEF Next, Work, Lifecycle!Next

(* The inbox, with any workers, policies and faults, gives every delivery  *)
(* the life DeliveryLifecycle describes.                                   *)
THEOREM InboxRefinesLifecycle == Spec => ImplementsLifecycle
<1>1. Init => Lifecycle!Init
  BY DEF Init, NoRow, Lifecycle!Init, Stage
<1>2. InboxInv /\ [Next]_vars => [Lifecycle!Next]_(Lifecycle!lvars)
  <2>1. ASSUME UNCHANGED vars
        PROVE  UNCHANGED Lifecycle!lvars
    <3>1. UNCHANGED <<event, wpc, claim, successes, effects>>
      BY <2>1 DEF vars
    <3>2. \A e \in Deliveries : Stage(e)' = Stage(e)
      BY <3>1 DEF Stage, Abandoned, Holds
    <3> QED BY <3>1, <3>2 DEF Lifecycle!lvars
  <2> QED BY <2>1, StepRefines
<1> QED
  BY <1>1, <1>2, Inductive, PTL DEF Spec, Lifecycle!Spec, ImplementsLifecycle
=============================================================================
