----------------------------- MODULE RunLedger -----------------------------
(***************************************************************************)
(* What transition_run promises its callers, with each call one indivisible*)
(* step: a compare-and-swap on the run's version that happens at most once *)
(* per idempotency key.  RunTransition implements this specification.      *)
(***************************************************************************)
EXTENDS RunRows

VARIABLES
  runs,   \* agent_runs, by run_id
  keys,   \* agent_idempotency_keys, by idempotency_key
  call,   \* the arguments of each client's current or last call
  reply,  \* what that call has returned
  missed  \* whether that call has met a run that does not exist

lvars == <<runs, keys, call, reply, missed>>

Init ==
  /\ runs = [r \in Runs |-> Null]
  /\ keys = [k \in Keys |-> Null]
  /\ call \in [Clients -> Calls]
  /\ reply = [c \in Clients |-> Answer("none")]
  /\ missed = [c \in Clients |-> FALSE]

(* A run appears with version 0; creating it again changes nothing. *)
Create(r) ==
  /\ runs[r] = Null
  /\ \E s \in Statuses, b \in Branches \cup {Null} :
       runs' = [runs EXCEPT ![r] = [version |-> 0, status |-> s, branch |-> b]]
  /\ UNCHANGED <<keys, call, reply, missed>>

Submit(c) ==
  /\ reply[c].kind # "pending"
  /\ \E cl \in Calls : call' = [call EXCEPT ![c] = cl]
  /\ reply' = [reply EXCEPT ![c] = Answer("pending")]
  /\ UNCHANGED <<runs, keys, missed>>

MissRun(c) ==
  /\ reply[c].kind = "pending"
  /\ runs[call[c].run] = Null
  /\ missed' = [missed EXCEPT ![c] = TRUE]
  /\ UNCHANGED <<runs, keys, call, reply>>

Done(c, rep) ==
  /\ reply' = [reply EXCEPT ![c] = rep]
  /\ missed' = [missed EXCEPT ![c] = FALSE]
  /\ UNCHANGED call

(* The swap: the caller may or may not live to read the answer. *)
Apply(c) ==
  LET cl == call[c]
      row == Advance(runs[cl.run], cl)
      res == ResultOf(cl.run, row)
  IN /\ reply[c].kind = "pending"
     /\ keys[cl.key] = Null
     /\ runs[cl.run] # Null
     /\ runs[cl.run].version = cl.expected
     /\ runs' = [runs EXCEPT ![cl.run] = row]
     /\ keys' = [keys EXCEPT ![cl.key] =
                   [run |-> cl.run, intent |-> cl.intent, result |-> res]]
     /\ \E rep \in {[kind |-> "ok", result |-> res], Answer("error")} :
          Done(c, rep)

(* A key used before with the same intent answers with the stored result. *)
Replay(c) ==
  LET row == keys[call[c].key]
  IN /\ reply[c].kind = "pending"
     /\ row # Null
     /\ SameIntent(row, call[c])
     /\ Done(c, [kind |-> "replayed", result |-> row.result])
     /\ UNCHANGED <<runs, keys>>

(* A conflict is reported only for a reason the store really has, or, for a *)
(* run that did not exist, had at some moment of the call.                  *)
Refuse(c) ==
  LET cl == call[c]
  IN /\ reply[c].kind = "pending"
     /\ \/ keys[cl.key] # Null /\ ~SameIntent(keys[cl.key], cl)
        \/ keys[cl.key] = Null /\ (missed[c] \/ runs[cl.run] = Null)
        \/ /\ keys[cl.key] = Null
           /\ runs[cl.run] # Null
           /\ runs[cl.run].version # cl.expected
     /\ Done(c, Answer("conflict"))
     /\ UNCHANGED <<runs, keys>>

(* Any other error leaves no trace. *)
Fail(c) ==
  /\ reply[c].kind = "pending"
  /\ Done(c, Answer("error"))
  /\ UNCHANGED <<runs, keys>>

Next ==
  \/ \E r \in Runs : Create(r)
  \/ \E c \in Clients :
       \/ Submit(c) \/ MissRun(c) \/ Apply(c)
       \/ Replay(c) \/ Refuse(c) \/ Fail(c)

Spec == Init /\ [][Next]_lvars
=============================================================================
