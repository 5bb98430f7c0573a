------------------------------ MODULE RunRows ------------------------------
(***************************************************************************)
(* The rows of agent_runs and agent_idempotency_keys, and the arguments of *)
(* PostgresStateStore.transition_run, shared by the atomic specification   *)
(* (RunLedger) and the statement-by-statement one (RunTransition).         *)
(*                                                                         *)
(* A status stands for the pair (status, current_stage), an intent for the *)
(* pair (operation, request_sha256).  The intent says nothing of the       *)
(* expected version or of the status: the code hashes only the request     *)
(* dictionary the caller hands it.                                         *)
(***************************************************************************)
EXTENDS Integers

CONSTANTS
  Clients,   \* processes that share the database
  Runs,      \* run_id values
  Keys,      \* idempotency_key values
  Intents,   \* (operation, request digest) pairs
  Statuses,  \* (status, current_stage) pairs
  Branches,  \* branch revisions
  Calls,     \* the argument records the callers use
  Null       \* SQL NULL, and a row that is not there

RunRow == [version : Nat, status : Statuses, branch : Branches \cup {Null}]

Result ==
  [run : Runs, version : Nat, status : Statuses, branch : Branches \cup {Null}]

KeyRow == [run : Runs, intent : Intents, result : Result \cup {Null}]

Call ==
  [key : Keys, run : Runs, intent : Intents, expected : Nat,
   status : Statuses, branch : Branches \cup {Null}]

ASSUME CallsAssumption == Calls \subseteq Call

ASSUME NullAssumption ==
  Null \notin RunRow /\ Null \notin KeyRow /\ Null \notin Result

(***************************************************************************)
(* The row the UPDATE writes: the version advances by one and a NULL       *)
(* branch argument keeps the branch already stored (COALESCE).             *)
(***************************************************************************)
Advance(row, cl) ==
  [version |-> row.version + 1,
   status  |-> cl.status,
   branch  |-> IF cl.branch = Null THEN row.branch ELSE cl.branch]

(***************************************************************************)
(* The TransitionResult built from the updated row (without `replayed',    *)
(* which belongs to the reply and not to the stored JSON).                 *)
(***************************************************************************)
ResultOf(r, row) ==
  [run |-> r, version |-> row.version, status |-> row.status,
   branch |-> row.branch]

(***************************************************************************)
(* The check on a key that is already there: same run, same operation and  *)
(* same request digest.                                                    *)
(***************************************************************************)
SameIntent(row, cl) == row.run = cl.run /\ row.intent = cl.intent

Reply ==
  [kind : {"none", "pending", "ok", "replayed", "conflict", "error"},
   result : Result \cup {Null}]

Answer(k) == [kind |-> k, result |-> Null]
=============================================================================
