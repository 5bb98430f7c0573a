--------------------------- MODULE RunTransition ---------------------------
(***************************************************************************)
(* PostgresStateStore.transition_run and MySQLStateStore.transition_run,   *)
(* one action per SQL statement.  runs and keys hold what is committed;    *)
(* newKey and newRun what a client's open transaction has written.  The    *)
(* locks are those of the row versions: a client holds its key from the    *)
(* INSERT and its run from the UPDATE, both until it commits or rolls back.*)
(***************************************************************************)
EXTENDS RunRows, FiniteSets

CONSTANT Engine   \* the database behind the store

ASSUME EngineAssumption == Engine \in {"postgres", "mysql"}

VARIABLES runs, keys, call, reply,
  pc,       \* next statement of each client's transition_run
  newKey,   \* uncommitted agent_idempotency_keys row
  newRun    \* uncommitted agent_runs row

vars == <<runs, keys, call, reply, pc, newKey, newRun>>

Ledger == INSTANCE RunLedger
            WITH missed <- [c \in Clients |-> pc[c] = "select"]

PCs == {"idle", "insert", "update", "store", "commit", "replay", "select"}

TypeOK ==
  /\ runs \in [Runs -> RunRow \cup {Null}]
  /\ keys \in [Keys -> KeyRow \cup {Null}]
  /\ call \in [Clients -> Calls]
  /\ reply \in [Clients -> Reply]
  /\ pc \in [Clients -> PCs]
  /\ newKey \in [Clients -> KeyRow \cup {Null}]
  /\ newRun \in [Clients -> RunRow \cup {Null}]

Init ==
  /\ runs = [r \in Runs |-> Null]
  /\ keys = [k \in Keys |-> Null]
  /\ call \in [Clients -> Calls]
  /\ reply = [c \in Clients |-> Answer("none")]
  /\ pc = [c \in Clients |-> "idle"]
  /\ newKey = [c \in Clients |-> Null]
  /\ newRun = [c \in Clients |-> Null]
-----------------------------------------------------------------------------
(* Locks.                                                                  *)

HoldsKey(d, k) == pc[d] \in {"update", "store", "commit"} /\ call[d].key = k

HoldsRun(d, r) == pc[d] \in {"store", "commit"} /\ call[d].run = r

(* Mutant: every database keeps a shared lock on the run after the INSERT. *)
SharesRunAlways(d, r) == pc[d] = "update" /\ call[d].run = r

(* InnoDB checks the foreign key of the inserted key row with a shared lock *)
(* on the run, and leaves a shared lock on a key row INSERT IGNORE found.   *)
SharesRun(d, r) ==
  Engine = "mysql" /\ pc[d] = "update" /\ call[d].run = r

SharesKey(d, k) ==
  Engine = "mysql" /\ pc[d] = "replay" /\ call[d].key = k

(* Client d holds a lock that the next statement of c has to wait for. *)
Blocks(d, c) ==
  /\ d # c
  /\ \/ /\ pc[c] = "insert"
        /\ \/ HoldsKey(d, call[c].key)
           \/ /\ Engine = "mysql"
              /\ keys[call[c].key] = Null
              /\ HoldsRun(d, call[c].run)
     \/ /\ pc[c] = "update"
        /\ HoldsRun(d, call[c].run) \/ SharesRun(d, call[c].run)
     \/ /\ pc[c] \in {"replay", "select"}
        /\ HoldsKey(d, call[c].key) \/ SharesKey(d, call[c].key)

Free(c) == \A d \in Clients : ~Blocks(d, c)

(* c waits, directly or through others, for itself. *)
Deadlocked(c) ==
  \E S \in SUBSET Clients :
    /\ c \in S
    /\ \A d \in S : /\ \E e \in S : Blocks(e, d)
                    /\ \E e \in S : Blocks(d, e)
-----------------------------------------------------------------------------
(* The end of a transaction.                                               *)

Return(c, rep) ==
  /\ pc' = [pc EXCEPT ![c] = "idle"]
  /\ reply' = [reply EXCEPT ![c] = rep]
  /\ newKey' = [newKey EXCEPT ![c] = Null]
  /\ newRun' = [newRun EXCEPT ![c] = Null]
  /\ UNCHANGED call

Rollback(c, kind) == Return(c, Answer(kind)) /\ UNCHANGED <<runs, keys>>

Commit(c) ==
  /\ runs' = [runs EXCEPT ![call[c].run] = newRun[c]]
  /\ keys' = [keys EXCEPT ![call[c].key] = newKey[c]]
-----------------------------------------------------------------------------
(* create_run: a single-statement transaction, INSERT ... ON CONFLICT DO   *)
(* NOTHING.                                                                *)
CreateRun(r) ==
  /\ runs[r] = Null
  /\ \E s \in Statuses, b \in Branches \cup {Null} :
       runs' = [runs EXCEPT ![r] = [version |-> 0, status |-> s, branch |-> b]]
  /\ UNCHANGED <<keys, call, reply, pc, newKey, newRun>>

Begin(c) ==
  /\ pc[c] = "idle"
  /\ \E cl \in Calls : call' = [call EXCEPT ![c] = cl]
  /\ pc' = [pc EXCEPT ![c] = "insert"]
  /\ reply' = [reply EXCEPT ![c] = Answer("pending")]
  /\ UNCHANGED <<runs, keys, newKey, newRun>>

(* Mutant: a key somebody else is inserting does not make the INSERT wait. *)
InsertKeyUnlocked(c) ==
  /\ pc[c] = "insert"
  /\ keys[call[c].key] = Null
  /\ runs[call[c].run] # Null
  /\ newKey' = [newKey EXCEPT ![c] = [run    |-> call[c].run,
                                      intent |-> call[c].intent,
                                      result |-> Null]]
  /\ pc' = [pc EXCEPT ![c] = "update"]
  /\ UNCHANGED <<runs, keys, call, reply, newRun>>

(* INSERT of the key row, with a run for its foreign key to point at. *)
InsertKey(c) ==
  /\ pc[c] = "insert"
  /\ Free(c)
  /\ keys[call[c].key] = Null
  /\ runs[call[c].run] # Null
  /\ newKey' = [newKey EXCEPT ![c] = [run    |-> call[c].run,
                                      intent |-> call[c].intent,
                                      result |-> Null]]
  /\ pc' = [pc EXCEPT ![c] = "update"]
  /\ UNCHANGED <<runs, keys, call, reply, newRun>>

(* The foreign key fails: PostgreSQL raises, while MySQL's INSERT IGNORE   *)
(* reports no row and the SELECT goes looking for the key's row.           *)
MissingRun(c) ==
  /\ pc[c] = "insert"
  /\ Free(c)
  /\ keys[call[c].key] = Null
  /\ runs[call[c].run] = Null
  /\ \/ Engine = "postgres" /\ Rollback(c, "error")
     \/ /\ Engine = "mysql"
        /\ pc' = [pc EXCEPT ![c] = "select"]
        /\ UNCHANGED <<runs, keys, call, reply, newKey, newRun>>

(* ON CONFLICT DO NOTHING: the key was committed before. *)
FindKey(c) ==
  /\ pc[c] = "insert"
  /\ Free(c)
  /\ keys[call[c].key] # Null
  /\ pc' = [pc EXCEPT ![c] = "replay"]
  /\ UNCHANGED <<runs, keys, call, reply, newKey, newRun>>

(* The SELECT ... FOR UPDATE found a completed row of the same intent. *)
Answered(c) ==
  LET row == keys[call[c].key]
  IN row # Null /\ SameIntent(row, call[c]) /\ row.result # Null

(* The SELECT, its checks and the end of the transaction, which has written *)
(* nothing: the stored result, or a conflict when there is none to give.    *)
ReplayTransition(c) ==
  /\ pc[c] \in {"replay", "select"}
  /\ Free(c)
  /\ Answered(c)
  /\ Return(c, [kind |-> "replayed", result |-> keys[call[c].key].result])
  /\ UNCHANGED <<runs, keys>>

RejectReuse(c) ==
  /\ pc[c] \in {"replay", "select"}
  /\ Free(c)
  /\ ~Answered(c)
  /\ Rollback(c, "conflict")

(* Mutant: the version is compared with a row read without its lock. *)
UpdateRunUnlocked(c) ==
  /\ pc[c] = "update"
  /\ runs[call[c].run].version = call[c].expected
  /\ newRun' = [newRun EXCEPT ![c] = Advance(runs[call[c].run], call[c])]
  /\ pc' = [pc EXCEPT ![c] = "store"]
  /\ UNCHANGED <<runs, keys, call, reply, newKey>>

(* Mutant: the UPDATE has no version in its WHERE. *)
UpdateRunAnyVersion(c) ==
  /\ pc[c] = "update"
  /\ Free(c)
  /\ newRun' = [newRun EXCEPT ![c] = Advance(runs[call[c].run], call[c])]
  /\ pc' = [pc EXCEPT ![c] = "store"]
  /\ UNCHANGED <<runs, keys, call, reply, newKey>>

(* UPDATE agent_runs ... WHERE run_id = ... AND version = expected. *)
UpdateRun(c) ==
  LET row == runs[call[c].run]
  IN /\ pc[c] = "update"
     /\ Free(c)
     /\ row.version = call[c].expected
     /\ newRun' = [newRun EXCEPT ![c] = Advance(row, call[c])]
     /\ pc' = [pc EXCEPT ![c] = "store"]
     /\ UNCHANGED <<runs, keys, call, reply, newKey>>

(* Mutant: the conflict is returned without rolling the key back. *)
StaleVersionKeepsKey(c) ==
  /\ pc[c] = "update"
  /\ Free(c)
  /\ runs[call[c].run].version # call[c].expected
  /\ keys' = [keys EXCEPT ![call[c].key] = newKey[c]]
  /\ Return(c, Answer("conflict"))
  /\ UNCHANGED runs

(* No row matched: StateConflictError takes the inserted key with it. *)
StaleVersion(c) ==
  /\ pc[c] = "update"
  /\ Free(c)
  /\ runs[call[c].run].version # call[c].expected
  /\ Rollback(c, "conflict")

(* UPDATE agent_idempotency_keys SET result = ... *)
StoreResult(c) ==
  /\ pc[c] = "store"
  /\ newKey' = [newKey EXCEPT ![c].result = ResultOf(call[c].run, newRun[c])]
  /\ pc' = [pc EXCEPT ![c] = "commit"]
  /\ UNCHANGED <<runs, keys, call, reply, newRun>>

CommitTransition(c) ==
  /\ pc[c] = "commit"
  /\ Commit(c)
  /\ Return(c, [kind |-> "ok", result |-> newKey[c].result])

(* The server commits and the answer is lost: the caller, if it still      *)
(* lives, gets StateStoreError for a transition that did happen.           *)
CommitUnheard(c) ==
  /\ pc[c] = "commit"
  /\ Commit(c)
  /\ Return(c, Answer("error"))

(* A statement raises, the connection drops or the process dies: whatever  *)
(* the transaction wrote is rolled back.                                   *)
Fail(c) == pc[c] # "idle" /\ Rollback(c, "error")

(* Mutant: nothing looks for cycles of waits. *)
DeadlockUnnoticed(c) == FALSE /\ Rollback(c, "error")

(* InnoDB picks a victim as soon as waits form a cycle. *)
DeadlockVictim(c) == Deadlocked(c) /\ Rollback(c, "error")

Statement(c) ==
  \/ InsertKey(c) \/ MissingRun(c) \/ FindKey(c)
  \/ ReplayTransition(c) \/ RejectReuse(c)
  \/ UpdateRun(c) \/ StaleVersion(c) \/ StoreResult(c) \/ CommitTransition(c)

Next ==
  \/ \E r \in Runs : CreateRun(r)
  \/ \E c \in Clients : \/ Begin(c) \/ Statement(c) \/ CommitUnheard(c)
                        \/ Fail(c) \/ DeadlockVictim(c)

Spec == Init /\ [][Next]_vars

(* A statement that is not waiting runs, lock queues are served in turn    *)
(* (strong fairness) and the deadlock detector always finds its victim.    *)
FairSpec ==
  Spec /\ \A c \in Clients : SF_vars(Statement(c)) /\ WF_vars(DeadlockVictim(c))
=============================================================================
