------------------------- MODULE RunTransitionProps -------------------------
(***************************************************************************)
(* What the compare-and-swap and the idempotency key buy, stated about the *)
(* statements of transition_run.                                           *)
(***************************************************************************)
EXTENDS RunTransition

Recorded(k, r) == keys[k] # Null /\ keys[k].run = r

(* The committed keys of a run are its history: every version from 1 up to *)
(* the current one was written under exactly one key, whose row holds that *)
(* version's result.  Two clients that raced, crashed or retried neither   *)
(* skipped a version nor wrote one twice.                                  *)
KeysAreHistory ==
  /\ \A r \in Runs : runs[r] # Null =>
       \A v \in 1..runs[r].version :
         \E k \in Keys : Recorded(k, r) /\ keys[k].result.version = v
  /\ \A r \in Runs : \A j, k \in Keys :
       /\ Recorded(j, r) /\ Recorded(k, r)
       /\ keys[j].result.version = keys[k].result.version
       => j = k
  /\ \A k \in Keys : keys[k] # Null =>
       /\ keys[k].result # Null
       /\ runs[keys[k].run] # Null
       /\ keys[k].result.version \in 1..runs[keys[k].run].version

(* The run row shows the result of its newest key: no transition's status  *)
(* or branch is lost under another's.                                      *)
RunShowsNewestResult ==
  \A k \in Keys : keys[k] # Null =>
    LET r == keys[k].run
    IN keys[k].result.version = runs[r].version
         => keys[k].result = ResultOf(r, runs[r])

(* A caller that was told of a success, the first time or on a replay,     *)
(* holds the result that is stored under its key for its own intent.       *)
SuccessIsStored ==
  \A c \in Clients : reply[c].kind \in {"ok", "replayed"} =>
    LET row == keys[call[c].key]
    IN row # Null /\ SameIntent(row, call[c]) /\ row.result = reply[c].result

(* A call whose key and intent are already recorded is never refused as a  *)
(* conflict: the retry of a transition whose answer was lost converges     *)
(* however far the run has moved since.                                    *)
RetryNeverRefused ==
  [][\A c \in Clients :
       pc[c] # "idle" /\ reply'[c].kind = "conflict" =>
         ~ /\ keys[call[c].key] # Null
           /\ SameIntent(keys[call[c].key], call[c])]_vars

(* The locks transition_run takes never make clients wait for each other   *)
(* in a circle: a transition is refused as stale, never as a deadlock.     *)
NoLockCycle == \A c \in Clients : ~Deadlocked(c)

(* Every call comes back, whoever it has to queue behind. *)
EveryCallReturns ==
  \A c \in Clients : reply[c].kind = "pending" ~> reply[c].kind # "pending"

(* The statements together are the atomic compare-and-swap of RunLedger. *)
ImplementsLedger == Ledger!Spec
-----------------------------------------------------------------------------
(* What an open transaction knows of the committed rows, statement by      *)
(* statement; it holds because of the locks below.                         *)
TxInv(c) ==
  /\ pc[c] = "idle" <=> reply[c].kind # "pending"
  /\ pc[c] \in {"update", "store", "commit"} =>
       /\ keys[call[c].key] = Null
       /\ runs[call[c].run] # Null
       /\ newKey[c] # Null
       /\ SameIntent(newKey[c], call[c])
  /\ pc[c] \in {"store", "commit"} =>
       /\ runs[call[c].run].version = call[c].expected
       /\ newRun[c] = Advance(runs[call[c].run], call[c])
  /\ pc[c] = "commit" => newKey[c].result = ResultOf(call[c].run, newRun[c])
  /\ pc[c] = "replay" => keys[call[c].key] # Null
  /\ pc[c] = "select" => Engine = "mysql"

(* No two open transactions have written the same key or the same run. *)
LocksExclusive ==
  \A c, d \in Clients : c # d =>
    /\ ~(HoldsKey(c, call[c].key) /\ HoldsKey(d, call[c].key))
    /\ ~(HoldsRun(c, call[c].run) /\ HoldsRun(d, call[c].run))

(* The inductive invariant behind the safety properties above. *)
IInv ==
  /\ TypeOK
  /\ \A c \in Clients : TxInv(c)
  /\ LocksExclusive
  /\ KeysAreHistory
  /\ RunShowsNewestResult
  /\ SuccessIsStored
=============================================================================
