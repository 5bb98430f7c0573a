------------------------ MODULE RunTransitionProofs ------------------------
(***************************************************************************)
(* Machine-checked proofs, for every value of the constants, of what       *)
(* RunTransitionProps states and of the refinement of RunLedger.           *)
(***************************************************************************)
EXTENDS RunTransitionProps, TLAPS

(* Typing of the rows a statement builds. *)
LEMMA AdvanceType ==
  ASSUME NEW row \in RunRow, NEW cl \in Call
  PROVE  Advance(row, cl) \in RunRow
BY DEF Advance, RunRow, Call

LEMMA ResultType ==
  ASSUME NEW r \in Runs, NEW row \in RunRow
  PROVE  ResultOf(r, row) \in Result
BY DEF ResultOf, RunRow, Result

LEMMA CallType ==
  ASSUME TypeOK, NEW c \in Clients
  PROVE  call[c] \in Call /\ call[c].key \in Keys /\ call[c].run \in Runs
BY CallsAssumption DEF TypeOK, Call

LEMMA AnswerType ==
  ASSUME NEW k \in {"none", "pending", "conflict", "error"}
  PROVE  Answer(k) \in Reply
BY DEF Answer, Reply

(* The inductive invariant holds before any call. *)
LEMMA InitInv == Init => IInv
<1> SUFFICES ASSUME Init PROVE IInv
  OBVIOUS
<1>1. TypeOK
  BY AnswerType DEF Init, TypeOK, PCs
<1>2. \A c \in Clients : TxInv(c)
  BY DEF Init, TxInv, Answer
<1>3. LocksExclusive
  BY DEF Init, LocksExclusive, HoldsKey, HoldsRun
<1>4. KeysAreHistory /\ RunShowsNewestResult /\ SuccessIsStored
  BY DEF Init, KeysAreHistory, Recorded, RunShowsNewestResult,
         SuccessIsStored, Answer
<1> QED
  BY <1>1, <1>2, <1>3, <1>4 DEF IInv
-----------------------------------------------------------------------------
(* A step of one client that commits nothing: what is left to show is the  *)
(* client's own part of the invariant.                                     *)
LEMMA LocalStep ==
  ASSUME IInv, NEW c \in Clients, TypeOK',
         UNCHANGED <<runs, keys>>,
         \A d \in Clients : d # c =>
           /\ pc'[d] = pc[d] /\ call'[d] = call[d] /\ reply'[d] = reply[d]
           /\ newKey'[d] = newKey[d] /\ newRun'[d] = newRun[d],
         TxInv(c)',
         reply'[c].kind \in {"ok", "replayed"} =>
           /\ keys[call'[c].key] # Null
           /\ SameIntent(keys[call'[c].key], call'[c])
           /\ keys[call'[c].key].result = reply'[c].result,
         pc'[c] \in {"update", "store", "commit"} =>
           /\ call'[c] = call[c]
           /\ \A d \in Clients : d # c => ~HoldsKey(d, call[c].key),
         pc'[c] \in {"store", "commit"} =>
           \A d \in Clients : d # c => ~HoldsRun(d, call[c].run)
  PROVE  IInv'
<1>1. \A d \in Clients : TxInv(d)'
  <2> SUFFICES ASSUME NEW d \in Clients, d # c
               PROVE  TxInv(d)'
    OBVIOUS
  <2>1. TxInv(d)
    BY DEF IInv
  <2> QED
    BY <2>1 DEF TxInv
<1>2. LocksExclusive'
  <2> SUFFICES ASSUME NEW d \in Clients, NEW e \in Clients, d # e
               PROVE  /\ ~(HoldsKey(d, call[d].key) /\ HoldsKey(e, call[d].key))'
                      /\ ~(HoldsRun(d, call[d].run) /\ HoldsRun(e, call[d].run))'
    BY DEF LocksExclusive
  <2>1. CASE d # c /\ e # c
    BY <2>1 DEF IInv, LocksExclusive, HoldsKey, HoldsRun
  <2>2. CASE d = c
    BY <2>2 DEF HoldsKey, HoldsRun
  <2>3. CASE e = c
    BY <2>3 DEF HoldsKey, HoldsRun
  <2> QED
    BY <2>1, <2>2, <2>3
<1>3. KeysAreHistory'
  BY DEF IInv, KeysAreHistory, Recorded
<1>4. RunShowsNewestResult'
  BY DEF IInv, RunShowsNewestResult
<1>5. SuccessIsStored'
  BY DEF IInv, SuccessIsStored
<1> QED
  BY <1>1, <1>2, <1>3, <1>4, <1>5 DEF IInv
-----------------------------------------------------------------------------
(* One lemma per action that commits nothing. *)

LEMMA RollbackInv ==
  ASSUME IInv, NEW c \in Clients, pc[c] # "idle",
         NEW k \in {"conflict", "error"}, Rollback(c, k)
  PROVE  IInv'
<1> USE DEF Rollback, Return
<1>1. TypeOK'
  BY AnswerType DEF IInv, TypeOK, PCs
<1>2. reply'[c] = Answer(k) /\ pc'[c] = "idle"
  BY DEF IInv, TypeOK
<1>3. TxInv(c)'
  BY <1>2 DEF TxInv, Answer
<1> QED
  BY <1>1, <1>2, <1>3, LocalStep DEF Answer

LEMMA BeginInv ==
  ASSUME IInv, NEW c \in Clients, Begin(c)
  PROVE  IInv'
<1> USE DEF Begin
<1>1. TypeOK'
  BY AnswerType DEF IInv, TypeOK, PCs
<1>2. reply'[c] = Answer("pending") /\ pc'[c] = "insert"
  BY DEF IInv, TypeOK
<1>3. TxInv(c)'
  BY <1>2 DEF TxInv, Answer
<1> QED
  BY <1>1, <1>2, <1>3, LocalStep DEF Answer

LEMMA InsertKeyInv ==
  ASSUME IInv, NEW c \in Clients, InsertKey(c)
  PROVE  IInv'
<1> USE DEF InsertKey
<1>1. newKey'[c] = [run |-> call[c].run, intent |-> call[c].intent,
                    result |-> Null]
      /\ pc'[c] = "update" /\ reply'[c].kind = "pending"
  BY DEF IInv, TypeOK, TxInv
<1>2. newKey'[c] \in KeyRow
  BY <1>1, CallType DEF KeyRow, Call, IInv
<1>3. TypeOK'
  BY <1>1, <1>2 DEF IInv, TypeOK, PCs
<1>4. TxInv(c)'
  BY <1>1, <1>2, NullAssumption DEF TxInv, SameIntent
<1>5. \A d \in Clients : d # c => ~HoldsKey(d, call[c].key)
  BY DEF Free, Blocks
<1> QED
  BY <1>1, <1>3, <1>4, <1>5, LocalStep

LEMMA FindKeyInv ==
  ASSUME IInv, NEW c \in Clients,
         pc[c] = "insert",
         NEW p \in {"replay", "select"}, p = "select" => Engine = "mysql",
         p = "replay" => keys[call[c].key] # Null,
         pc' = [pc EXCEPT ![c] = p],
         UNCHANGED <<runs, keys, call, reply, newKey, newRun>>
  PROVE  IInv'
<1>1. TypeOK' /\ pc'[c] = p /\ reply'[c].kind = "pending"
  BY DEF IInv, TypeOK, PCs, TxInv
<1>2. TxInv(c)'
  BY <1>1 DEF TxInv
<1> QED
  BY <1>1, <1>2, LocalStep

LEMMA ReplayTransitionInv ==
  ASSUME IInv, NEW c \in Clients, ReplayTransition(c)
  PROVE  IInv'
<1> USE DEF ReplayTransition, Return
<1>1. reply'[c] = [kind |-> "replayed", result |-> keys[call[c].key].result]
      /\ pc'[c] = "idle"
  BY DEF IInv, TypeOK
<1>2. keys[call[c].key] \in KeyRow
  BY CallType DEF IInv, TypeOK, Answered
<1>3. TypeOK'
  BY <1>1, <1>2 DEF IInv, TypeOK, PCs, Reply, KeyRow
<1>4. TxInv(c)'
  BY <1>1 DEF TxInv
<1> QED
  BY <1>1, <1>3, <1>4, LocalStep DEF Answered

LEMMA UpdateRunInv ==
  ASSUME IInv, NEW c \in Clients, UpdateRun(c)
  PROVE  IInv'
<1> USE DEF UpdateRun
<1>1. TxInv(c) /\ call[c] \in Call /\ call[c].run \in Runs
  BY CallType DEF IInv
<1>2. runs[call[c].run] \in RunRow
  BY <1>1 DEF IInv, TypeOK, TxInv
<1>3. newRun'[c] = Advance(runs[call[c].run], call[c]) /\ pc'[c] = "store"
  BY DEF IInv, TypeOK
<1>4. TypeOK'
  BY <1>1, <1>2, <1>3, AdvanceType DEF IInv, TypeOK, PCs
<1>5. TxInv(c)'
  BY <1>1, <1>3 DEF TxInv
<1>6. \A d \in Clients : d # c => /\ ~HoldsKey(d, call[c].key)
                                 /\ ~HoldsRun(d, call[c].run)
  BY DEF Free, Blocks, IInv, LocksExclusive, HoldsKey
<1> QED
  BY <1>1, <1>3, <1>4, <1>5, <1>6, LocalStep DEF TxInv

LEMMA StoreResultInv ==
  ASSUME IInv, NEW c \in Clients, StoreResult(c)
  PROVE  IInv'
<1> USE DEF StoreResult
<1>1. TxInv(c) /\ call[c] \in Call /\ call[c].run \in Runs
  BY CallType DEF IInv
<1>2. runs[call[c].run] \in RunRow /\ newKey[c] \in KeyRow
  BY <1>1 DEF IInv, TypeOK, TxInv
<1>3. newRun[c] \in RunRow
  BY <1>1, <1>2, AdvanceType DEF TxInv
<1>4. newKey'[c] = [newKey[c] EXCEPT !.result = ResultOf(call[c].run, newRun[c])]
      /\ pc'[c] = "commit"
  BY DEF IInv, TypeOK
<1>5. newKey'[c] \in KeyRow
      /\ newKey'[c].run = newKey[c].run /\ newKey'[c].intent = newKey[c].intent
      /\ newKey'[c].result = ResultOf(call[c].run, newRun[c])
  BY <1>1, <1>2, <1>3, <1>4, ResultType DEF KeyRow
<1>6. TypeOK'
  BY <1>5 DEF IInv, TypeOK, PCs
<1>7. TxInv(c)'
  BY <1>1, <1>4, <1>5, NullAssumption DEF TxInv, SameIntent
<1>8. \A d \in Clients : d # c => /\ ~HoldsKey(d, call[c].key)
                                 /\ ~HoldsRun(d, call[c].run)
  BY DEF IInv, LocksExclusive, HoldsKey, HoldsRun
<1> QED
  BY <1>1, <1>4, <1>6, <1>7, <1>8, LocalStep DEF TxInv
-----------------------------------------------------------------------------
(* The two actions that change committed rows. *)

LEMMA CreateRunInv ==
  ASSUME IInv, NEW r \in Runs, CreateRun(r)
  PROVE  IInv'
<1> PICK s \in Statuses, b \in Branches \cup {Null} :
      runs' = [runs EXCEPT ![r] = [version |-> 0, status |-> s, branch |-> b]]
  BY DEF CreateRun
<1> DEFINE row == [version |-> 0, status |-> s, branch |-> b]
<1>1. row \in RunRow /\ row # Null /\ runs[r] = Null
      /\ UNCHANGED <<keys, call, reply, pc, newKey, newRun>>
  BY NullAssumption DEF RunRow, CreateRun
<1>2. runs'[r] = row /\ \A q \in Runs : q # r => runs'[q] = runs[q]
  BY DEF IInv, TypeOK
<1> HIDE DEF row
<1>3. TypeOK'
  BY <1>1, <1>2 DEF IInv, TypeOK, row
<1>4. \A c \in Clients : TxInv(c)'
  <2> SUFFICES ASSUME NEW c \in Clients PROVE TxInv(c)'
    OBVIOUS
  <2>1. TxInv(c) /\ call[c].run \in Runs
    BY CallType DEF IInv
  <2> QED
    BY <1>1, <1>2, <2>1 DEF TxInv
<1>5. LocksExclusive'
  BY <1>1 DEF IInv, LocksExclusive, HoldsKey, HoldsRun
<1>6. \A k \in Keys : keys[k] # Null => keys[k].run \in Runs \ {r}
  BY <1>1 DEF IInv, TypeOK, KeyRow, KeysAreHistory
<1>7. KeysAreHistory'
  BY <1>1, <1>2, <1>6 DEF IInv, KeysAreHistory, Recorded, row
<1>8. RunShowsNewestResult'
  BY <1>1, <1>2, <1>6 DEF IInv, RunShowsNewestResult
<1>9. SuccessIsStored'
  BY <1>1 DEF IInv, SuccessIsStored
<1> QED
  BY <1>3, <1>4, <1>5, <1>7, <1>8, <1>9 DEF IInv

LEMMA CommitInv ==
  ASSUME IInv, NEW c \in Clients, pc[c] = "commit", Commit(c),
         NEW rep \in {[kind |-> "ok", result |-> newKey[c].result],
                      Answer("error")},
         Return(c, rep)
  PROVE  IInv'
<1> DEFINE r == call[c].run
           k == call[c].key
<1>1. TxInv(c) /\ call[c] \in Call /\ r \in Runs /\ k \in Keys
  BY CallType DEF IInv
<1>2. /\ runs[r] \in RunRow /\ newKey[c] \in KeyRow /\ newRun[c] \in RunRow
      /\ newRun[c].version = runs[r].version + 1
      /\ keys[k] = Null /\ runs[r] # Null
      /\ newKey[c].run = r /\ newKey[c].intent = call[c].intent
      /\ newKey[c].result = ResultOf(r, newRun[c])
      /\ newKey[c].result \in Result
  <2>1. runs[r] \in RunRow /\ newKey[c] \in KeyRow
    BY <1>1 DEF IInv, TypeOK, TxInv
  <2>2. newRun[c] = Advance(runs[r], call[c]) /\ newRun[c] \in RunRow
    BY <1>1, <2>1, AdvanceType DEF TxInv
  <2>3. newKey[c].result = ResultOf(r, newRun[c])
    BY <1>1 DEF TxInv
  <2> QED
    BY <1>1, <2>1, <2>2, <2>3, ResultType DEF TxInv, SameIntent, Advance
<1>3. /\ runs' = [runs EXCEPT ![r] = newRun[c]]
      /\ keys' = [keys EXCEPT ![k] = newKey[c]]
      /\ pc' = [pc EXCEPT ![c] = "idle"]
      /\ reply' = [reply EXCEPT ![c] = rep]
      /\ newKey' = [newKey EXCEPT ![c] = Null]
      /\ newRun' = [newRun EXCEPT ![c] = Null]
      /\ call' = call
  BY DEF Commit, Return
<1>4. /\ runs'[r] = newRun[c] /\ \A q \in Runs : q # r => runs'[q] = runs[q]
      /\ keys'[k] = newKey[c] /\ \A j \in Keys : j # k => keys'[j] = keys[j]
      /\ newRun[c] # Null /\ newKey[c] # Null /\ newKey[c].result # Null
  BY <1>1, <1>2, <1>3, NullAssumption DEF IInv, TypeOK
<1>5. rep \in Reply /\ rep.kind \notin {"pending", "replayed"}
      /\ (rep.kind = "ok" => rep.result = newKey[c].result)
  BY <1>2 DEF Reply, Answer
<1> HIDE DEF r, k
<1>6. TypeOK'
  BY <1>2, <1>3, <1>5 DEF IInv, TypeOK, PCs
<1>7. \A d \in Clients : TxInv(d)'
  <2> SUFFICES ASSUME NEW d \in Clients PROVE TxInv(d)'
    OBVIOUS
  <2>1. TxInv(d) /\ call[d].run \in Runs /\ call[d].key \in Keys
    BY CallType DEF IInv
  <2>2. CASE d = c
    BY <2>2, <1>3, <1>5 DEF TxInv, IInv, TypeOK
  <2>3. CASE d # c
    <3>1. pc'[d] = pc[d] /\ reply'[d] = reply[d] /\ newKey'[d] = newKey[d]
          /\ newRun'[d] = newRun[d] /\ call'[d] = call[d]
      BY <1>3, <2>3 DEF IInv, TypeOK
    <3>2. pc[d] \in {"update", "store", "commit"} => call[d].key # k
      BY <2>3 DEF IInv, LocksExclusive, HoldsKey, k
    <3>3. pc[d] \in {"store", "commit"} => call[d].run # r
      BY <2>3 DEF IInv, LocksExclusive, HoldsRun, r
    <3> QED
      BY <1>2, <1>4, <2>1, <3>1, <3>2, <3>3 DEF TxInv
  <2> QED
    BY <2>2, <2>3
<1>8. LocksExclusive'
  BY <1>3 DEF IInv, TypeOK, LocksExclusive, HoldsKey, HoldsRun
<1>9. \A j \in Keys : j # k /\ keys[j] # Null =>
        /\ keys[j].run \in Runs /\ keys[j].result # Null
        /\ runs[keys[j].run] \in RunRow
        /\ keys[j].result.version \in 1..runs[keys[j].run].version
  BY DEF IInv, TypeOK, KeysAreHistory, KeyRow
<1>10. KeysAreHistory'
  <2>1. ASSUME NEW q \in Runs, runs'[q] # Null, NEW v \in 1..runs'[q].version
        PROVE  \E j \in Keys : Recorded(j, q)' /\ keys'[j].result.version = v
    <3>1. CASE q = r /\ v = newRun[c].version
      BY <1>1, <1>2, <1>4, <3>1 DEF Recorded, ResultOf, k
    <3>2. CASE ~(q = r /\ v = newRun[c].version)
      <4>1. runs[q] # Null /\ v \in 1..runs[q].version
        BY <1>2, <1>4, <2>1, <3>2 DEF RunRow
      <4>2. PICK j \in Keys : Recorded(j, q) /\ keys[j].result.version = v
        BY <4>1 DEF IInv, KeysAreHistory
      <4> QED
        BY <1>2, <1>4, <4>2 DEF Recorded
    <3> QED
      BY <3>1, <3>2
  <2>2. ASSUME NEW q \in Runs, NEW i \in Keys, NEW j \in Keys,
               Recorded(i, q)', Recorded(j, q)',
               keys'[i].result.version = keys'[j].result.version
        PROVE  i = j
    <3>1. CASE i # k /\ j # k
      BY <1>4, <2>2, <3>1 DEF IInv, KeysAreHistory, Recorded
    <3>2. ASSUME NEW m \in Keys, m # k, Recorded(m, r)
          PROVE  keys[m].result.version # newRun[c].version
      BY <1>2, <1>9, <3>2 DEF Recorded, RunRow
    <3>3. keys'[k].run = r /\ keys'[k].result.version = newRun[c].version
      BY <1>2, <1>4 DEF ResultOf
    <3>4. CASE i = k /\ j # k
      BY <1>4, <2>2, <3>2, <3>3, <3>4 DEF Recorded
    <3>5. CASE j = k /\ i # k
      BY <1>4, <2>2, <3>2, <3>3, <3>5 DEF Recorded
    <3> QED
      BY <3>1, <3>4, <3>5
  <2>3. ASSUME NEW j \in Keys, keys'[j] # Null
        PROVE  /\ keys'[j].result # Null
               /\ runs'[keys'[j].run] # Null
               /\ keys'[j].result.version \in 1..runs'[keys'[j].run].version
    <3>1. CASE j = k
      BY <1>2, <1>4, <3>1 DEF ResultOf, RunRow
    <3>2. CASE j # k
      BY <1>2, <1>4, <1>9, <2>3, <3>2, NullAssumption DEF RunRow
    <3> QED
      BY <3>1, <3>2
  <2> QED
    BY <2>1, <2>2, <2>3 DEF KeysAreHistory
<1>11. RunShowsNewestResult'
  <2> SUFFICES ASSUME NEW j \in Keys, keys'[j] # Null,
                      keys'[j].result.version = runs'[keys'[j].run].version
               PROVE  keys'[j].result = ResultOf(keys'[j].run, runs'[keys'[j].run])
    BY DEF RunShowsNewestResult, ResultOf
  <2>1. CASE j = k
    BY <1>2, <1>4, <2>1
  <2>2. CASE j # k
    <3>1. keys[j].run # r
      BY <1>2, <1>4, <1>9, <2>2 DEF RunRow
    <3> QED
      BY <1>4, <1>9, <2>2, <3>1 DEF IInv, RunShowsNewestResult
  <2> QED
    BY <2>1, <2>2
<1>12. SuccessIsStored'
  <2> SUFFICES ASSUME NEW d \in Clients, reply'[d].kind \in {"ok", "replayed"}
               PROVE  /\ keys'[call'[d].key] # Null
                      /\ SameIntent(keys'[call'[d].key], call'[d])
                      /\ keys'[call'[d].key].result = reply'[d].result
    BY DEF SuccessIsStored, SameIntent
  <2>1. CASE d = c
    BY <1>2, <1>3, <1>4, <1>5, <2>1 DEF IInv, TypeOK, SameIntent, k, r
  <2>2. CASE d # c
    <3>1. reply'[d] = reply[d] /\ call'[d] = call[d] /\ call[d].key \in Keys
      BY <1>3, <2>2, CallType DEF IInv, TypeOK
    <3> QED
      BY <1>2, <1>4, <3>1 DEF IInv, SuccessIsStored
  <2> QED
    BY <2>1, <2>2
<1> QED
  BY <1>6, <1>7, <1>8, <1>10, <1>11, <1>12 DEF IInv
-----------------------------------------------------------------------------
LEMMA NextInv == IInv /\ [Next]_vars => IInv'
<1> SUFFICES ASSUME IInv, [Next]_vars PROVE IInv'
  OBVIOUS
<1>1. CASE UNCHANGED vars
  BY <1>1 DEF vars, IInv, TypeOK, TxInv, LocksExclusive, HoldsKey, HoldsRun,
              KeysAreHistory, Recorded, RunShowsNewestResult, SuccessIsStored
<1>2. ASSUME NEW r \in Runs, CreateRun(r) PROVE IInv'
  BY <1>2, CreateRunInv
<1>3. ASSUME NEW c \in Clients, Begin(c) PROVE IInv'
  BY <1>3, BeginInv
<1>4. ASSUME NEW c \in Clients, Statement(c) PROVE IInv'
  <2>1. CASE InsertKey(c)
    BY <2>1, InsertKeyInv
  <2>2. CASE MissingRun(c)
    <3>1. CASE Engine = "postgres" /\ Rollback(c, "error")
      BY <2>2, <3>1, RollbackInv DEF MissingRun
    <3>2. CASE Engine = "mysql" /\ pc' = [pc EXCEPT ![c] = "select"]
               /\ UNCHANGED <<runs, keys, call, reply, newKey, newRun>>
      BY <2>2, <3>2, FindKeyInv DEF MissingRun
    <3> QED
      BY <2>2, <3>1, <3>2 DEF MissingRun
  <2>3. CASE FindKey(c)
    BY <2>3, FindKeyInv DEF FindKey
  <2>4. CASE ReplayTransition(c)
    BY <2>4, ReplayTransitionInv
  <2>5. CASE RejectReuse(c)
    BY <2>5, RollbackInv DEF RejectReuse
  <2>6. CASE UpdateRun(c)
    BY <2>6, UpdateRunInv
  <2>7. CASE StaleVersion(c)
    BY <2>7, RollbackInv DEF StaleVersion
  <2>8. CASE StoreResult(c)
    BY <2>8, StoreResultInv
  <2>9. CASE CommitTransition(c)
    BY <2>9, CommitInv DEF CommitTransition
  <2> QED
    BY <1>4, <2>1, <2>2, <2>3, <2>4, <2>5, <2>6, <2>7, <2>8, <2>9 DEF Statement
<1>5. ASSUME NEW c \in Clients, CommitUnheard(c) PROVE IInv'
  BY <1>5, CommitInv DEF CommitUnheard
<1>6. ASSUME NEW c \in Clients, Fail(c) PROVE IInv'
  BY <1>6, RollbackInv DEF Fail
<1>7. ASSUME NEW c \in Clients, DeadlockVictim(c) PROVE IInv'
  <2>1. pc[c] # "idle"
    BY <1>7 DEF DeadlockVictim, Deadlocked, Blocks
  <2> QED
    BY <1>7, <2>1, RollbackInv DEF DeadlockVictim
<1> QED
  BY <1>1, <1>2, <1>3, <1>4, <1>5, <1>6, <1>7 DEF Next

LEMMA Inductive == Spec => []IInv
BY InitInv, NextInv, PTL DEF Spec

(* Every row, argument and reply keeps its type, whatever the interleaving. *)
THEOREM TypeCorrect == Spec => []TypeOK
<1>1. IInv => TypeOK
  BY DEF IInv
<1> QED
  BY <1>1, Inductive, PTL

(* The committed keys of a run are exactly its versions: none is skipped,  *)
(* none written twice, under any number of clients, crashes and retries.   *)
THEOREM HistoryIsExact == Spec => []KeysAreHistory
<1>1. IInv => KeysAreHistory
  BY DEF IInv
<1> QED
  BY <1>1, Inductive, PTL

(* No committed transition is overwritten except by the next version. *)
THEOREM NoLostTransition == Spec => []RunShowsNewestResult
<1>1. IInv => RunShowsNewestResult
  BY DEF IInv
<1> QED
  BY <1>1, Inductive, PTL

(* A reported success is the result stored under the caller's own key. *)
THEOREM SuccessIsDurable == Spec => []SuccessIsStored
<1>1. IInv => SuccessIsStored
  BY DEF IInv
<1> QED
  BY <1>1, Inductive, PTL

(* A call already recorded under its key and intent is never a conflict. *)
THEOREM RetryConverges == Spec => RetryNeverRefused
<1> DEFINE A == \A c \in Clients :
                  pc[c] # "idle" /\ reply'[c].kind = "conflict" =>
                    ~ /\ keys[call[c].key] # Null
                      /\ SameIntent(keys[call[c].key], call[c])
<1>1. IInv /\ [Next]_vars => [A]_vars
  <2> SUFFICES ASSUME IInv, Next, NEW c \in Clients,
                      pc[c] # "idle", reply'[c].kind = "conflict",
                      keys[call[c].key] # Null,
                      SameIntent(keys[call[c].key], call[c])
               PROVE  FALSE
    OBVIOUS
  <2>1. reply[c].kind = "pending" /\ reply \in [Clients -> Reply] /\ TxInv(c)
    BY DEF IInv, TypeOK, TxInv
  <2>2. /\ keys[call[c].key].result # Null
    BY CallType DEF IInv, KeysAreHistory
  <2>3. \A d \in Clients : d # c =>
          /\ ~Statement(d) /\ ~Begin(d) /\ ~CommitUnheard(d)
          /\ ~Fail(d) /\ ~DeadlockVictim(d)
    BY <2>1 DEF Statement, Begin, CommitUnheard, Fail, DeadlockVictim,
         InsertKey, MissingRun, FindKey, ReplayTransition, RejectReuse,
         UpdateRun, StaleVersion, StoreResult, CommitTransition, Rollback,
         Return
  <2>4. ~Begin(c) /\ ~CommitUnheard(c) /\ ~Fail(c) /\ ~DeadlockVictim(c)
    BY <2>1 DEF Begin, CommitUnheard, Fail, DeadlockVictim, Rollback, Return,
         Answer
  <2>5. ~Statement(c)
    BY <2>1, <2>2 DEF Statement, InsertKey, MissingRun, FindKey,
         ReplayTransition, RejectReuse, UpdateRun, StaleVersion, StoreResult,
         CommitTransition, Rollback, Return, Answer, Answered, TxInv
  <2>6. \A r \in Runs : ~CreateRun(r)
    BY <2>1 DEF CreateRun
  <2> QED
    BY <2>3, <2>4, <2>5, <2>6 DEF Next
<1> QED
  BY <1>1, Inductive, PTL DEF Spec, RetryNeverRefused

(* PostgreSQL grants its locks in one order, key before run, so no circle  *)
(* of waiting clients can form whatever their number.                      *)
THEOREM PostgresNeverDeadlocks ==
  ASSUME Engine = "postgres"
  PROVE  Spec => []NoLockCycle
<1>1. NoLockCycle
  <2> SUFFICES ASSUME NEW S \in SUBSET Clients, NEW c \in S,
                      \A d \in S : \E e \in S : Blocks(e, d)
               PROVE  FALSE
    BY DEF NoLockCycle, Deadlocked
  <2> USE DEF Blocks, HoldsKey, HoldsRun, SharesRun, SharesKey
  <2>1. \A d \in S : pc[d] \notin {"store", "commit"}
    OBVIOUS
  <2>2. \A d \in S : pc[d] # "update"
    BY <2>1
  <2> QED
    BY <2>1, <2>2
<1> QED
  BY <1>1, PTL
-----------------------------------------------------------------------------
(* The statements of one call are one atomic step of RunLedger, or none.   *)
LEMMA StepRefines ==
  ASSUME IInv, Next
  PROVE  Ledger!Next \/ UNCHANGED Ledger!lvars
<1> USE DEF Answer, Ledger!Answer, Advance, Ledger!Advance,
            ResultOf, Ledger!ResultOf, SameIntent, Ledger!SameIntent
<1>1. ASSUME NEW r \in Runs, CreateRun(r)
      PROVE  Ledger!Create(r)
  BY <1>1 DEF CreateRun, Ledger!Create
<1>2. ASSUME NEW c \in Clients, Begin(c)
      PROVE  Ledger!Submit(c)
  BY <1>2 DEF Begin, Ledger!Submit, IInv, TypeOK, TxInv
<1>3. \A c \in Clients : \A rep : Return(c, rep) => Ledger!Done(c, rep)
  BY DEF Return, Ledger!Done, IInv, TypeOK
<1>4. ASSUME NEW c \in Clients, pc[c] # "idle", Rollback(c, "error")
      PROVE  Ledger!Fail(c)
  BY <1>3, <1>4 DEF Rollback, Ledger!Fail, IInv, TxInv
<1>5. ASSUME NEW c \in Clients, pc[c] = "commit", Commit(c),
             NEW rep \in {[kind |-> "ok", result |-> newKey[c].result],
                          Answer("error")},
             Return(c, rep)
      PROVE  Ledger!Apply(c)
  <2>1. TxInv(c) /\ newKey[c] \in KeyRow /\ call[c] \in Call
    BY <1>5, CallType DEF IInv, TypeOK, TxInv
  <2>2. newKey[c] = [run |-> call[c].run, intent |-> call[c].intent,
                     result |-> ResultOf(call[c].run, newRun[c])]
    BY <1>5, <2>1 DEF TxInv, SameIntent, KeyRow
  <2>3. Ledger!Done(c, rep)
    BY <1>3, <1>5
  <2> QED
    BY <1>5, <2>1, <2>2, <2>3 DEF Ledger!Apply, Commit, TxInv
<1>6. ASSUME NEW c \in Clients, Statement(c)
      PROVE  Ledger!Next \/ UNCHANGED Ledger!lvars
  <2>1. CASE InsertKey(c) \/ UpdateRun(c) \/ StoreResult(c)
    BY <2>1 DEF InsertKey, UpdateRun, StoreResult, Ledger!lvars, IInv, TypeOK
  <2>2. CASE MissingRun(c) /\ Engine = "mysql"
    <3>1. UNCHANGED <<runs, keys, call, reply>> /\ pc' = [pc EXCEPT ![c] = "select"]
      BY <2>2 DEF MissingRun
    <3>2. Ledger!MissRun(c)
      BY <2>2, <3>1 DEF MissingRun, Ledger!MissRun, IInv, TypeOK, TxInv
    <3> QED
      BY <3>2 DEF Ledger!Next
  <2>3. CASE FindKey(c)
    BY <2>3 DEF FindKey, Ledger!lvars, IInv, TypeOK
  <2>4. CASE ReplayTransition(c)
    <3>1. Ledger!Done(c, [kind |-> "replayed", result |-> keys[call[c].key].result])
      BY <2>4 DEF ReplayTransition, Return, Ledger!Done, IInv, TypeOK
    <3>2. reply[c].kind = "pending"
      BY <2>4 DEF ReplayTransition, IInv, TxInv
    <3>3. Ledger!Replay(c)
      BY <2>4, <3>1, <3>2 DEF ReplayTransition, Answered, Ledger!Replay
    <3> QED
      BY <3>3 DEF Ledger!Next
  <2>5. CASE RejectReuse(c)
    <3>1. Ledger!Done(c, Answer("conflict")) /\ UNCHANGED <<runs, keys>>
      BY <2>5, <1>3 DEF RejectReuse, Rollback
    <3>2. /\ reply[c].kind = "pending"
          /\ keys[call[c].key] # Null => ~SameIntent(keys[call[c].key], call[c])
          /\ keys[call[c].key] = Null => pc[c] = "select"
      BY <2>5, CallType DEF RejectReuse, Answered, IInv, TxInv, KeysAreHistory
    <3>3. Ledger!Refuse(c)
      BY <3>1, <3>2 DEF Ledger!Refuse
    <3> QED
      BY <3>3 DEF Ledger!Next
  <2>6. CASE StaleVersion(c)
    <3>1. Ledger!Done(c, Answer("conflict")) /\ UNCHANGED <<runs, keys>>
      BY <2>6, <1>3 DEF StaleVersion, Rollback
    <3>2. /\ reply[c].kind = "pending" /\ keys[call[c].key] = Null
          /\ runs[call[c].run] # Null
          /\ runs[call[c].run].version # call[c].expected
      BY <2>6 DEF StaleVersion, IInv, TxInv
    <3>3. Ledger!Refuse(c)
      BY <3>1, <3>2 DEF Ledger!Refuse
    <3> QED
      BY <3>3 DEF Ledger!Next
  <2>7. CASE CommitTransition(c)
    BY <2>7, <1>5 DEF CommitTransition, Ledger!Next
  <2>8. CASE MissingRun(c) /\ Engine = "postgres"
    BY <2>8, <1>4 DEF MissingRun, Ledger!Next
  <2> QED
    BY <1>6, <2>1, <2>2, <2>3, <2>4, <2>5, <2>6, <2>7, <2>8, EngineAssumption
       DEF Statement
<1>7. ASSUME NEW c \in Clients, CommitUnheard(c)
      PROVE  Ledger!Next
  BY <1>5, <1>7 DEF CommitUnheard, Ledger!Next
<1>8. ASSUME NEW c \in Clients, Fail(c) \/ DeadlockVictim(c)
      PROVE  Ledger!Next
  BY <1>4, <1>8 DEF Fail, DeadlockVictim, Deadlocked, Blocks, Ledger!Next
<1> QED
  BY <1>1, <1>2, <1>6, <1>7, <1>8 DEF Next, Ledger!Next

(* transition_run, with its statements interleaved, failing and retried in *)
(* every way, implements the atomic compare-and-swap of RunLedger.         *)
THEOREM Refinement == Spec => ImplementsLedger
<1>1. Init => Ledger!Init
  BY DEF Init, Ledger!Init, Answer, Ledger!Answer
<1>2. IInv /\ [Next]_vars => [Ledger!Next]_(Ledger!lvars)
  <2>1. ASSUME IInv, UNCHANGED vars PROVE UNCHANGED Ledger!lvars
    BY <2>1 DEF vars, Ledger!lvars
  <2> QED
    BY <2>1, StepRefines
<1> QED
  BY <1>1, <1>2, Inductive, PTL DEF Spec, Ledger!Spec, ImplementsLedger
-----------------------------------------------------------------------------
(* Waiting. *)

(* Two clients that InnoDB has let share what both now want for themselves: *)
(* the run of two inserted keys, or the key two calls came back to.        *)
ShareAndWant(c, d) ==
  /\ Engine = "mysql" /\ c # d /\ pc[c] = pc[d]
  /\ \/ pc[c] = "update" /\ call[c].run = call[d].run
     \/ pc[c] = "replay" /\ call[c].key = call[d].key

DeadlocksArePairs ==
  \A c \in Clients :
    Deadlocked(c) <=> \E d \in Clients : ShareAndWant(c, d)

CanGoOn(c) == pc[c] # "idle" /\ (Free(c) \/ Deadlocked(c))

(* A client inside a call can go on, or waits for one that can, or for one *)
(* that waits for one that can.                                            *)
EveryWaitEnds ==
  \A c \in Clients : pc[c] # "idle" =>
    \/ CanGoOn(c)
    \/ \E d \in Clients : /\ Blocks(d, c)
                         /\ \/ CanGoOn(d)
                            \/ \E e \in Clients : Blocks(e, d) /\ CanGoOn(e)

(* A client that has updated its run waits for nobody.                     *)
LEMMA WritersAreFree ==
  ASSUME NEW c \in Clients, pc[c] \in {"store", "commit"}
  PROVE  Free(c)
BY DEF Free, Blocks

(* Such a pair is a circle of its own.                                     *)
LEMMA PairsDeadlock ==
  ASSUME NEW c \in Clients, NEW d \in Clients, ShareAndWant(c, d)
  PROVE  Deadlocked(c) /\ Deadlocked(d)
<1>1. Blocks(c, d) /\ Blocks(d, c)
  BY DEF ShareAndWant, Blocks, SharesRun, SharesKey
<1>2. {c, d} \in SUBSET Clients
  OBVIOUS
<1> QED BY <1>1, <1>2 DEF Deadlocked

(* Whoever is blocked is blocked by one that writes, by one about to       *)
(* update, or by its like.                                                 *)
LEMMA Blockers ==
  ASSUME IInv, NEW c \in Clients, NEW d \in Clients, Blocks(d, c)
  PROVE  \/ pc[d] \in {"store", "commit"}
         \/ pc[d] = "update" /\ pc[c] \in {"insert", "select"}
         \/ pc[d] = "replay" /\ pc[c] = "select"
         \/ ShareAndWant(c, d)
<1>1. TxInv(c) /\ TxInv(d)
  BY DEF IInv
<1>2. pc[c] = "replay" => ~HoldsKey(d, call[c].key)
  BY <1>1 DEF TxInv, HoldsKey
<1> QED BY <1>2 DEF Blocks, HoldsKey, HoldsRun, SharesRun, SharesKey, ShareAndWant

(* A deadlock is always between two clients that share and want the same   *)
(* row, and every such pair is one: MySQL's foreign key makes two          *)
(* transitions of a run such a pair, its INSERT IGNORE two uses of a key.  *)
THEOREM OnlyPairsDeadlock == Spec => []DeadlocksArePairs
<1>1. IInv => DeadlocksArePairs
  <2> SUFFICES ASSUME IInv, NEW c \in Clients, NEW S \in SUBSET Clients, c \in S,
                      \A d \in S : /\ \E e \in S : Blocks(e, d)
                                   /\ \E e \in S : Blocks(d, e)
               PROVE  \E d \in Clients : ShareAndWant(c, d)
    BY PairsDeadlock DEF DeadlocksArePairs, Deadlocked
  <2>1. \A d \in S : pc[d] \notin {"store", "commit"}
    BY WritersAreFree DEF Free
  <2>2. \A d \in S : pc[d] \notin {"insert", "select"}
    BY DEF Blocks, HoldsKey, HoldsRun, SharesRun, SharesKey
  <2>3. PICK e \in S : Blocks(e, c)
    OBVIOUS
  <2> QED BY <2>1, <2>2, <2>3, Blockers
<1> QED BY <1>1, Inductive, PTL

(* However many clients queue for a run and its keys, on either database,  *)
(* every queue is two deep and has a client at its head that goes on, or   *)
(* that is InnoDB's to choose as victim.                                   *)
THEOREM QueuesHaveAHead == Spec => []EveryWaitEnds
<1>1. ASSUME IInv, NEW c \in Clients, pc[c] \notin {"idle", "insert", "select"}
      PROVE  CanGoOn(c) \/ \E d \in Clients : Blocks(d, c) /\ CanGoOn(d)
  <2>1. CASE Free(c)
    BY <1>1, <2>1 DEF CanGoOn
  <2>2. CASE ~Free(c)
    <3>1. PICK d \in Clients : Blocks(d, c)
      BY <2>2 DEF Free
    <3> QED BY <1>1, <3>1, Blockers, WritersAreFree, PairsDeadlock DEF CanGoOn
  <2> QED BY <2>1, <2>2
<1>2. IInv => EveryWaitEnds
  <2> SUFFICES ASSUME IInv, NEW c \in Clients, pc[c] \in {"insert", "select"}, ~Free(c)
               PROVE  \E d \in Clients :
                        /\ Blocks(d, c)
                        /\ CanGoOn(d) \/ \E e \in Clients : Blocks(e, d) /\ CanGoOn(e)
    BY <1>1 DEF EveryWaitEnds, CanGoOn
  <2>1. PICK d \in Clients : Blocks(d, c)
    BY DEF Free
  <2>2. pc[d] \notin {"idle", "insert", "select"}
    BY <2>1 DEF Blocks, HoldsKey, HoldsRun, SharesRun, SharesKey
  <2> QED BY <1>1, <2>1, <2>2
<1> QED BY <1>2, Inductive, PTL
=============================================================================
