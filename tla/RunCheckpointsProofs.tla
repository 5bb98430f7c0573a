------------------------ MODULE RunCheckpointsProofs ------------------------
(***************************************************************************)
(* The safety properties of RunCheckpoints, for any stages, attempts, keys,*)
(* branches and resumers, any number of recordings and any arguments.      *)
(*                                                                         *)
(* MomentInv: before the switch PostgreSQL is an earlier state of MySQL,   *)
(* and so is the snapshot a migration reads, so that what it commits is    *)
(* one moment of MySQL.  OrderInv: attempts recorded in turn do not        *)
(* overlap.  TrackInv: the run a resumer holds is the stored one or an     *)
(* earlier version of it.                                                  *)
(***************************************************************************)
EXTENDS RunCheckpoints, TLAPS

(* Every row of `old' is, perhaps rewritten, in `new'. *)
Within(old, new) ==
  /\ old.run # Null => new.run # Null
  /\ \A a \in Attempts : old.rows[a] # Null => new.rows[a] # Null
  /\ \A k \in Keys : old.keys[k] # Null => new.keys[k] # Null

StagedInv ==
  /\ copy.done \in {1, 2, 3} => copy.staged.run = copy.snapshot.run
  /\ copy.done \in {2, 3} => copy.staged.rows = copy.snapshot.rows
  /\ copy.done = 3 => copy.staged.keys = copy.snapshot.keys

MomentInv ==
  /\ StoresAreOfOneMoment
  /\ home = "mysql" =>
       ~overtaken /\ Within(store["postgres"], store["mysql"])
  /\ copy.done # 0 =>
       /\ OfOneMoment(copy.snapshot)
       /\ home = "mysql" =>
            /\ Within(store["postgres"], copy.snapshot)
            /\ Within(copy.snapshot, store["mysql"])
  /\ StagedInv

(* Of two attempts one was last written before the other began. *)
InTurn(rows, now) ==
  \A a \in Attempts : rows[a] # Null =>
    /\ rows[a].created <= rows[a].written
    /\ rows[a].written <= now
    /\ \A b \in Attempts : rows[b] # Null /\ a # b =>
         \/ rows[a].written < rows[b].created
         \/ rows[b].written < rows[a].created

OrderInv ==
  ~reused =>
    /\ InTurn(store["mysql"].rows, clock)
    /\ ~overtaken => InTurn(store["postgres"].rows, clock)
    /\ copy.done # 0 => InTurn(copy.snapshot.rows, clock)

(* The run that was read is the stored one, or was before it. *)
Tracks(read, tables) ==
  /\ tables.run # Null
  /\ read.version <= tables.run.version
  /\ read.version = tables.run.version => read = tables.run

Followed(p) ==
  /\ resume[p].pc # "idle"
  /\ ~overtaken
  /\ resume[p].store = home \/ ~gap

TrackInv ==
  \A p \in Resumers :
    /\ home = "mysql" => resume[p].pc # "read" /\ resume[p].store = "mysql"
    /\ resume[p].pc = "read" => resume[p].store = home
    /\ resume[p].pc # "idle" => resume[p].run # Null
    /\ resume[p].pc = "granted" =>
         /\ resume[p].checkpoint # Null
         /\ resume[p].run.named =>
              resume[p].checkpoint.branch = resume[p].run.branch
    /\ Followed(p) =>
         /\ Tracks(resume[p].run, store[home])
         /\ resume[p].pc = "granted" =>
              resume[p].checkpoint.at <= store[home].run.version

-----------------------------------------------------------------------------
(* Types. *)

(* The rows a statement writes have their tables' types.                   *)
LEMMA NoRowsType == NoRows \in Tables
BY DEF NoRows, Tables

(* A resumer that holds nothing holds nothing ill-typed.                    *)
LEMMA IdleType ==
  Idle \in [pc : {"idle", "read", "granted"}, store : Stores,
            run : RunRow \cup {Null}, attempt : Attempts \cup {Null},
            checkpoint : StageRow \cup {Null}]
BY DEF Idle, Stores

(* What record_stage writes.                                               *)
LEMMA RecordedType ==
  ASSUME NEW old \in StageRow \cup {Null}, NEW r \in Recordings,
         NEW v \in Nat, clock \in Nat
  PROVE  Recorded(old, r, v) \in StageRow
<1>1. r \in [verified : BOOLEAN, branch : Branches \cup {Null}]
  BY ArgumentsAssumption
<1>2. old # Null => old.created \in Nat
  BY DEF StageRow
<1>3. (IF old = Null THEN clock + 1 ELSE old.created) \in Nat
  BY <1>2
<1>4. clock + 1 \in Nat
  OBVIOUS
<1> QED BY <1>1, <1>3, <1>4 DEF Recorded, StageRow

(* What transition_run writes.                                             *)
LEMMA AdvanceType ==
  ASSUME NEW row \in RunRow, NEW k \in Keys, NEW b \in Branches \cup {Null}
  PROVE  /\ Advance(row, k, b) \in RunRow
         /\ Advance(row, k, b).version = row.version + 1
         /\ Advance(row, k, b).by = k
<1>1. row.version + 1 \in Nat /\ row.named \in BOOLEAN
      /\ (IF b = Null THEN row.branch ELSE b) \in Branches \cup {Null}
  BY DEF RunRow
<1> QED BY <1>1 DEF Advance, RunRow

(* What the migration leaves of a database.                                *)
LEMMA OverType ==
  ASSUME NEW old \in Tables, NEW new \in Tables
  PROVE  Over(old, new) \in Tables
<1>1. \A a \in Attempts : Upserted(old.rows[a], new.rows[a]) \in StageRow \cup {Null}
  BY DEF Upserted, Tables
<1>2. \A k \in Keys : Upserted(old.keys[k], new.keys[k]) \in Nat \cup {Null}
  BY DEF Upserted, Tables
<1>3. Upserted(old.run, new.run) \in RunRow \cup {Null}
  BY DEF Upserted, Tables
<1> QED BY <1>1, <1>2, <1>3 DEF Over, Tables

(* The three ways a caller changes the database it is connected to.        *)
Created(old, row) == [old EXCEPT !.run = row]
Inserted(old, a, row) == [old EXCEPT !.rows[a] = row]
Advanced(old, k, b) ==
  [old EXCEPT !.run = Advance(old.run, k, b), !.keys[k] = old.run.version + 1]

(* create_run changes the run row and nothing else.                         *)
LEMMA CreatedFields ==
  ASSUME NEW old \in Tables, NEW row \in RunRow
  PROVE  /\ Created(old, row) \in Tables
         /\ Created(old, row).run = row
         /\ Created(old, row).rows = old.rows
         /\ Created(old, row).keys = old.keys
BY DEF Created, Tables

(* record_stage changes the row of its attempt and nothing else.            *)
LEMMA InsertedFields ==
  ASSUME NEW old \in Tables, NEW a \in Attempts, NEW row \in StageRow
  PROVE  /\ Inserted(old, a, row) \in Tables
         /\ Inserted(old, a, row).run = old.run
         /\ Inserted(old, a, row).rows = [old.rows EXCEPT ![a] = row]
         /\ Inserted(old, a, row).keys = old.keys
BY DEF Inserted, Tables

(* transition_run changes the run row and the row of its key.               *)
LEMMA AdvancedFields ==
  ASSUME NEW old \in Tables, old.run # Null,
         NEW k \in Keys, NEW b \in Branches \cup {Null}
  PROVE  /\ Advanced(old, k, b) \in Tables
         /\ Advanced(old, k, b).run = Advance(old.run, k, b)
         /\ Advanced(old, k, b).rows = old.rows
         /\ Advanced(old, k, b).keys = [old.keys EXCEPT ![k] = old.run.version + 1]
<1>1. old.run \in RunRow
  BY DEF Tables
<1>2. Advance(old.run, k, b) \in RunRow /\ old.run.version + 1 \in Nat
  BY <1>1, AdvanceType DEF RunRow
<1> QED BY <1>2 DEF Advanced, Tables

(***************************************************************************)
(* A caller's step, taken apart: what is written, and where.               *)
(***************************************************************************)
LEMMA TransitionStep ==
  ASSUME TypeOK, NEW v, Transition(v)
  PROVE  /\ store[home] \in Tables
         /\ store[home].run \in RunRow
         /\ store[home].run.version = v
         /\ \E k \in Keys, b \in Branches \cup {Null} :
              /\ store[home].keys[k] = Null
              /\ store' = [store EXCEPT ![home] = Advanced(store[home], k, b)]
<1>1. store[home] \in Tables
  BY DEF TypeOK
<1>2. store[home].run # Null /\ store[home].run.version = v
  BY DEF Transition
<1>3. store[home].run \in RunRow
  BY <1>1, <1>2 DEF Tables
<1> QED BY <1>1, <1>2, <1>3 DEF Transition, Write, Advanced

(* create_run writes a row of version 0 where there was none.               *)
LEMMA CreateStep ==
  ASSUME TypeOK, CreateRun
  PROVE  /\ store[home] \in Tables
         /\ store[home].run = Null
         /\ \E row \in RunRow :
              /\ row.version = 0
              /\ store' = [store EXCEPT ![home] = Created(store[home], row)]
<1>1. store[home] \in Tables
  BY DEF TypeOK
<1>2. PICK c \in Creations :
        Write([store[home] EXCEPT !.run =
                 [version |-> 0, by |-> Null, named |-> c.named,
                  branch |-> c.branch]])
  BY DEF CreateRun
<1>3. [version |-> 0, by |-> Null, named |-> c.named, branch |-> c.branch] \in RunRow
  BY ArgumentsAssumption DEF RunRow
<1> QED BY <1>1, <1>2, <1>3 DEF CreateRun, Write, Created

(* record_stage writes one row, dated by the clock, of an existing run.     *)
LEMMA RecordStep ==
  ASSUME TypeOK, RecordStage
  PROVE  /\ store[home] \in Tables
         /\ store[home].run \in RunRow
         /\ \E a \in Attempts, r \in Recordings :
              /\ store' = [store EXCEPT ![home] = Inserted(store[home], a,
                             Recorded(store[home].rows[a], r, store[home].run.version))]
              /\ Recorded(store[home].rows[a], r, store[home].run.version) \in StageRow
              /\ reused' = (reused \/ (store[home].rows[a] # Null
                                         /\ ~IsLatest(store[home].rows, a)))
<1>1. store[home] \in Tables /\ clock \in Nat
  BY BoundsAssumption DEF TypeOK
<1>2. store[home].run \in RunRow
  BY <1>1 DEF RecordStage, Tables
<1>3. PICK a \in Attempts, r \in Recordings :
        /\ Write([store[home] EXCEPT !.rows[a] =
                    Recorded(store[home].rows[a], r, store[home].run.version)])
        /\ reused' = (reused \/ (store[home].rows[a] # Null
                                   /\ ~IsLatest(store[home].rows, a)))
  BY DEF RecordStage
<1>4. Recorded(store[home].rows[a], r, store[home].run.version) \in StageRow
  BY <1>1, <1>2, RecordedType DEF Tables, RunRow
<1> QED BY <1>1, <1>2, <1>3, <1>4 DEF Write, Inserted

(* Where a resumer stands after it was granted a checkpoint.               *)
LEMMA GrantStep ==
  ASSUME TypeOK, NEW p \in Resumers, NEW run \in RunRow, NEW a \in Attempts,
         NEW checkpoint \in StageRow, Grant(p, run, a, checkpoint)
  PROVE  /\ resume' = [resume EXCEPT ![p] =
                         [pc |-> "granted", store |-> home, run |-> run,
                          attempt |-> a, checkpoint |-> checkpoint]]
         /\ resume' \in
              [Resumers ->
                 [pc : {"idle", "read", "granted"}, store : Stores,
                  run : RunRow \cup {Null}, attempt : Attempts \cup {Null},
                  checkpoint : StageRow \cup {Null}]]
         /\ run.named => checkpoint.branch = run.branch
<1>1. home \in Stores
  BY DEF TypeOK
<1>2. [pc |-> "granted", store |-> home, run |-> run, attempt |-> a,
       checkpoint |-> checkpoint] \in
        [pc : {"idle", "read", "granted"}, store : Stores,
         run : RunRow \cup {Null}, attempt : Attempts \cup {Null},
         checkpoint : StageRow \cup {Null}]
  BY <1>1
<1>3. run.named => checkpoint.branch = run.branch
  BY DEF Grant, BranchMatches
<1> QED BY <1>2, <1>3 DEF Grant, TypeOK

(* The two reads end with a verified attempt of the database at home.      *)
LEMMA ReadStep ==
  ASSUME TypeOK, NEW p \in Resumers, ReadCheckpoint(p) \/ ReadBoth(p),
         ReadCheckpoint(p) => resume[p].run # Null
  PROVE  \E run \in RunRow, a \in Newest(store[home].rows) :
           /\ run = IF resume[p].pc = "read" THEN resume[p].run ELSE store[home].run
           /\ a \in Attempts
           /\ store[home].rows[a] \in StageRow
           /\ Grant(p, run, a, store[home].rows[a])
<1>1. store[home] \in Tables
  BY DEF TypeOK
<1>2. ASSUME NEW a \in Newest(store[home].rows)
      PROVE  a \in Attempts /\ store[home].rows[a] \in StageRow
  BY <1>1 DEF Newest, Verified, Tables
<1>3. CASE ReadCheckpoint(p)
  <2>1. resume[p].pc = "read" /\ resume[p].run \in RunRow
    BY <1>3 DEF ReadCheckpoint, TypeOK
  <2>2. PICK a \in Newest(store[home].rows) :
          Grant(p, resume[p].run, a, store[home].rows[a])
    BY <1>3 DEF ReadCheckpoint
  <2> QED BY <2>1, <2>2, <1>2
<1>4. CASE ReadBoth(p)
  <2>1. resume[p].pc = "idle" /\ store[home].run \in RunRow
    BY <1>1, <1>4 DEF ReadBoth, Tables
  <2>2. PICK a \in Newest(store[home].rows) :
          Grant(p, store[home].run, a, store[home].rows[a])
    BY <1>4 DEF ReadBoth
  <2> QED BY <2>1, <2>2, <1>2
<1> QED BY <1>3, <1>4

-----------------------------------------------------------------------------
(* A resumer that has begun holds a run; the type invariant needs it of no *)
(* one, and TrackInv below says more.                                      *)
HoldsRun == \A p \in Resumers : resume[p].pc # "idle" => resume[p].run # Null

(* Before anything happened both databases are empty.                       *)
LEMMA TypeInit == Init => TypeOK /\ HoldsRun
<1> SUFFICES ASSUME Init PROVE TypeOK /\ HoldsRun
  OBVIOUS
<1>1. store \in [Stores -> Tables] /\ home \in Stores
  BY NoRowsType DEF Init, Stores
<1>2. copy \in [done : 0..3, snapshot : Tables, staged : Tables]
  <2>1. 0 \in 0..3
    OBVIOUS
  <2> QED BY <2>1, NoRowsType DEF Init, NoCopy
<1>3. clock \in 0..MaxRecords
  BY BoundsAssumption DEF Init
<1> QED BY <1>1, <1>2, <1>3, IdleType DEF Init, TypeOK, HoldsRun, Idle

(* No step leaves the types, and no step takes a run row away.              *)
LEMMA TypeStep == TypeOK /\ HoldsRun /\ [Next]_vars => TypeOK' /\ HoldsRun'
<1> SUFFICES ASSUME TypeOK, HoldsRun, [Next]_vars
             PROVE  TypeOK' /\ HoldsRun'
  OBVIOUS
<1> DEFINE Standing == [pc : {"idle", "read", "granted"}, store : Stores,
                        run : RunRow \cup {Null}, attempt : Attempts \cup {Null},
                        checkpoint : StageRow \cup {Null}]
<1>1. CASE CreateRun
  <2>1. store' \in [Stores -> Tables]
    BY <1>1, CreateStep, CreatedFields DEF TypeOK
  <2> QED BY <1>1, <2>1 DEF CreateRun, TypeOK, HoldsRun
<1>2. CASE RecordStage
  <2>1. store' \in [Stores -> Tables] /\ reused' \in BOOLEAN
    <3>1. PICK a \in Attempts, row \in StageRow :
            store' = [store EXCEPT ![home] = Inserted(store[home], a, row)]
      BY <1>2, RecordStep
    <3>2. Inserted(store[home], a, row) \in Tables
      BY InsertedFields DEF TypeOK
    <3>3. reused' \in BOOLEAN
      BY <1>2, RecordStep DEF TypeOK
    <3> QED BY <3>1, <3>2, <3>3 DEF TypeOK
  <2>2. clock' \in 0..MaxRecords
    BY <1>2, BoundsAssumption DEF RecordStage, TypeOK
  <2> QED BY <1>2, <2>1, <2>2 DEF RecordStage, TypeOK, HoldsRun
<1>3. ASSUME NEW v, Transition(v)
      PROVE  store' \in [Stores -> Tables]
  <2>1. store[home].run # Null
    BY <1>3 DEF Transition
  <2>2. PICK k \in Keys, b \in Branches \cup {Null} :
          store' = [store EXCEPT ![home] = Advanced(store[home], k, b)]
    BY <1>3, TransitionStep
  <2>3. Advanced(store[home], k, b) \in Tables
    BY <2>1, AdvancedFields DEF TypeOK
  <2> QED BY <2>2, <2>3 DEF TypeOK
<1>4. CASE AdvanceRun
  BY <1>3, <1>4 DEF AdvanceRun, TypeOK, HoldsRun
<1>5. ASSUME NEW p \in Resumers, ReadRun(p)
      PROVE  TypeOK' /\ HoldsRun'
  <2>1. store[home].run \in RunRow
    BY <1>5 DEF ReadRun, TypeOK, Tables
  <2>3. /\ resume' = [resume EXCEPT ![p] =
                         [pc |-> "read", store |-> home, run |-> store[home].run,
                          attempt |-> Null, checkpoint |-> Null]]
        /\ resume' \in [Resumers -> Standing]
    BY <1>5, <2>1 DEF ReadRun, TypeOK, Stores
  <2>4. HoldsRun'
    BY <2>3, <2>1, NullAssumption DEF HoldsRun, TypeOK
  <2> QED BY <1>5, <2>3, <2>4 DEF ReadRun, TypeOK
<1>6. ASSUME NEW p \in Resumers, ReadCheckpoint(p) \/ ReadBoth(p)
      PROVE  TypeOK' /\ HoldsRun'
  <2>1. ReadCheckpoint(p) => resume[p].run # Null
    BY DEF ReadCheckpoint, HoldsRun
  <2>2. PICK run \in RunRow, a \in Attempts, c \in StageRow : Grant(p, run, a, c)
    BY <1>6, <2>1, ReadStep
  <2>3. /\ resume' \in [Resumers -> Standing]
        /\ resume' = [resume EXCEPT ![p] =
                         [pc |-> "granted", store |-> home, run |-> run,
                          attempt |-> a, checkpoint |-> c]]
    BY <2>2, GrantStep
  <2>4. HoldsRun'
    BY <2>3, NullAssumption DEF HoldsRun, TypeOK
  <2> QED BY <1>6, <2>3, <2>4 DEF ReadCheckpoint, ReadBoth, TypeOK
<1>7. ASSUME NEW p \in Resumers, resume' = [resume EXCEPT ![p] = Idle]
      PROVE  resume' \in [Resumers -> Standing] /\ HoldsRun'
  <2>1. resume' \in [Resumers -> Standing]
    BY <1>7, IdleType DEF TypeOK
  <2> QED BY <1>7, <2>1 DEF HoldsRun, TypeOK, Idle
<1>8. ASSUME NEW p \in Resumers, GiveUp(p)
      PROVE  TypeOK' /\ HoldsRun'
  BY <1>8, <1>7 DEF GiveUp, TypeOK
<1>9. ASSUME NEW p \in Resumers, Continue(p)
      PROVE  TypeOK' /\ HoldsRun'
  BY <1>9, <1>7, <1>3 DEF Continue, TypeOK
<1>10. CASE CopyRun
  <2>1. CopySource \in Tables
    BY DEF CopySource, TypeOK, Stores
  <2>2. [NoRows EXCEPT !.run = CopySource.run] \in Tables
    BY <2>1, NoRowsType DEF Tables
  <2>3. 1 \in 0..3
    OBVIOUS
  <2> QED BY <1>10, <2>1, <2>2, <2>3 DEF CopyRun, TypeOK, HoldsRun
<1>11. CASE CopyRows \/ CopyKeys
  <2>1. CopySource \in Tables
    BY DEF CopySource, TypeOK, Stores
  <2>2. copy' \in [done : 0..3, snapshot : Tables, staged : Tables]
    <3>1. /\ [copy.staged EXCEPT !.rows = CopySource.rows] \in Tables
          /\ [copy.staged EXCEPT !.keys = CopySource.keys] \in Tables
      BY <2>1 DEF TypeOK, Tables
    <3>2. 2 \in 0..3 /\ 3 \in 0..3
      OBVIOUS
    <3> QED BY <1>11, <3>1, <3>2 DEF CopyRows, CopyKeys, TypeOK
  <2> QED BY <1>11, <2>2 DEF CopyRows, CopyKeys, TypeOK, HoldsRun
<1>12. NoCopy \in [done : 0..3, snapshot : Tables, staged : Tables]
  <2>1. 0 \in 0..3
    OBVIOUS
  <2> QED BY <2>1, NoRowsType DEF NoCopy
<1>13. CASE CommitCopy
  <2>1. store' \in [Stores -> Tables]
    BY <1>13, OverType DEF CommitCopy, TypeOK, Stores
  <2> QED BY <1>13, <2>1, <1>12 DEF CommitCopy, TypeOK, HoldsRun
<1>14. CASE AbandonCopy
  BY <1>14, <1>12 DEF AbandonCopy, TypeOK, HoldsRun
<1>15. CASE Switch
  BY <1>15 DEF Switch, TypeOK, HoldsRun, Stores
<1>16. CASE UNCHANGED vars
  BY <1>16 DEF vars, TypeOK, HoldsRun
<1> QED
  BY <1>1, <1>2, <1>4, <1>5, <1>6, <1>8, <1>9, <1>10, <1>11, <1>13, <1>14,
     <1>15, <1>16 DEF Next

(* Every variable keeps the type of its column.                            *)
THEOREM TypeCorrect == Spec => []TypeOK
<1>1. TypeOK /\ HoldsRun /\ [Next]_vars => TypeOK' /\ HoldsRun'
  BY TypeStep
<1> QED BY TypeInit, <1>1, PTL DEF Spec

-----------------------------------------------------------------------------
(* One moment. *)

(* A run that has just been created is at version 0 and has no keys.       *)
LEMMA CreatedMoment ==
  ASSUME NEW old \in Tables, OfOneMoment(old), old.run = Null,
         NEW row \in RunRow, row.version = 0
  PROVE  OfOneMoment(Created(old, row)) /\ Within(old, Created(old, row))
<1>1. old = NoRows
  BY DEF OfOneMoment
<1>2. /\ \A a \in Attempts : old.rows[a] = Null
      /\ \A k \in Keys : old.keys[k] = Null
  BY <1>1 DEF NoRows
<1>3. row # Null
  BY NullAssumption
<1>4. {old.keys[k] : k \in Keys} \ {Null} = {}
  BY <1>2
<1>5. 1..0 = {}
  OBVIOUS
<1> QED BY <1>2, <1>3, <1>4, <1>5, CreatedFields DEF OfOneMoment, Within

(* An attempt is recorded at the version the run has.                      *)
LEMMA InsertedMoment ==
  ASSUME NEW old \in Tables, OfOneMoment(old), old.run \in RunRow,
         NEW a \in Attempts, NEW row \in StageRow, row.at = old.run.version
  PROVE  OfOneMoment(Inserted(old, a, row)) /\ Within(old, Inserted(old, a, row))
<1> DEFINE new == Inserted(old, a, row)
<1>1. /\ new.run = old.run /\ new.keys = old.keys
      /\ new.rows = [old.rows EXCEPT ![a] = row]
  BY InsertedFields
<1>2. old.run # Null /\ row # Null /\ old.run.version \in Nat
  BY NullAssumption DEF RunRow
<1>3. \A c \in Attempts : new.rows[c] = IF c = a THEN row ELSE old.rows[c]
  BY <1>1 DEF Tables
<1>4. Within(old, new)
  BY <1>1, <1>2, <1>3 DEF Within
<1>5. \A c \in Attempts : new.rows[c] # Null => new.rows[c].at <= new.run.version
  BY <1>1, <1>2, <1>3 DEF OfOneMoment
<1> HIDE DEF new
<1>6. OfOneMoment(new)
  BY <1>1, <1>2, <1>5 DEF OfOneMoment
<1> QED BY <1>4, <1>6 DEF new

(* A transition adds the next version to the run and to the keys.          *)
LEMMA AdvancedMoment ==
  ASSUME NEW old \in Tables, OfOneMoment(old), old.run # Null,
         NEW k \in Keys, old.keys[k] = Null, NEW b \in Branches \cup {Null}
  PROVE  OfOneMoment(Advanced(old, k, b)) /\ Within(old, Advanced(old, k, b))
<1> DEFINE new == Advanced(old, k, b)
           v == old.run.version
<1>1. old.run \in RunRow /\ v \in Nat
  BY DEF Tables, RunRow
<1>2. /\ new.run \in RunRow /\ new.run # Null
      /\ new.run.version = v + 1 /\ new.run.by = k
      /\ new.rows = old.rows
      /\ new.keys = [old.keys EXCEPT ![k] = v + 1]
  BY <1>1, AdvancedFields, AdvanceType, NullAssumption
<1>3. old.keys \in [Keys -> Nat \cup {Null}]
  BY DEF Tables
<1>4. {old.keys[j] : j \in Keys} \ {Null} = 1..v
  BY DEF OfOneMoment
<1>5. v + 1 # Null /\ k # Null
  BY <1>1, NullAssumption
<1>6. \A j \in Keys : new.keys[j] = IF j = k THEN v + 1 ELSE old.keys[j]
  BY <1>2, <1>3
<1>7. \A a \in Attempts : new.rows[a] # Null => new.rows[a].at <= v + 1
  <2> SUFFICES ASSUME NEW a \in Attempts, new.rows[a] # Null
               PROVE  new.rows[a].at <= v + 1
    OBVIOUS
  <2>1. new.rows[a] = old.rows[a]
    BY <1>2
  <2>2. old.rows[a].at <= v /\ old.rows[a].at \in Nat
    BY <2>1 DEF OfOneMoment, Tables, StageRow
  <2> QED BY <2>1, <2>2, <1>1
<1> HIDE DEF new, v
<1>8. {new.keys[j] : j \in Keys} \ {Null} =
        ({old.keys[j] : j \in Keys} \ {Null}) \cup {v + 1}
  BY <1>5, <1>6
<1>9. 1..(v + 1) = (1..v) \cup {v + 1}
  BY <1>1
<1>10. {new.keys[j] : j \in Keys} \ {Null} = 1..(v + 1)
  BY <1>4, <1>8, <1>9
<1>11. new.keys[k] = v + 1
  BY <1>6
<1>12. OfOneMoment(new)
  BY <1>2, <1>5, <1>7, <1>10, <1>11 DEF OfOneMoment
<1>13. Within(old, new)
  BY <1>2, <1>5, <1>6 DEF Within
<1> QED BY <1>12, <1>13 DEF new

(* Whatever a caller writes, the database stays of one moment and grows.   *)
Grows(old, new) == OfOneMoment(old) => OfOneMoment(new) /\ Within(old, new)

(* What a caller leaves is of one moment, and holds all that was there.     *)
LEMMA CallersGrow ==
  ASSUME TypeOK, CreateRun \/ RecordStage \/ \E v : Transition(v)
  PROVE  \E new \in Tables :
           /\ store' = [store EXCEPT ![home] = new]
           /\ Grows(store[home], new)
<1>1. store[home] \in Tables
  BY DEF TypeOK
<1>2. CASE CreateRun
  <2>1. PICK row \in RunRow :
          /\ row.version = 0
          /\ store' = [store EXCEPT ![home] = Created(store[home], row)]
    BY <1>2, CreateStep
  <2>2. store[home].run = Null
    BY <1>2, CreateStep
  <2> QED BY <1>1, <2>1, <2>2, CreatedFields, CreatedMoment DEF Grows
<1>3. CASE RecordStage
  <2>1. PICK a \in Attempts, r \in Recordings :
          /\ store' = [store EXCEPT ![home] = Inserted(store[home], a,
                         Recorded(store[home].rows[a], r, store[home].run.version))]
          /\ Recorded(store[home].rows[a], r, store[home].run.version) \in StageRow
    BY <1>3, RecordStep
  <2> DEFINE row == Recorded(store[home].rows[a], r, store[home].run.version)
  <2>2. row.at = store[home].run.version /\ row \in StageRow
    BY <2>1 DEF Recorded
  <2>3. store[home].run \in RunRow
    BY <1>3, RecordStep
  <2> HIDE DEF row
  <2>4. Grows(store[home], Inserted(store[home], a, row))
    BY <1>1, <2>2, <2>3, InsertedMoment DEF Grows
  <2>5. Inserted(store[home], a, row) \in Tables
    BY <1>1, <2>2, InsertedFields
  <2> QED BY <2>1, <2>4, <2>5 DEF row
<1>4. ASSUME NEW v, Transition(v)
      PROVE  \E new \in Tables :
               /\ store' = [store EXCEPT ![home] = new]
               /\ Grows(store[home], new)
  <2>1. store[home].run # Null
    BY <1>4, TransitionStep, NullAssumption
  <2>2. PICK k \in Keys, b \in Branches \cup {Null} :
          /\ store[home].keys[k] = Null
          /\ store' = [store EXCEPT ![home] = Advanced(store[home], k, b)]
    BY <1>4, TransitionStep
  <2> QED BY <1>1, <2>1, <2>2, AdvancedFields, AdvancedMoment DEF Grows
<1> QED BY <1>2, <1>3, <1>4

(* An upsert of all the rows of a later state leaves that state.           *)
LEMMA OverEarlier ==
  ASSUME NEW old \in Tables, NEW new \in Tables, Within(old, new)
  PROVE  Over(old, new) = new
<1>1. Upserted(old.run, new.run) = new.run
  BY DEF Within, Upserted
<1>2. \A a \in Attempts : Upserted(old.rows[a], new.rows[a]) = new.rows[a]
  BY DEF Within, Upserted
<1>3. \A k \in Keys : Upserted(old.keys[k], new.keys[k]) = new.keys[k]
  BY DEF Within, Upserted
<1>4. /\ new = [run |-> new.run, rows |-> new.rows, keys |-> new.keys]
      /\ new.rows = [a \in Attempts |-> new.rows[a]]
      /\ new.keys = [k \in Keys |-> new.keys[k]]
  BY DEF Tables
<1> QED BY <1>1, <1>2, <1>3, <1>4 DEF Over

(* What a moment held, every later one holds.                               *)
LEMMA WithinTransitive ==
  ASSUME NEW a, NEW b, NEW c, Within(a, b), Within(b, c)
  PROVE  Within(a, c)
BY DEF Within

(* What the steps of a resumer, other than its transition, leave alone.    *)
LEMMA ResumersStep ==
  ASSUME NEW p \in Resumers,
         ReadRun(p) \/ ReadCheckpoint(p) \/ ReadBoth(p) \/ GiveUp(p)
  PROVE  UNCHANGED <<store, home, copy, clock, reused, gap, overtaken>>
BY DEF ReadRun, ReadCheckpoint, ReadBoth, GiveUp

(* A step of Next is a caller's, a resumer's, the migration's or the switch.*)
CallerStep ==
  /\ CreateRun \/ RecordStage \/ \E v : Transition(v)
  /\ UNCHANGED <<home, copy, gap, overtaken>>

QuietStep == UNCHANGED <<store, home, copy, clock, reused, gap, overtaken>>

(* Every step is a caller's, quiet, a step of the migration or the switch.  *)
LEMMA StepsByKind ==
  ASSUME [Next]_vars
  PROVE  \/ CallerStep \/ QuietStep
         \/ CopyRun \/ CopyRows \/ CopyKeys \/ CommitCopy \/ AbandonCopy
         \/ Switch
<1>1. AdvanceRun => CallerStep
  BY DEF AdvanceRun, CallerStep
<1>2. \A p \in Resumers : Continue(p) => CallerStep
  BY DEF Continue, CallerStep
<1>3. CreateRun \/ RecordStage => CallerStep
  BY DEF CreateRun, RecordStage, CallerStep
<1>4. UNCHANGED vars => QuietStep
  BY DEF vars, QuietStep
<1>5. \A p \in Resumers :
        ReadRun(p) \/ ReadCheckpoint(p) \/ ReadBoth(p) \/ GiveUp(p) => QuietStep
  BY ResumersStep DEF QuietStep
<1> QED BY <1>1, <1>2, <1>3, <1>4, <1>5 DEF Next

(* Two databases that agree in every table are the same.                   *)
LEMMA SameFields ==
  ASSUME NEW x \in Tables, NEW y \in Tables,
         x.run = y.run, x.rows = y.rows, x.keys = y.keys
  PROVE  x = y
<1>1. x = [run |-> x.run, rows |-> x.rows, keys |-> x.keys]
  BY DEF Tables
<1>2. y = [run |-> y.run, rows |-> y.rows, keys |-> y.keys]
  BY DEF Tables
<1>3. [run |-> x.run, rows |-> x.rows, keys |-> x.keys] =
        [run |-> y.run, rows |-> y.rows, keys |-> y.keys]
  BY Zenon
<1> QED BY <1>1, <1>2, <1>3, Zenon

(* Before the switch, what a migration commits is the snapshot it read.    *)
LEMMA CommitsSnapshot ==
  ASSUME TypeOK, MomentInv, CommitCopy, home = "mysql"
  PROVE  store'["postgres"] = copy.snapshot
<1>1. /\ store \in [{"mysql", "postgres"} -> Tables]
      /\ copy.snapshot \in Tables /\ copy.staged \in Tables
  BY DEF TypeOK, Stores
<1>2. /\ copy.done = 3
      /\ store'["postgres"] = Over(store["postgres"], copy.staged)
  BY <1>1 DEF CommitCopy
<1>3. copy.staged = copy.snapshot
  <2>1. /\ copy.staged.run = copy.snapshot.run
        /\ copy.staged.rows = copy.snapshot.rows
        /\ copy.staged.keys = copy.snapshot.keys
    BY <1>2 DEF MomentInv, StagedInv
  <2> QED BY <1>1, <2>1, SameFields, Zenon
<1> QED BY <1>1, <1>2, <1>3, OverEarlier DEF MomentInv

(* Empty databases are of one moment.                                       *)
LEMMA MomentInit == Init => MomentInv
<1> SUFFICES ASSUME Init PROVE MomentInv
  OBVIOUS
<1>1. OfOneMoment(NoRows)
  BY DEF OfOneMoment, NoRows
<1>2. Within(NoRows, NoRows)
  BY DEF Within
<1> QED BY <1>1, <1>2
        DEF Init, MomentInv, StoresAreOfOneMoment, StagedInv, NoCopy, Stores

(* No step mixes rows of two moments in a database.                         *)
LEMMA MomentStep == TypeOK /\ MomentInv /\ [Next]_vars => MomentInv'
<1> SUFFICES ASSUME TypeOK, MomentInv, [Next]_vars
             PROVE  MomentInv'
  OBVIOUS
<1> USE DEF Stores
<1>1. /\ store["mysql"] \in Tables /\ store["postgres"] \in Tables
      /\ home \in {"mysql", "postgres"} /\ overtaken \in BOOLEAN
      /\ copy.done \in 0..3 /\ copy.snapshot \in Tables /\ copy.staged \in Tables
      /\ store \in [{"mysql", "postgres"} -> Tables]
      /\ copy \in [done : 0..3, snapshot : Tables, staged : Tables]
  BY DEF TypeOK
<1>2. CASE CallerStep
  <2>1. PICK new \in Tables :
          store' = [store EXCEPT ![home] = new] /\ Grows(store[home], new)
    BY <1>2, CallersGrow DEF CallerStep
  <2>2. UNCHANGED <<home, copy, overtaken>>
    BY <1>2 DEF CallerStep
  <2>3. CASE home = "mysql"
    <3>1. store'["mysql"] = new /\ store'["postgres"] = store["postgres"]
      BY <1>1, <2>1, <2>3
    <3>2. OfOneMoment(new) /\ Within(store["mysql"], new)
      BY <2>1, <2>3 DEF Grows, MomentInv, StoresAreOfOneMoment
    <3>3. Within(store["postgres"], new)
      BY <3>2, <2>3, WithinTransitive DEF MomentInv
    <3>4. copy.done # 0 => Within(copy.snapshot, new)
      BY <3>2, <2>3, WithinTransitive DEF MomentInv
    <3> QED BY <2>2, <2>3, <3>1, <3>2, <3>3, <3>4
            DEF MomentInv, StoresAreOfOneMoment, StagedInv
  <2>4. CASE home = "postgres"
    <3>1. store'["postgres"] = new /\ store'["mysql"] = store["mysql"]
      BY <1>1, <2>1, <2>4
    <3>2. ~overtaken => OfOneMoment(new)
      BY <2>1, <2>4 DEF Grows, MomentInv, StoresAreOfOneMoment
    <3> QED BY <2>2, <2>4, <3>1, <3>2
            DEF MomentInv, StoresAreOfOneMoment, StagedInv
  <2> QED BY <1>1, <2>3, <2>4
<1>3. CASE QuietStep
  BY <1>3 DEF QuietStep, MomentInv, StoresAreOfOneMoment, StagedInv
<1>4. CASE CopyRun
  <2>1. /\ copy'.done = 1 /\ copy'.snapshot = store["mysql"]
        /\ copy'.staged.run = store["mysql"].run
    BY <1>4 DEF CopyRun, CopySource, NoRows
  <2>2. UNCHANGED <<store, home, overtaken>>
    BY <1>4 DEF CopyRun
  <2>3. Within(store["mysql"], store["mysql"])
    BY DEF Within
  <2> QED BY <2>1, <2>2, <2>3 DEF MomentInv, StoresAreOfOneMoment, StagedInv
<1>5. CASE CopyRows
  <2>1. /\ copy.done = 1 /\ copy'.done = 2 /\ copy'.snapshot = copy.snapshot
        /\ copy'.staged.run = copy.staged.run
        /\ copy'.staged.rows = copy.snapshot.rows
    BY <1>1, <1>5 DEF CopyRows, CopySource, Tables
  <2>2. UNCHANGED <<store, home, overtaken>>
    BY <1>5 DEF CopyRows
  <2> QED BY <2>1, <2>2 DEF MomentInv, StoresAreOfOneMoment, StagedInv
<1>6. CASE CopyKeys
  <2>1. /\ copy.done = 2 /\ copy'.done = 3 /\ copy'.snapshot = copy.snapshot
        /\ copy'.staged.run = copy.staged.run
        /\ copy'.staged.rows = copy.staged.rows
        /\ copy'.staged.keys = copy.snapshot.keys
    BY <1>1, <1>6 DEF CopyKeys, CopySource, Tables
  <2>2. UNCHANGED <<store, home, overtaken>>
    BY <1>6 DEF CopyKeys
  <2> QED BY <2>1, <2>2 DEF MomentInv, StoresAreOfOneMoment, StagedInv
<1>7. CASE CommitCopy
  <2>1. /\ copy.done = 3 /\ copy'.done = 0
        /\ store'["mysql"] = store["mysql"]
        /\ overtaken' = (overtaken \/ home = "postgres")
        /\ home' = home
    BY <1>1, <1>7 DEF CommitCopy, NoCopy
  <2>3. home = "mysql" => store'["postgres"] = copy.snapshot
    BY <1>7, CommitsSnapshot
  <2>4. CASE home = "mysql"
    <3>1. ~overtaken /\ ~overtaken'
      BY <2>1, <2>4 DEF MomentInv
    <3>2. OfOneMoment(copy.snapshot) /\ Within(copy.snapshot, store["mysql"])
      BY <2>1, <2>4 DEF MomentInv
    <3> QED BY <2>1, <2>3, <2>4, <3>1, <3>2
            DEF MomentInv, StoresAreOfOneMoment, StagedInv
  <2>5. CASE home = "postgres"
    <3>1. overtaken'
      BY <2>1, <2>5
    <3> QED BY <2>1, <2>5, <3>1 DEF MomentInv, StoresAreOfOneMoment, StagedInv
  <2> QED BY <1>1, <2>4, <2>5
<1>8. CASE AbandonCopy
  BY <1>8 DEF AbandonCopy, NoCopy, MomentInv, StoresAreOfOneMoment, StagedInv
<1>9. CASE Switch
  BY <1>9 DEF Switch, MomentInv, StoresAreOfOneMoment, StagedInv
<1> QED
  BY <1>2, <1>3, <1>4, <1>5, <1>6, <1>7, <1>8, <1>9, StepsByKind

(***************************************************************************)
(* Each database is of one moment, however the copies of its tables and    *)
(* the writes of its callers interleave; PostgreSQL only until a migration *)
(* commits over its own callers' work (overtaken).                         *)
(***************************************************************************)
THEOREM DatabasesOfOneMoment == Spec => []StoresAreOfOneMoment
<1>1. Init => TypeOK /\ HoldsRun /\ MomentInv
  BY TypeInit, MomentInit
<1>2. TypeOK /\ HoldsRun /\ MomentInv /\ [Next]_vars
        => TypeOK' /\ HoldsRun' /\ MomentInv'
  BY TypeStep, MomentStep
<1>3. MomentInv => StoresAreOfOneMoment
  BY DEF MomentInv
<1> QED BY <1>1, <1>2, <1>3, PTL DEF Spec

-----------------------------------------------------------------------------
(* Attempts in turn. *)

(* The order of the attempts does not depend on the time it is read.        *)
LEMMA InTurnLater ==
  ASSUME NEW rows \in [Attempts -> StageRow \cup {Null}],
         NEW c \in Nat, InTurn(rows, c)
  PROVE  InTurn(rows, c + 1)
<1> SUFFICES ASSUME NEW a \in Attempts, rows[a] # Null
             PROVE  rows[a].written <= c + 1
  BY DEF InTurn
<1>1. rows[a].written \in Nat /\ rows[a].written <= c
  BY DEF InTurn, StageRow
<1> QED BY <1>1

(* Recording a new attempt, or again the one begun last, keeps the turns.  *)
LEMMA InTurnRecorded ==
  ASSUME NEW rows \in [Attempts -> StageRow \cup {Null}], clock \in Nat,
         InTurn(rows, clock), NEW a \in Attempts, NEW r \in Recordings,
         NEW v \in Nat, rows[a] = Null \/ IsLatest(rows, a)
  PROVE  InTurn([rows EXCEPT ![a] = Recorded(rows[a], r, v)], clock + 1)
<1> DEFINE row == Recorded(rows[a], r, v)
           new == [rows EXCEPT ![a] = row]
<1> SUFFICES InTurn(new, clock + 1)
  OBVIOUS
<1>1. row \in StageRow
  BY RecordedType
<1>2. /\ row.written = clock + 1
      /\ rows[a] = Null => row.created = clock + 1
      /\ rows[a] # Null => row.created = rows[a].created
  BY DEF Recorded
<1> HIDE DEF row
<1>3. \A b \in Attempts : new[b] = IF b = a THEN row ELSE rows[b]
  OBVIOUS
<1>4. \A b \in Attempts : rows[b] # Null =>
        rows[b].created \in Nat /\ rows[b].written \in Nat
  BY DEF StageRow
<1>5. row.created \in Nat /\ row.created <= clock + 1
  BY <1>1, <1>2, <1>4 DEF InTurn, StageRow
<1>6. ASSUME NEW b \in Attempts, b # a, rows[b] # Null
      PROVE  rows[b].written < row.created
  <2>1. rows[b].written <= clock
    BY <1>6 DEF InTurn
  <2>2. CASE rows[a] = Null
    BY <2>1, <2>2, <1>2, <1>4, <1>6
  <2>3. CASE rows[a] # Null
    <3>1. rows[b].created <= rows[a].created
      BY <2>3, <1>6 DEF IsLatest
    <3>2. rows[a].created <= rows[a].written
      BY <2>3 DEF InTurn
    <3>3. rows[a].written < rows[b].created \/ rows[b].written < rows[a].created
      BY <2>3, <1>6 DEF InTurn
    <3> QED BY <3>1, <3>2, <3>3, <2>3, <1>2, <1>4, <1>6
  <2> QED BY <2>2, <2>3
<1>7. ASSUME NEW b \in Attempts, new[b] # Null
      PROVE  /\ new[b].created <= new[b].written
             /\ new[b].written <= clock + 1
             /\ \A d \in Attempts : new[d] # Null /\ b # d =>
                  \/ new[b].written < new[d].created
                  \/ new[d].written < new[b].created
  <2>1. CASE b = a
    BY <2>1, <1>2, <1>3, <1>5, <1>6
  <2>2. CASE b # a
    <3>1. /\ new[b] = rows[b]
          /\ rows[b].created <= rows[b].written
          /\ rows[b].written <= clock
      BY <2>2, <1>3, <1>7 DEF InTurn
    <3>2. ASSUME NEW d \in Attempts, new[d] # Null, b # d
          PROVE  \/ new[b].written < new[d].created
                 \/ new[d].written < new[b].created
      <4>1. CASE d = a
        BY <4>1, <2>2, <3>1, <1>3, <1>6, <1>7
      <4>2. CASE d # a
        BY <4>2, <2>2, <3>1, <3>2, <1>3, <1>7 DEF InTurn
      <4> QED BY <4>1, <4>2
    <3> QED BY <3>1, <3>2, <1>4, <1>7
  <2> QED BY <2>1, <2>2
<1> QED BY <1>7 DEF InTurn

(* Empty tables are in order.                                               *)
LEMMA OrderInit == Init => OrderInv
BY DEF Init, OrderInv, InTurn, NoRows, NoCopy, Stores

(* Without an attempt recorded out of its turn the tables stay in order.    *)
LEMMA OrderStep == TypeOK /\ MomentInv /\ OrderInv /\ [Next]_vars => OrderInv'
<1> SUFFICES ASSUME TypeOK, MomentInv, OrderInv, [Next]_vars, ~reused'
             PROVE  /\ InTurn(store'["mysql"].rows, clock')
                    /\ ~overtaken' => InTurn(store'["postgres"].rows, clock')
                    /\ copy'.done # 0 => InTurn(copy'.snapshot.rows, clock')
  BY DEF OrderInv
<1>1. /\ store \in [{"mysql", "postgres"} -> Tables]
      /\ home \in {"mysql", "postgres"}
      /\ copy \in [done : 0..3, snapshot : Tables, staged : Tables]
      /\ clock \in Nat
      /\ reused \in BOOLEAN /\ overtaken \in BOOLEAN
  BY BoundsAssumption DEF TypeOK, Stores
<1>2. /\ store["mysql"].rows \in [Attempts -> StageRow \cup {Null}]
      /\ store["postgres"].rows \in [Attempts -> StageRow \cup {Null}]
      /\ copy.snapshot.rows \in [Attempts -> StageRow \cup {Null}]
      /\ store[home].rows \in [Attempts -> StageRow \cup {Null}]
  BY <1>1 DEF Tables
<1>3. ~reused => /\ InTurn(store["mysql"].rows, clock)
                 /\ ~overtaken => InTurn(store["postgres"].rows, clock)
                 /\ copy.done # 0 => InTurn(copy.snapshot.rows, clock)
  BY DEF OrderInv
<1>4. CASE UNCHANGED <<reused, clock, overtaken, copy>>
           /\ store'["mysql"].rows = store["mysql"].rows
           /\ store'["postgres"].rows = store["postgres"].rows
  BY <1>3, <1>4
<1>5. CASE CreateRun
  <2>1. PICK row \in RunRow :
          store' = [store EXCEPT ![home] = Created(store[home], row)]
    BY <1>5, CreateStep
  <2>2. Created(store[home], row).rows = store[home].rows
    BY <1>1, CreatedFields
  <2> QED BY <1>1, <1>4, <1>5, <2>1, <2>2 DEF CreateRun
<1>6. ASSUME NEW v, Transition(v)
      PROVE  /\ store'["mysql"].rows = store["mysql"].rows
             /\ store'["postgres"].rows = store["postgres"].rows
  <2>1. store[home].run # Null
    BY <1>6, TransitionStep, NullAssumption
  <2>2. PICK k \in Keys, b \in Branches \cup {Null} :
          store' = [store EXCEPT ![home] = Advanced(store[home], k, b)]
    BY <1>6, TransitionStep
  <2>3. Advanced(store[home], k, b).rows = store[home].rows
    <3>1. store[home] \in Tables
      BY <1>1
    <3> QED BY <2>1, <3>1, AdvancedFields
  <2> QED BY <1>1, <2>2, <2>3
<1>7. CASE AdvanceRun
  BY <1>7, <1>6, <1>4 DEF AdvanceRun
<1>8. CASE \E p \in Resumers : Continue(p)
  BY <1>8, <1>6, <1>4 DEF Continue
<1>9. CASE RecordStage
  <2>1. PICK a \in Attempts, r \in Recordings :
          /\ store' = [store EXCEPT ![home] = Inserted(store[home], a,
                         Recorded(store[home].rows[a], r, store[home].run.version))]
          /\ Recorded(store[home].rows[a], r, store[home].run.version) \in StageRow
          /\ reused' = (reused \/ (store[home].rows[a] # Null
                                     /\ ~IsLatest(store[home].rows, a)))
    BY <1>9, RecordStep
  <2>2. /\ ~reused
        /\ store[home].rows[a] = Null \/ IsLatest(store[home].rows, a)
    BY <1>1, <2>1
  <2>3. /\ clock' = clock + 1 /\ copy' = copy /\ overtaken' = overtaken
        /\ home' = home
    BY <1>9 DEF RecordStage
  <2>4. store[home].run.version \in Nat
    BY <1>9, RecordStep DEF RunRow
  <2>5. store'[home].rows = [store[home].rows EXCEPT ![a] =
          Recorded(store[home].rows[a], r, store[home].run.version)]
    <3>1. store[home] \in Tables
      BY <1>1
    <3> QED BY <1>1, <2>1, <3>1, InsertedFields
  <2>6. InTurn(store[home].rows, clock) => InTurn(store'[home].rows, clock + 1)
    BY <1>1, <1>2, <2>2, <2>4, <2>5, InTurnRecorded
  <2>7. /\ InTurn(store["mysql"].rows, clock) => InTurn(store["mysql"].rows, clock + 1)
        /\ InTurn(store["postgres"].rows, clock) => InTurn(store["postgres"].rows, clock + 1)
        /\ InTurn(copy.snapshot.rows, clock) => InTurn(copy.snapshot.rows, clock + 1)
    BY <1>1, <1>2, InTurnLater
  <2>8. CASE home = "mysql"
    <3>1. store'["postgres"] = store["postgres"]
      BY <1>1, <2>1, <2>8
    <3> QED BY <1>3, <2>2, <2>3, <2>6, <2>7, <2>8, <3>1
  <2>9. CASE home = "postgres"
    <3>1. store'["mysql"] = store["mysql"]
      BY <1>1, <2>1, <2>9
    <3> QED BY <1>3, <2>2, <2>3, <2>6, <2>7, <2>9, <3>1
  <2> QED BY <1>1, <2>8, <2>9
<1>10. CASE \E p \in Resumers :
              ReadRun(p) \/ ReadCheckpoint(p) \/ ReadBoth(p) \/ GiveUp(p)
  BY <1>10, <1>4, ResumersStep
<1>11. CASE CopyRun
  <2>1. copy'.snapshot = store["mysql"]
    BY <1>11 DEF CopyRun, CopySource
  <2> QED BY <1>3, <1>11, <2>1 DEF CopyRun
<1>12. CASE CopyRows \/ CopyKeys
  <2>1. CopyRows => copy'.snapshot = copy.snapshot /\ copy.done # 0
    BY <1>1 DEF CopyRows
  <2>2. CopyKeys => copy'.snapshot = copy.snapshot /\ copy.done # 0
    BY <1>1 DEF CopyKeys
  <2> QED BY <1>3, <1>12, <2>1, <2>2 DEF CopyRows, CopyKeys
<1>13. CASE CommitCopy
  <2>1. /\ copy.done = 3 /\ copy'.done = 0
        /\ store'["mysql"] = store["mysql"]
        /\ clock' = clock /\ reused' = reused
        /\ overtaken' = (overtaken \/ home = "postgres")
    BY <1>1, <1>13 DEF CommitCopy, NoCopy
  <2>2. CASE home = "mysql"
    <3>1. store'["postgres"] = copy.snapshot
      BY <1>13, <2>2, CommitsSnapshot
    <3> QED BY <1>3, <2>1, <3>1
  <2>3. CASE home = "postgres"
    BY <1>3, <2>1, <2>3
  <2> QED BY <1>1, <2>2, <2>3
<1>14. CASE AbandonCopy
  <2>1. copy'.done = 0
    BY <1>14 DEF AbandonCopy, NoCopy
  <2> QED BY <1>3, <1>14, <2>1 DEF AbandonCopy
<1>15. CASE Switch
  BY <1>15, <1>4 DEF Switch
<1>16. CASE UNCHANGED vars
  BY <1>16, <1>4 DEF vars
<1> QED
  BY <1>5, <1>7, <1>8, <1>9, <1>10, <1>11, <1>12, <1>13, <1>14, <1>15, <1>16
     DEF Next

(* Of attempts recorded in turn, the newest verified one was written last. *)
LEMMA NewestWrittenLast ==
  ASSUME NEW rows \in [Attempts -> StageRow \cup {Null}], NEW now,
         InTurn(rows, now), NEW a \in Newest(rows), NEW b \in Verified(rows)
  PROVE  rows[a].verified /\ rows[b].written <= rows[a].written
<1>1. /\ a \in Attempts /\ rows[a] # Null /\ rows[a].verified
      /\ b \in Attempts /\ rows[b] # Null
      /\ NotBefore(rows, a, b)
  BY DEF Newest, Verified
<1>2. /\ rows[a].created \in Nat /\ rows[a].written \in Nat
      /\ rows[b].created \in Nat /\ rows[b].written \in Nat
  BY <1>1 DEF StageRow
<1>3. rows[b].created <= rows[a].created
  BY <1>1, <1>2 DEF NotBefore
<1>4. rows[a].created <= rows[a].written
  BY <1>1 DEF InTurn
<1>5. CASE a = b
  BY <1>1, <1>2, <1>5
<1>6. CASE a # b
  <2>1. rows[a].written < rows[b].created \/ rows[b].written < rows[a].created
    BY <1>1, <1>6 DEF InTurn
  <2> QED BY <1>1, <1>2, <1>3, <1>4, <2>1
<1> QED BY <1>5, <1>6

(***************************************************************************)
(* The checkpoint that resume takes is the verified attempt written last,  *)
(* as long as attempts are recorded in turn (not reused) and no migration  *)
(* has committed over PostgreSQL's own (overtaken).                        *)
(***************************************************************************)
THEOREM ResumesFromTheLastVerified == Spec => ResumesFromLastVerified
<1> DEFINE Goal ==
      \A p \in Resumers :
        /\ resume'[p].pc = "granted"
        /\ resume[p].pc # "granted"
        /\ ~reused /\ ~overtaken
        => LET rows == store[resume'[p].store].rows
           IN /\ rows[resume'[p].attempt].verified
              /\ \A a \in Verified(rows) :
                   rows[a].written <= rows[resume'[p].attempt].written
<1>1. TypeOK /\ HoldsRun /\ OrderInv /\ [Next]_vars => [Goal]_vars
  <2> SUFFICES ASSUME TypeOK, HoldsRun, OrderInv, [Next]_vars,
                      NEW p \in Resumers, resume'[p].pc = "granted",
                      resume[p].pc # "granted", ~reused, ~overtaken
               PROVE  LET rows == store[resume'[p].store].rows
                      IN /\ rows[resume'[p].attempt].verified
                         /\ \A a \in Verified(rows) :
                              rows[a].written <= rows[resume'[p].attempt].written
    OBVIOUS
  <2>1. ReadCheckpoint(p) \/ ReadBoth(p)
    <3>1. resume \in [Resumers -> [pc : {"idle", "read", "granted"}, store : Stores,
                        run : RunRow \cup {Null}, attempt : Attempts \cup {Null},
                        checkpoint : StageRow \cup {Null}]]
      BY DEF TypeOK
    <3>2. resume' # resume
      OBVIOUS
    <3>3. ASSUME NEW q \in Resumers, ReadRun(q) \/ GiveUp(q) \/ Continue(q)
          PROVE  FALSE
      BY <3>1, <3>3 DEF ReadRun, GiveUp, Continue, Idle
    <3>4. ASSUME NEW q \in Resumers, ReadCheckpoint(q) \/ ReadBoth(q)
          PROVE  p = q
      BY <3>1, <3>4 DEF ReadCheckpoint, ReadBoth, Grant
    <3> QED BY <3>2, <3>3, <3>4
            DEF Next, vars, CreateRun, RecordStage, AdvanceRun, CopyRun,
                CopyRows, CopyKeys, CommitCopy, AbandonCopy, Switch
  <2>2. ReadCheckpoint(p) => resume[p].run # Null
    BY DEF ReadCheckpoint, HoldsRun
  <2>3. PICK run \in RunRow, a \in Newest(store[home].rows) :
          /\ a \in Attempts
          /\ store[home].rows[a] \in StageRow
          /\ Grant(p, run, a, store[home].rows[a])
    BY <2>1, <2>2, ReadStep
  <2>4. resume'[p].store = home /\ resume'[p].attempt = a
    BY <2>3, GrantStep DEF TypeOK
  <2>5. /\ store[home].rows \in [Attempts -> StageRow \cup {Null}]
        /\ InTurn(store[home].rows, clock)
    BY DEF TypeOK, Tables, Stores, OrderInv
  <2>6. /\ store[home].rows[a].verified
        /\ \A b \in Verified(store[home].rows) :
             store[home].rows[b].written <= store[home].rows[a].written
    <3>1. a \in Verified(store[home].rows)
      BY DEF Newest
    <3> QED BY <2>5, <3>1, NewestWrittenLast
  <2> QED BY <2>4, <2>6
<1>2. Init => TypeOK /\ HoldsRun /\ MomentInv /\ OrderInv
  BY TypeInit, MomentInit, OrderInit
<1>3. TypeOK /\ HoldsRun /\ MomentInv /\ OrderInv /\ [Next]_vars
        => TypeOK' /\ HoldsRun' /\ MomentInv' /\ OrderInv'
  BY TypeStep, MomentStep, OrderStep
<1>4. ResumesFromLastVerified <=> [][Goal]_vars
  BY DEF ResumesFromLastVerified
<1> HIDE DEF Goal
<1> QED BY <1>1, <1>2, <1>3, <1>4, PTL DEF Spec

-----------------------------------------------------------------------------
(* What a resumer holds. *)

(* The run row a caller leaves is the one it found, or a later version.    *)
LEMMA CallersAdvance ==
  ASSUME TypeOK, CreateRun \/ RecordStage \/ \E v : Transition(v)
  PROVE  /\ \A s \in Stores : s # home => store'[s] = store[s]
         /\ store[home].run # Null =>
              /\ store'[home].run # Null
              /\ store'[home].run.version \in Nat
              /\ \/ store'[home].run = store[home].run
                 \/ store'[home].run.version > store[home].run.version
<1>1. /\ store \in [Stores -> Tables] /\ home \in Stores
      /\ store[home] \in Tables
      /\ store[home].run # Null => store[home].run \in RunRow
                                     /\ store[home].run.version \in Nat
  BY DEF TypeOK, Tables, RunRow
<1>2. CASE CreateRun
  BY <1>1, <1>2, CreateStep
<1>3. CASE RecordStage
  <2>1. PICK a \in Attempts, row \in StageRow :
          store' = [store EXCEPT ![home] = Inserted(store[home], a, row)]
    BY <1>3, RecordStep
  <2>2. Inserted(store[home], a, row).run = store[home].run
    BY <1>1, InsertedFields
  <2> QED BY <1>1, <2>1, <2>2
<1>4. ASSUME NEW v, Transition(v)
      PROVE  /\ \A s \in Stores : s # home => store'[s] = store[s]
             /\ store'[home].run # Null
             /\ store'[home].run.version \in Nat
             /\ store'[home].run.version > store[home].run.version
  <2>1. store[home].run # Null /\ store[home].run \in RunRow
    BY <1>4, TransitionStep, NullAssumption
  <2>2. PICK k \in Keys, b \in Branches \cup {Null} :
          store' = [store EXCEPT ![home] = Advanced(store[home], k, b)]
    BY <1>4, TransitionStep
  <2>3. Advanced(store[home], k, b).run = Advance(store[home].run, k, b)
    BY <1>1, <2>1, AdvancedFields, Zenon
  <2>4. /\ Advance(store[home].run, k, b) \in RunRow
        /\ Advance(store[home].run, k, b).version = store[home].run.version + 1
    BY <2>1, AdvanceType, Zenon
  <2>5. /\ store'[home] = Advanced(store[home], k, b)
        /\ \A s \in Stores : s # home => store'[s] = store[s]
    BY <1>1, <2>2
  <2>6. store[home].run.version \in Nat
    BY <1>1, <2>1
  <2> QED BY <2>3, <2>4, <2>5, <2>6, NullAssumption
<1> QED BY <1>2, <1>3, <1>4

(* A run that was read stays behind or equal.                              *)
LEMMA TracksLater ==
  ASSUME NEW read \in RunRow, NEW old \in Tables, NEW new, Tracks(read, old),
         new.run # Null, new.run.version \in Nat,
         new.run = old.run \/ new.run.version > old.run.version
  PROVE  Tracks(read, new) /\ old.run.version <= new.run.version
<1>1. old.run # Null /\ old.run \in RunRow /\ old.run.version \in Nat
      /\ read.version \in Nat
  BY DEF Tracks, Tables, RunRow
<1> QED BY <1>1 DEF Tracks

(* At first no resumer holds anything.                                      *)
LEMMA TrackInit == Init => TrackInv
BY DEF Init, TrackInv, Followed, Idle

(* What a resumer holds stays behind the run, or is as the run is.          *)
LEMMA TrackStep ==
  TypeOK /\ MomentInv /\ TrackInv /\ [Next]_vars => TrackInv'
<1> SUFFICES ASSUME TypeOK, MomentInv, TrackInv, [Next]_vars
             PROVE  TrackInv'
  OBVIOUS
<1> DEFINE Held(p) ==
      /\ home = "mysql" => resume[p].pc # "read" /\ resume[p].store = "mysql"
      /\ resume[p].pc = "read" => resume[p].store = home
      /\ resume[p].pc # "idle" => resume[p].run # Null
      /\ resume[p].pc = "granted" =>
           /\ resume[p].checkpoint # Null
           /\ resume[p].run.named =>
                resume[p].checkpoint.branch = resume[p].run.branch
      /\ Followed(p) =>
           /\ Tracks(resume[p].run, store[home])
           /\ resume[p].pc = "granted" =>
                resume[p].checkpoint.at <= store[home].run.version
<1>0. TrackInv <=> \A p \in Resumers : Held(p)
  BY DEF TrackInv
<1>1. /\ store \in [Stores -> Tables] /\ home \in Stores /\ store[home] \in Tables
      /\ resume \in [Resumers -> [pc : {"idle", "read", "granted"}, store : Stores,
                        run : RunRow \cup {Null}, attempt : Attempts \cup {Null},
                        checkpoint : StageRow \cup {Null}]]
      /\ overtaken \in BOOLEAN /\ gap \in BOOLEAN
  BY DEF TypeOK
<1>2. ASSUME NEW p \in Resumers, CallerStep, resume'[p] = resume[p]
      PROVE  Held(p)'
  <2>1. UNCHANGED <<home, copy, gap, overtaken>>
    BY <1>2 DEF CallerStep
  <2>2. Followed(p)' <=> Followed(p)
    BY <1>2, <2>1 DEF Followed
  <2>3. ASSUME Followed(p)
        PROVE  /\ Tracks(resume[p].run, store'[home])
               /\ resume[p].pc = "granted" =>
                    resume[p].checkpoint.at <= store'[home].run.version
    <3>1. /\ Tracks(resume[p].run, store[home])
          /\ resume[p].pc = "granted" =>
               /\ resume[p].checkpoint.at <= store[home].run.version
               /\ resume[p].checkpoint # Null
          /\ resume[p].run # Null
      BY <2>3, <1>0 DEF Followed
    <3>2. /\ store'[home].run # Null /\ store'[home].run.version \in Nat
          /\ \/ store'[home].run = store[home].run
             \/ store'[home].run.version > store[home].run.version
      BY <1>2, <3>1, CallersAdvance DEF CallerStep, Tracks
    <3>3. resume[p].run \in RunRow
      BY <1>1, <3>1
    <3>4. /\ Tracks(resume[p].run, store'[home])
          /\ store[home].run.version <= store'[home].run.version
      BY <1>1, <3>1, <3>2, <3>3, TracksLater
    <3>5. resume[p].pc = "granted" => resume[p].checkpoint.at \in Nat
      BY <1>1, <3>1 DEF StageRow
    <3>6. store[home].run.version \in Nat
      BY <1>1, <3>1 DEF Tracks, Tables, RunRow
    <3> QED BY <3>1, <3>2, <3>4, <3>5, <3>6
  <2> QED BY <1>2, <2>1, <2>2, <2>3, <1>0
<1>3. CASE CreateRun \/ RecordStage \/ AdvanceRun
  <2>1. CallerStep /\ resume' = resume
    BY <1>3 DEF CreateRun, RecordStage, AdvanceRun, CallerStep
  <2>2. \A p \in Resumers : Held(p)'
    BY <2>1, <1>2
  <2> QED BY <2>2 DEF TrackInv
<1>4. ASSUME NEW p \in Resumers, resume'[p] = Idle
      PROVE  Held(p)'
  BY <1>4 DEF Idle, Followed
<1>5. ASSUME NEW p \in Resumers, Continue(p)
      PROVE  TrackInv'
  <2>1. CallerStep /\ resume' = [resume EXCEPT ![p] = Idle]
    BY <1>5 DEF Continue, CallerStep
  <2>2. ASSUME NEW q \in Resumers PROVE Held(q)'
    BY <2>1, <1>1, <1>2, <1>4
  <2> QED BY <2>2 DEF TrackInv
<1>6. ASSUME NEW p \in Resumers, QuietStep, resume'[p] = resume[p]
      PROVE  Held(p)'
  BY <1>6, <1>0 DEF QuietStep, Followed
<1>7. ASSUME NEW p \in Resumers, GiveUp(p)
      PROVE  TrackInv'
  <2>1. QuietStep /\ resume' = [resume EXCEPT ![p] = Idle]
    BY <1>7 DEF GiveUp, QuietStep
  <2>2. ASSUME NEW q \in Resumers PROVE Held(q)'
    BY <2>1, <1>1, <1>4, <1>6
  <2> QED BY <2>2 DEF TrackInv
<1>8. ASSUME NEW p \in Resumers, ReadRun(p)
      PROVE  TrackInv'
  <2>1. /\ QuietStep
        /\ resume' = [resume EXCEPT ![p] =
                        [pc |-> "read", store |-> home, run |-> store[home].run,
                         attempt |-> Null, checkpoint |-> Null]]
        /\ home = "postgres" /\ store[home].run # Null
    BY <1>8 DEF ReadRun, QuietStep
  <2>2. store[home].run.version \in Nat
    BY <1>1, <2>1 DEF Tables, RunRow
  <2>3. Held(p)'
    <3>1. resume'[p] = [pc |-> "read", store |-> home, run |-> store[home].run,
                        attempt |-> Null, checkpoint |-> Null]
      BY <1>1, <2>1
    <3>2. home' = home /\ store' = store
      BY <2>1 DEF QuietStep
    <3>3. Tracks(store[home].run, store[home])
      BY <2>1, <2>2 DEF Tracks
    <3> QED BY <2>1, <3>1, <3>2, <3>3
  <2>4. ASSUME NEW q \in Resumers PROVE Held(q)'
    BY <2>1, <2>3, <1>1, <1>6
  <2> QED BY <2>4 DEF TrackInv
<1>9. ASSUME NEW p \in Resumers, ReadCheckpoint(p) \/ ReadBoth(p)
      PROVE  TrackInv'
  <2>1. QuietStep
    BY <1>9, ResumersStep DEF QuietStep
  <2>2. ReadCheckpoint(p) => resume[p].run # Null
    BY <1>0 DEF ReadCheckpoint
  <2>3. PICK run \in RunRow, a \in Newest(store[home].rows) :
          /\ run = IF resume[p].pc = "read" THEN resume[p].run ELSE store[home].run
          /\ a \in Attempts
          /\ store[home].rows[a] \in StageRow
          /\ Grant(p, run, a, store[home].rows[a])
    BY <1>9, <2>2, ReadStep
  <2> DEFINE c == store[home].rows[a]
  <2>4. /\ resume' = [resume EXCEPT ![p] =
                        [pc |-> "granted", store |-> home, run |-> run,
                         attempt |-> a, checkpoint |-> c]]
        /\ run.named => c.branch = run.branch
    BY <2>3, GrantStep
  <2>5. run # Null /\ c # Null
    BY <2>3, NullAssumption
  <2>6. ~overtaken => /\ Tracks(run, store[home])
                      /\ c.at <= store[home].run.version
    <3> SUFFICES ASSUME ~overtaken
                 PROVE  Tracks(run, store[home]) /\ c.at <= store[home].run.version
      OBVIOUS
    <3>1. OfOneMoment(store[home])
      BY <1>1 DEF MomentInv, StoresAreOfOneMoment, Stores
    <3>2. Tracks(run, store[home])
      <4>1. CASE resume[p].pc = "read"
        BY <4>1, <2>3, <1>0 DEF Followed
      <4>2. CASE resume[p].pc # "read"
        <5>1. run = store[home].run /\ run.version \in Nat
          BY <4>2, <2>3 DEF RunRow
        <5> QED BY <5>1, <2>5 DEF Tracks
      <4> QED BY <4>1, <4>2
    <3>3. c.at <= store[home].run.version
      BY <2>3, <2>5, <3>1, <3>2 DEF OfOneMoment, Tracks
    <3> QED BY <3>2, <3>3
  <2>7. home = "mysql" \/ home = "postgres"
    BY <1>1 DEF Stores
  <2> HIDE DEF c
  <2>8. Held(p)'
    <3>1. resume'[p] = [pc |-> "granted", store |-> home, run |-> run,
                        attempt |-> a, checkpoint |-> c]
      BY <1>1, <2>4
    <3>2. UNCHANGED <<home, store, overtaken>>
      BY <2>1 DEF QuietStep
    <3> QED BY <2>4, <2>5, <2>6, <2>7, <3>1, <3>2 DEF Followed
  <2>9. ASSUME NEW q \in Resumers PROVE Held(q)'
    BY <2>1, <2>4, <2>8, <1>1, <1>6
  <2> QED BY <2>9 DEF TrackInv
<1>10. CASE CopyRun \/ CopyRows \/ CopyKeys \/ AbandonCopy
  <2>1. UNCHANGED <<store, home, resume, gap, overtaken>>
    BY <1>10 DEF CopyRun, CopyRows, CopyKeys, AbandonCopy
  <2> QED BY <2>1 DEF TrackInv, Followed
<1>11. CASE CommitCopy
  <2>1. /\ UNCHANGED <<home, resume, gap>>
        /\ store'["mysql"] = store["mysql"]
        /\ overtaken' = (overtaken \/ home = "postgres")
    BY <1>1, <1>11 DEF CommitCopy, Stores
  <2>2. ASSUME NEW p \in Resumers PROVE Held(p)'
    <3>1. CASE home = "mysql"
      <4>1. ~overtaken
        BY <3>1 DEF MomentInv
      <4>2. ~overtaken'
        BY <2>1, <3>1, <4>1
      <4>3. Followed(p)' <=> Followed(p)
        BY <2>1, <4>1, <4>2 DEF Followed
      <4> QED BY <2>1, <3>1, <4>3, <1>0
    <3>2. CASE home # "mysql"
      <4>1. overtaken'
        BY <1>1, <2>1, <3>2 DEF Stores
      <4> QED BY <2>1, <3>2, <4>1, <1>0 DEF Followed
    <3> QED BY <3>1, <3>2
  <2> QED BY <2>2 DEF TrackInv
<1>12. CASE Switch
  <2>1. /\ UNCHANGED <<store, resume, overtaken>>
        /\ home = "mysql" /\ home' = "postgres"
        /\ gap' = (store["postgres"] # store["mysql"])
    BY <1>12 DEF Switch
  <2>2. ASSUME NEW p \in Resumers PROVE Held(p)'
    <3>1. resume[p].store = "mysql" /\ resume[p].pc # "read"
      BY <2>1, <1>0
    <3>2. Followed(p)' => Followed(p) /\ store["postgres"] = store["mysql"]
      BY <2>1, <3>1 DEF Followed
    <3> QED BY <2>1, <3>1, <3>2, <1>0
  <2> QED BY <2>2 DEF TrackInv
<1>13. CASE UNCHANGED vars
  BY <1>13 DEF vars, TrackInv, Followed
<1> QED
  BY <1>3, <1>5, <1>7, <1>8, <1>9, <1>10, <1>11, <1>12, <1>13 DEF Next

(***************************************************************************)
(* Whoever continues continues what was resumed: the version handed out is *)
(* accepted only while the run is as it was read.  It is promised of no    *)
(* run that a migration took back (overtaken), and across the switch only  *)
(* if nothing was written to MySQL after the copy (gap).                   *)
(***************************************************************************)
THEOREM ContinuesTheResumedRun == Spec => ContinuesWhatItResumed
<1> DEFINE Goal ==
      \A p \in Resumers :
        /\ Continued(p)
        /\ ~overtaken
        /\ resume[p].store = home \/ ~gap
        => /\ store[home].run = resume[p].run
           /\ resume[p].checkpoint.at <= resume[p].run.version
           /\ resume[p].run.named =>
                resume[p].checkpoint.branch = store[home].run.branch
<1>1. TypeOK /\ TrackInv /\ [Next]_vars => [Goal]_vars
  <2> SUFFICES ASSUME TypeOK, TrackInv, [Next]_vars, NEW p \in Resumers,
                      Continued(p), ~overtaken,
                      resume[p].store = home \/ ~gap
               PROVE  /\ store[home].run = resume[p].run
                      /\ resume[p].checkpoint.at <= resume[p].run.version
                      /\ resume[p].run.named =>
                           resume[p].checkpoint.branch = store[home].run.branch
    OBVIOUS
  <2>1. /\ resume[p].pc = "granted" /\ resume'[p].pc = "idle" /\ store' # store
        /\ resume' # resume
    BY DEF Continued
  <2>2. Continue(p)
    <3>1. resume \in [Resumers -> [pc : {"idle", "read", "granted"}, store : Stores,
                        run : RunRow \cup {Null}, attempt : Attempts \cup {Null},
                        checkpoint : StageRow \cup {Null}]]
      BY DEF TypeOK
    <3>2. ASSUME NEW q \in Resumers, Continue(q)
          PROVE  q = p
      BY <2>1, <3>1, <3>2 DEF Continue
    <3> QED BY <2>1, <3>2
            DEF Next, vars, CreateRun, RecordStage, AdvanceRun, CopyRun,
                CopyRows, CopyKeys, CommitCopy, AbandonCopy, Switch,
                ReadRun, ReadCheckpoint, ReadBoth, GiveUp
  <2>3. store[home].run.version = resume[p].run.version
    BY <2>2, TransitionStep DEF Continue
  <2>4. /\ Tracks(resume[p].run, store[home])
        /\ resume[p].checkpoint.at <= store[home].run.version
        /\ resume[p].run.named =>
             resume[p].checkpoint.branch = resume[p].run.branch
    BY <2>1 DEF TrackInv, Followed
  <2> QED BY <2>3, <2>4 DEF Tracks
<1>2. Init => TypeOK /\ HoldsRun /\ MomentInv /\ TrackInv
  BY TypeInit, MomentInit, TrackInit
<1>3. TypeOK /\ HoldsRun /\ MomentInv /\ TrackInv /\ [Next]_vars
        => TypeOK' /\ HoldsRun' /\ MomentInv' /\ TrackInv'
  BY TypeStep, MomentStep, TrackStep
<1>4. ContinuesWhatItResumed <=> [][Goal]_vars
  BY DEF ContinuesWhatItResumed
<1> HIDE DEF Goal
<1> QED BY <1>1, <1>2, <1>3, <1>4, PTL DEF Spec
=============================================================================
