--------------------------- MODULE RunCheckpoints ---------------------------
(***************************************************************************)
(* One run's rows in the two databases: the run, its stage attempts and    *)
(* the keys of its transitions; the callers that record and advance it;    *)
(* `otc-agent resume', which reads the run and its newest verified attempt *)
(* and hands the version it read to whoever continues; and                 *)
(* `otc-agent migrate-state', which copies MySQL's rows over PostgreSQL's. *)
(*                                                                         *)
(* transition_run is the one step RunLedger promises.  Runs have no row in *)
(* common, so one run is enough.  The timestamps of stage attempts are a   *)
(* clock that ticks with every recording: `created' is the column, kept    *)
(* when an attempt is recorded again, `written' and `at' say when the row  *)
(* was last written and which version the run had then; no column holds    *)
(* them.                                                                   *)
(***************************************************************************)
EXTENDS Integers

CONSTANTS
  Stages,      \* the workflow's stages
  LastStage,   \* the one after which a run is complete
  Attempts,    \* the numbered attempts at stages that are recorded
  Keys,        \* idempotency keys, one per transition; a bound on versions
  Branches,    \* branch revisions
  Creations,   \* the branch names (or none) and revisions runs start with
  Recordings,  \* the statuses and branch revisions attempts come with
  Resumers,    \* processes that run `otc-agent resume' and then continue
  MaxRecords,  \* bound: recordings of stage attempts
  Null         \* SQL NULL, and a row that is not there

Stores == {"mysql", "postgres"}

(***************************************************************************)
(* `by' stands for the status and current_stage: those the transition of   *)
(* that key wrote, or, with Null, those the run was created with.          *)
(***************************************************************************)
RunRow ==
  [version : Nat, by : Keys \cup {Null}, named : BOOLEAN,
   branch : Branches \cup {Null}]

StageRow ==
  [verified : BOOLEAN, branch : Branches \cup {Null}, created : Nat,
   written : Nat, at : Nat]

Tables ==
  [run  : RunRow \cup {Null},
   rows : [Attempts -> StageRow \cup {Null}],
   keys : [Keys -> Nat \cup {Null}]]

NoRows ==
  [run |-> Null, rows |-> [a \in Attempts |-> Null],
   keys |-> [k \in Keys |-> Null]]

ASSUME ArgumentsAssumption ==
  /\ Creations \subseteq [named : BOOLEAN, branch : Branches \cup {Null}]
  /\ Recordings \subseteq [verified : BOOLEAN, branch : Branches \cup {Null}]

ASSUME StagesAssumption ==
  LastStage \in Stages /\ Attempts \subseteq Stages \X Nat

ASSUME BoundsAssumption == MaxRecords \in Nat

ASSUME NullAssumption ==
  /\ Null \notin RunRow /\ Null \notin StageRow
  /\ Null \notin Nat /\ Null \notin Keys

VARIABLES
  store,      \* the rows of each database
  home,       \* the database connect_state_store yields
  copy,       \* the migration that is under way
  resume,     \* each resumer: what it has read, and what for
  clock,      \* recordings so far
  reused,     \* an attempt was recorded again after a later one had begun
  gap,        \* at the switch PostgreSQL did not hold what MySQL held
  overtaken   \* a migration has committed over a database in use

vars == <<store, home, copy, resume, clock, reused, gap, overtaken>>

NoCopy == [done |-> 0, snapshot |-> NoRows, staged |-> NoRows]

Idle == [pc |-> "idle", store |-> "mysql", run |-> Null, attempt |-> Null,
         checkpoint |-> Null]

Init ==
  /\ store = [s \in Stores |-> NoRows]
  /\ home = "mysql"
  /\ copy = NoCopy
  /\ resume = [p \in Resumers |-> Idle]
  /\ clock = 0
  /\ reused = FALSE
  /\ gap = FALSE
  /\ overtaken = FALSE

-----------------------------------------------------------------------------
(* The callers. *)

(***************************************************************************)
(* PostgreSQL's rows that the migration has written stay locked until it   *)
(* commits; whoever wants to write one of them waits.                      *)
(***************************************************************************)
RunLocked == home = "postgres" /\ copy.staged.run # Null
AttemptLocked(a) == home = "postgres" /\ copy.staged.rows[a] # Null
KeyLocked(k) == home = "postgres" /\ copy.staged.keys[k] # Null

(* A statement's changes, committed with it. *)
Write(tables) == store' = [store EXCEPT ![home] = tables]

(* create_run: a run_id that is there already changes nothing. *)
CreateRun ==
  /\ ~RunLocked
  /\ store[home].run = Null
  /\ \E c \in Creations :
       Write([store[home] EXCEPT !.run =
                [version |-> 0, by |-> Null, named |-> c.named,
                 branch |-> c.branch]])
  /\ UNCHANGED <<home, copy, resume, clock, reused, gap, overtaken>>

(* Mutant: the schema gives created_at no default. *)
RecordedUndated(old, r, version) ==
  [verified |-> r.verified, branch |-> r.branch,
   created |-> IF old = Null THEN Null ELSE old.created,
   written |-> clock + 1, at |-> version]

(***************************************************************************)
(* The upsert of record_stage: every column but created_at is replaced.    *)
(***************************************************************************)
Recorded(old, r, version) ==
  [verified |-> r.verified,
   branch   |-> r.branch,
   created  |-> IF old = Null THEN clock + 1 ELSE old.created,
   written  |-> clock + 1,
   at       |-> version]

IsLatest(rows, a) ==
  \A b \in Attempts : rows[b] # Null => rows[b].created <= rows[a].created

(***************************************************************************)
(* record_stage, whose foreign key wants the run to be there.  Nothing     *)
(* relates the arguments to the run row: the status is verified or not,    *)
(* the branch revision is what the caller says.                            *)
(***************************************************************************)
RecordStage ==
  /\ clock < MaxRecords
  /\ store[home].run # Null
  /\ \E a \in Attempts, r \in Recordings :
       LET rows == store[home].rows
       IN /\ ~AttemptLocked(a)
          /\ Write([store[home] EXCEPT !.rows[a] =
                      Recorded(rows[a], r, store[home].run.version)])
          /\ reused' = (reused \/ (rows[a] # Null /\ ~IsLatest(rows, a)))
  /\ clock' = clock + 1
  /\ UNCHANGED <<home, copy, resume, gap, overtaken>>

(* The row a transition leaves: branch_name is never written again. *)
Advance(row, k, b) ==
  [version |-> row.version + 1,
   by      |-> k,
   named   |-> row.named,
   branch  |-> IF b = Null THEN row.branch ELSE b]

(* Mutant: the UPDATE names the run only. *)
TransitionAnyVersion(expected) ==
  LET row == store[home].run
  IN /\ ~RunLocked
     /\ row # Null
     /\ expected \in Nat
     /\ \E k \in Keys, b \in Branches \cup {Null} :
          /\ store[home].keys[k] = Null
          /\ ~KeyLocked(k)
          /\ Write([store[home] EXCEPT !.run = Advance(row, k, b),
                                       !.keys[k] = row.version + 1])

(***************************************************************************)
(* transition_run with a key of its own and the expected version: a call   *)
(* with a key that is there already is answered from it and changes        *)
(* nothing, one with another version is refused and changes nothing.       *)
(***************************************************************************)
Transition(expected) ==
  LET row == store[home].run
  IN /\ ~RunLocked
     /\ row # Null
     /\ row.version = expected
     /\ \E k \in Keys, b \in Branches \cup {Null} :
          /\ store[home].keys[k] = Null
          /\ ~KeyLocked(k)
          /\ Write([store[home] EXCEPT !.run = Advance(row, k, b),
                                       !.keys[k] = row.version + 1])

(* Somebody who knows the current version advances the run. *)
AdvanceRun ==
  /\ store[home].run # Null
  /\ Transition(store[home].run.version)
  /\ UNCHANGED <<home, copy, resume, clock, reused, gap, overtaken>>

-----------------------------------------------------------------------------
(* otc-agent resume, and the transition it leads to. *)

Verified(rows) == {a \in Attempts : rows[a] # Null /\ rows[a].verified}

(* Mutant: the attempt's number goes first. *)
NotBeforeByNumber(rows, a, b) ==
  a[2] > b[2] \/ (a[2] = b[2] /\ rows[a].created >= rows[b].created)

(* ORDER BY created_at DESC, attempt DESC *)
NotBefore(rows, a, b) ==
  \/ rows[a].created > rows[b].created
  \/ rows[a].created = rows[b].created /\ a[2] >= b[2]

Newest(rows) ==
  {a \in Verified(rows) : \A b \in Verified(rows) : NotBefore(rows, a, b)}

(***************************************************************************)
(* revalidate_resume_checkpoint on the branch: once a name or a revision   *)
(* is recorded both have to be, and the run, its checkpoint and the        *)
(* repository, whose branch may be anywhere, have to agree.                *)
(***************************************************************************)
BranchMatches(run, checkpoint, head) ==
  run.named \/ run.branch # Null =>
    /\ run.named
    /\ run.branch # Null
    /\ head = run.branch
    /\ checkpoint.branch = head

(***************************************************************************)
(* What the command does with the two rows it read.  A verified attempt    *)
(* at the last stage leaves nothing to go on with.  The checks look at no  *)
(* row of the database, so they are one step with the second read.         *)
(***************************************************************************)
Grant(p, run, a, checkpoint) ==
  /\ \E head \in Branches : BranchMatches(run, checkpoint, head)
  /\ a[1] # LastStage
  /\ resume' = [resume EXCEPT ![p] =
                  [pc |-> "granted", store |-> home, run |-> run,
                   attempt |-> a, checkpoint |-> checkpoint]]

(***************************************************************************)
(* The two reads of load_resume_checkpoint.  PostgreSQL reads committed    *)
(* rows as of each statement; on MySQL both statements see the snapshot    *)
(* the first one takes.  Without a run or a verified attempt the command   *)
(* fails.                                                                  *)
(***************************************************************************)
ReadRun(p) ==
  /\ resume[p].pc = "idle"
  /\ home = "postgres"
  /\ store[home].run # Null
  /\ resume' = [resume EXCEPT ![p] =
                  [pc |-> "read", store |-> home, run |-> store[home].run,
                   attempt |-> Null, checkpoint |-> Null]]
  /\ UNCHANGED <<store, home, copy, clock, reused, gap, overtaken>>

ReadCheckpoint(p) ==
  /\ resume[p].pc = "read"
  /\ \E a \in Newest(store[home].rows) :
       Grant(p, resume[p].run, a, store[home].rows[a])
  /\ UNCHANGED <<store, home, copy, clock, reused, gap, overtaken>>

ReadBoth(p) ==
  /\ resume[p].pc = "idle"
  /\ home = "mysql"
  /\ store[home].run # Null
  /\ \E a \in Newest(store[home].rows) :
       Grant(p, store[home].run, a, store[home].rows[a])
  /\ UNCHANGED <<store, home, copy, clock, reused, gap, overtaken>>

(***************************************************************************)
(* The command ends: the source commit, the artifact or the documentation  *)
(* is not what the checkpoint says, the run is complete, a row is missing, *)
(* or the process or its caller stops.                                     *)
(***************************************************************************)
GiveUp(p) ==
  /\ resume[p].pc # "idle"
  /\ resume' = [resume EXCEPT ![p] = Idle]
  /\ UNCHANGED <<store, home, copy, clock, reused, gap, overtaken>>

(* The caller goes on from the version it was given. *)
Continue(p) ==
  /\ resume[p].pc = "granted"
  /\ Transition(resume[p].run.version)
  /\ resume' = [resume EXCEPT ![p] = Idle]
  /\ UNCHANGED <<home, copy, clock, reused, gap, overtaken>>

-----------------------------------------------------------------------------
(* otc-agent migrate-state, one PostgreSQL transaction. *)

(* Mutant: every SELECT sees the rows of its own moment. *)
CopySourceNow == store["mysql"]

(* MySQL's first SELECT fixes what the later ones see. *)
CopySource == IF copy.done = 0 THEN store["mysql"] ELSE copy.snapshot

(***************************************************************************)
(* The tables in the order of _MIGRATION_TABLES: the run before the rows   *)
(* that refer to it.                                                       *)
(***************************************************************************)
CopyRun ==
  /\ copy.done = 0
  /\ copy' = [done |-> 1, snapshot |-> CopySource,
              staged |-> [NoRows EXCEPT !.run = CopySource.run]]
  /\ UNCHANGED <<store, home, resume, clock, reused, gap, overtaken>>

CopyRows ==
  /\ copy.done = 1
  /\ copy' = [copy EXCEPT !.done = 2, !.staged.rows = CopySource.rows]
  /\ UNCHANGED <<store, home, resume, clock, reused, gap, overtaken>>

CopyKeys ==
  /\ copy.done = 2
  /\ copy' = [copy EXCEPT !.done = 3, !.staged.keys = CopySource.keys]
  /\ UNCHANGED <<store, home, resume, clock, reused, gap, overtaken>>

(***************************************************************************)
(* _postgres_migration_upsert: a row that is there already is replaced,    *)
(* created_at included; rows only PostgreSQL has stay.                     *)
(***************************************************************************)
Upserted(old, new) == IF new = Null THEN old ELSE new

Over(old, new) ==
  [run  |-> Upserted(old.run, new.run),
   rows |-> [a \in Attempts |-> Upserted(old.rows[a], new.rows[a])],
   keys |-> [k \in Keys |-> Upserted(old.keys[k], new.keys[k])]]

CommitCopy ==
  /\ copy.done = 3
  /\ store' = [store EXCEPT !["postgres"] = Over(@, copy.staged)]
  /\ overtaken' = (overtaken \/ home = "postgres")
  /\ copy' = NoCopy
  /\ UNCHANGED <<home, resume, clock, reused, gap>>

(* An error, or the process stops: the transaction is rolled back. *)
AbandonCopy ==
  /\ copy.done # 0
  /\ copy' = NoCopy
  /\ UNCHANGED <<store, home, resume, clock, reused, gap, overtaken>>

(***************************************************************************)
(* The operator configures OTC_POSTGRES_DSN, at any time: every connection *)
(* from now on goes to PostgreSQL.                                         *)
(***************************************************************************)
Switch ==
  /\ home = "mysql"
  /\ home' = "postgres"
  /\ gap' = (store["postgres"] # store["mysql"])
  /\ UNCHANGED <<store, copy, resume, clock, reused, overtaken>>

-----------------------------------------------------------------------------
Next ==
  \/ CreateRun \/ RecordStage \/ AdvanceRun
  \/ \E p \in Resumers :
       \/ ReadRun(p) \/ ReadCheckpoint(p) \/ ReadBoth(p)
       \/ GiveUp(p) \/ Continue(p)
  \/ CopyRun \/ CopyRows \/ CopyKeys \/ CommitCopy \/ AbandonCopy
  \/ Switch

Spec == Init /\ [][Next]_vars

-----------------------------------------------------------------------------
(* Properties. *)

(* Every variable holds what the schema and the code let it hold. *)
TypeOK ==
  /\ store \in [Stores -> Tables]
  /\ home \in Stores
  /\ copy \in [done : 0..3, snapshot : Tables, staged : Tables]
  /\ resume \in
       [Resumers ->
          [pc : {"idle", "read", "granted"}, store : Stores,
           run : RunRow \cup {Null}, attempt : Attempts \cup {Null},
           checkpoint : StageRow \cup {Null}]]
  /\ clock \in 0..MaxRecords
  /\ reused \in BOOLEAN /\ gap \in BOOLEAN /\ overtaken \in BOOLEAN

(***************************************************************************)
(* What one database holds is of one moment: the keys hold exactly the     *)
(* versions the run went through, the run is as the last of them left it,  *)
(* and no attempt was recorded at a later version than the run's.          *)
(***************************************************************************)
OfOneMoment(tables) ==
  IF tables.run = Null
  THEN tables = NoRows
  ELSE /\ {tables.keys[k] : k \in Keys} \ {Null} = 1..tables.run.version
       /\ tables.run.version # 0 =>
            tables.run.by # Null /\ tables.keys[tables.run.by] = tables.run.version
       /\ \A a \in Attempts :
            tables.rows[a] # Null => tables.rows[a].at <= tables.run.version

(***************************************************************************)
(* Each database is of one moment, whatever was written to MySQL while a   *)
(* migration copied its tables one after the other, and wherever one was   *)
(* stopped.  PostgreSQL is out of it once a migration has committed over   *)
(* the work of its own callers.                                            *)
(***************************************************************************)
StoresAreOfOneMoment ==
  /\ OfOneMoment(store["mysql"])
  /\ ~overtaken => OfOneMoment(store["postgres"])

(* A resumer's transition was accepted in this step. *)
Continued(p) ==
  /\ resume[p].pc = "granted"
  /\ resume'[p].pc = "idle"
  /\ store' # store

(***************************************************************************)
(* Whoever continues from a resume continues the run that resume read: its *)
(* row is as it was read, and the checkpoint, although it was read by      *)
(* another statement, is of that row's past and on its branch.  The switch *)
(* to PostgreSQL in between does no harm if it held what MySQL held.  The   *)
(* version protects nobody once a migration has committed over PostgreSQL's *)
(* own work (overtaken): it can be that of an older row.                    *)
(***************************************************************************)
ContinuesWhatItResumed ==
  [][\A p \in Resumers :
       /\ Continued(p)
       /\ ~overtaken
       /\ resume[p].store = home \/ ~gap
       => /\ store[home].run = resume[p].run
          /\ resume[p].checkpoint.at <= resume[p].run.version
          /\ resume[p].run.named =>
               resume[p].checkpoint.branch = store[home].run.branch]_vars

(***************************************************************************)
(* The checkpoint resume takes is the verified attempt that was written    *)
(* last, in the migrated database as well, so that no stage verified later *)
(* is done again; unless an attempt was recorded again out of its turn,    *)
(* which leaves its created_at behind, or a migration committed over the   *)
(* attempts of PostgreSQL's own callers.                                   *)
(***************************************************************************)
ResumesFromLastVerified ==
  [][\A p \in Resumers :
       /\ resume'[p].pc = "granted"
       /\ resume[p].pc # "granted"
       /\ ~reused /\ ~overtaken
       => LET rows == store[resume'[p].store].rows
          IN /\ rows[resume'[p].attempt].verified
             /\ \A a \in Verified(rows) :
                  rows[a].written <= rows[resume'[p].attempt].written]_vars
=============================================================================
