------------------------- MODULE OperationMigration -------------------------
(***************************************************************************)
(* `otc-agent refactor-sdk' with "apply": move one operation (a route) of  *)
(* an SDK package from a legacy file to a file of its own, with what only  *)
(* it uses, and put every file back when a write or a check fails.         *)
(*                                                                         *)
(* A file holds a set of declarations; a declaration is what is declared,  *)
(* its body and the methods of a type with it.  The file of operation o,   *)
(* <o>.go, is called o.  One action per file written, deleted or restored, *)
(* so that the process can stop between any two.                           *)
(***************************************************************************)
EXTENDS Integers, Sequences, FiniteSets

CONSTANTS
  Decls, Ops,   \* the package's declarations, and the exported operations
  Legacy,       \* request.go, requests.go, urls.go, results.go
  Refs,         \* the declarations a declaration names
  Begins,       \* the operations whose name a declaration's begins with,
                \* the longest first
  Order,        \* the files in the order of their paths
  Layouts,      \* checkouts to start from
  WholePlan,    \* whether a library call may ask for all operations at once
  MaxFaults,    \* bound: failing writes and checks, and stops
  Absent

Files == Legacy \cup Ops

ASSUME MigrationAssumption ==
  /\ Ops \subseteq Decls /\ Legacy \cap Ops = {}
  /\ IsFiniteSet(Decls)
  /\ Refs \in [Decls -> SUBSET Decls]
  /\ Begins \in [Decls -> Seq(Ops)]
  /\ \A o \in Ops : Begins[o] # <<>> /\ Begins[o][1] = o
  /\ Order \in Seq(Files)
  /\ \A f \in Files : \E i \in DOMAIN Order : Order[i] = f
  /\ \A i, j \in DOMAIN Order : Order[i] = Order[j] => i = j
  /\ \A S \in SUBSET Decls : S # Absent
  /\ Layouts \subseteq [Files -> {Absent} \cup SUBSET Decls]
  /\ WholePlan \in BOOLEAN /\ MaxFaults \in Nat

(* Exported names begin with a capital, the legacy files' names do not, and *)
(* the paths are ordered by their bytes.                                    *)
ASSUME OrderAssumption ==
  \A i, j \in DOMAIN Order : Order[i] \in Ops /\ Order[j] \in Legacy => i < j

VARIABLES
  files,      \* the worktree
  committed,  \* HEAD
  litter,     \* files whose temporary copy was left behind
  pc,
  route,      \* the operations being migrated
  before,     \* the worktree the plan, its snapshots and the backups show
  goal,       \* the worktree the analyzer's answer describes
  todo,       \* files still to write or delete, or to restore
  outcome,    \* how the last run ended
  faults

vars == <<files, committed, litter, pc, route, before, goal, todo, outcome, faults>>

Checkout == [Files -> {Absent} \cup SUBSET Decls]

TypeOK ==
  /\ files \in Checkout /\ committed \in Checkout
  /\ before \in Checkout /\ goal \in Checkout
  /\ litter \subseteq Files /\ todo \subseteq Files /\ route \subseteq Ops
  /\ pc \in {"idle", "write", "check", "restore"}
  /\ outcome \in {"none", "applied", "blocked", "refused", "stopped"}
  /\ faults \in 0..MaxFaults

Init ==
  /\ files \in Layouts /\ committed = files
  /\ litter = {}
  /\ pc = "idle" /\ route = {} /\ before = files /\ goal = files /\ todo = {}
  /\ outcome = "none" /\ faults = 0
-----------------------------------------------------------------------------
(* analyze_sdk_layout and build_operation_migration_plan.                  *)

Held(fs, f) == IF fs[f] = Absent THEN {} ELSE fs[f]

DeclaredIn(fs, d) == {f \in Files : d \in Held(fs, f)}

(* Mutant: only the operations of legacy files have to move. *)
InLegacyFile(fs) == {o \in Ops : DeclaredIn(fs, o) \cap Legacy # {}}

LegacyOps(fs) == {o \in Ops : DeclaredIn(fs, o) \ {o} # {}}

(* One operation that is declared twice, or whose file exists already,     *)
(* blocks the plan and every route of it.                                  *)
Blocked(fs) ==
  \E o \in LegacyOps(fs) :
    fs[o] # Absent \/ \E f, g \in DeclaredIn(fs, o) : f # g

Routes(fs) ==
  {{o} : o \in LegacyOps(fs)} \cup (IF WholePlan THEN {LegacyOps(fs)} ELSE {})

(* The operations a file has of a route, and the files a route comes from. *)
Of(fs, f, r) == r \cap Held(fs, f)
Sources(fs, r) == {f \in Files : Of(fs, f, r) # {}}
-----------------------------------------------------------------------------
(* The Go analyzer.                                                        *)

(* directOwner: the longest of the route's operations that begins the name. *)
DirectOwner(d, ops, o) ==
  \E i \in DOMAIN Begins[d] :
    /\ Begins[d][i] = o /\ o \in ops
    /\ \A j \in 1..(i - 1) : Begins[d][j] \notin ops

(* Mutant: a declaration follows what it names as well as what names it. *)
LinkedEitherWay(d, e) == d \in Refs[e] \/ e \in Refs[d]

Named(d, e) == d \in Refs[e]

(* What S names, directly or not, among the declarations D of its file. *)
Reached(D, S) ==
  LET within[n \in Nat] ==
        IF n = 0 THEN S
        ELSE UNION {{e} \cup {d \in D : Named(d, e)} : e \in within[n - 1]}
  IN within[Cardinality(D)]

Owners(D, ops, d) ==
  {o \in ops : d \in Reached(D, {e \in D : DirectOwner(e, ops, o)})}

Moved(D, ops, o) == {d \in D : Owners(D, ops, d) = {o}}

(* Mutant: only the operations' functions leave the file. *)
AllButOps(D, ops) == D \ ops

Rest(D, ops) == D \ UNION {Moved(D, ops, o) : o \in ops}

(* Every operation of the route has to be among what it owns. *)
Separable(fs, r) ==
  \A f \in Sources(fs, r) : \A o \in Of(fs, f, r) :
    o \in Moved(Held(fs, f), Of(fs, f, r), o)

(* Mutant: one list for each source in the new file. *)
TargetOfLists(fs, r, f) ==
  IF f \in r THEN
    {Moved(Held(fs, s), Of(fs, s, r), f) : s \in DeclaredIn(fs, f)}
  ELSE IF f \in Sources(fs, r) THEN Rest(Held(fs, f), Of(fs, f, r))
  ELSE fs[f]

(* The route's files, what is left in its sources, and no legacy file      *)
(* without declarations.                                                   *)
Target(fs, r, f) ==
  IF f \in r THEN
    UNION {Moved(Held(fs, s), Of(fs, s, r), f) : s \in DeclaredIn(fs, f)}
  ELSE IF f \in Sources(fs, r) THEN
    LET rest == Rest(Held(fs, f), Of(fs, f, r))
    IN IF rest = {} /\ f \in Legacy THEN Absent ELSE rest
  ELSE IF f \in Legacy /\ fs[f] = {} THEN Absent
  ELSE fs[f]

Goal(fs, r) == [f \in Files |-> Target(fs, r, f)]
-----------------------------------------------------------------------------
(* apply_operation_file_migration.                                         *)

(* The files the answer writes and deletes, all of them read beforehand. *)
Touched == {f \in Files : goal[f] # before[f]}

(* Mutant: files that are deleted are not among the backups. *)
BackedUpWritten == {f \in Touched : goal[f] # Absent}

BackedUp == Touched

Plan(r) ==
  /\ pc = "idle" /\ LegacyOps(files) # {} /\ ~Blocked(files)
  /\ r \in Routes(files)
  /\ route' = r /\ before' = files

Analyze(r) ==
  /\ Plan(r) /\ Separable(files, r)
  /\ goal' = Goal(files, r)
  /\ todo' = Touched'
  /\ pc' = "write"
  /\ UNCHANGED <<files, committed, litter, outcome, faults>>

(* "operation declaration ... was not found": it is shared itself. *)
Inseparable(r) ==
  /\ Plan(r) /\ ~Separable(files, r)
  /\ goal' = files
  /\ outcome' = "refused"
  /\ UNCHANGED <<files, committed, litter, pc, todo, faults>>

BlockPlan ==
  /\ pc = "idle" /\ LegacyOps(files) # {} /\ Blocked(files)
  /\ outcome' = "blocked"
  /\ UNCHANGED <<files, committed, litter, pc, route, before, goal, todo, faults>>

Precedes(f, g) == \E i, j \in DOMAIN Order : Order[i] = f /\ Order[j] = g /\ i <= j

(* Mutant: the files are written from the last to the first. *)
LastOf(S, f) == f \in S /\ \A g \in S : Precedes(g, f)

FirstOf(S, f) == f \in S /\ \A g \in S : Precedes(f, g)

Writes == {f \in todo : goal[f] # Absent}

NextWrite(f) == FirstOf(Writes, f)

Put(f, fs) ==
  /\ files' = [files EXCEPT ![f] = fs[f]]
  /\ todo' = todo \ {f}

(* A temporary file is written beside the file and moved over it. *)
WriteFile(f) ==
  /\ pc = "write" /\ NextWrite(f)
  /\ Put(f, goal)
  /\ pc' = IF todo' = {} THEN "check" ELSE "write"
  /\ UNCHANGED <<committed, litter, route, before, goal, outcome, faults>>

(* Files are deleted when all are written. *)
RemoveFile(f) ==
  /\ pc = "write" /\ Writes = {} /\ FirstOf(todo, f)
  /\ Put(f, goal)
  /\ pc' = IF todo' = {} THEN "check" ELSE "write"
  /\ UNCHANGED <<committed, litter, route, before, goal, outcome, faults>>

Fault == faults < MaxFaults /\ faults' = faults + 1

RollBack == pc' = "restore" /\ todo' = BackedUp

(* The disk fails a write or a deletion; a temporary file may stay. *)
WriteFails ==
  /\ pc = "write" /\ Fault
  /\ RollBack
  /\ litter' \in {litter} \cup {litter \cup {f} : f \in {g \in Writes : NextWrite(g)}}
  /\ UNCHANGED <<files, committed, route, before, goal, outcome>>

Present(fs) == UNION {Held(fs, f) : f \in Files}
Single(fs)  == \A d \in Decls : \A f, g \in DeclaredIn(fs, d) : f = g

(* validate_exported_api_compatibility and validate_semantic_preservation *)
SameDeclarations(old, new) ==
  Single(old) /\ Single(new) /\ Present(old) = Present(new)

(* validate_operation_file_correspondence, of the route's operations only *)
InOwnFiles(fs, r) == \A o \in r : DeclaredIn(fs, o) \subseteq {o}

ChecksPass == SameDeclarations(before, files) /\ InOwnFiles(files, route)

(* The checks pass and so do the package's tests. *)
Accept ==
  /\ pc = "check" /\ ChecksPass
  /\ pc' = "idle" /\ outcome' = "applied"
  /\ UNCHANGED <<files, committed, litter, route, before, goal, todo, faults>>

Reject ==
  /\ pc = "check" /\ ~ChecksPass
  /\ RollBack
  /\ UNCHANGED <<files, committed, litter, route, before, goal, outcome, faults>>

(* The tests fail or cover too little, or Go cannot be run. *)
TestsFail ==
  /\ pc = "check" /\ ChecksPass /\ Fault
  /\ RollBack
  /\ UNCHANGED <<files, committed, litter, route, before, goal, outcome>>

RestoreFile(f) ==
  /\ pc = "restore" /\ FirstOf(todo, f)
  /\ Put(f, before)
  /\ IF todo' = {} THEN pc' = "idle" /\ outcome' = "refused"
                   ELSE UNCHANGED <<pc, outcome>>
  /\ UNCHANGED <<committed, litter, route, before, goal, faults>>

(* The process is killed, or a backup cannot be restored: the exception    *)
(* leaves the loop and the backups are gone with it.                       *)
Stop ==
  /\ pc # "idle" /\ Fault
  /\ pc' = "idle" /\ todo' = {} /\ outcome' = "stopped"
  /\ UNCHANGED <<files, committed, litter, route, before, goal>>
-----------------------------------------------------------------------------
(* The operator of the checkout: an applied migration is reviewed and      *)
(* committed, and what an interrupted one left is thrown away.             *)

Complete == SameDeclarations(committed, files)

Commit ==
  /\ pc = "idle" /\ outcome = "applied" /\ Complete
  /\ committed' = files /\ outcome' = "none"
  /\ UNCHANGED <<files, litter, pc, route, before, goal, todo, faults>>

Reset ==
  /\ pc = "idle"
  /\ (outcome = "stopped" \/ litter # {} \/ ~Complete)
  /\ files' = committed /\ litter' = {} /\ outcome' = "none"
  /\ UNCHANGED <<committed, pc, route, before, goal, todo, faults>>

Apply ==
  \/ \E f \in Files : WriteFile(f) \/ RemoveFile(f) \/ RestoreFile(f)
  \/ Accept \/ Reject

Next ==
  \/ \E r \in Routes(files) : Analyze(r) \/ Inseparable(r)
  \/ BlockPlan
  \/ Apply \/ WriteFails \/ TestsFail \/ Stop
  \/ Commit \/ Reset

Spec == Init /\ [][Next]_vars

(* The operator asks for every route by itself again and again, commits    *)
(* what was applied and cleans up whenever something was left behind.      *)
FairSpec ==
  /\ Spec
  /\ WF_vars(Apply) /\ SF_vars(Commit) /\ SF_vars(Reset)
  /\ \A o \in Ops : SF_vars({o} \in Routes(files) /\ Analyze({o}))
-----------------------------------------------------------------------------
(* A migration that ends refused has put every file back, deleted and new   *)
(* ones included.  The copy that a failed write was making beside its file *)
(* is no file of the package and may stay (litter).                        *)
RefusalRestores == outcome = "refused" /\ pc = "idle" => files = before

(* What the analyzer computes never fails the declaration checks: if the   *)
(* package declared everything once before, it does so afterwards, and the *)
(* route's operations are in their own files.  Which file a shared helper  *)
(* belongs in is not looked at.                                            *)
SplitPassesChecks ==
  pc = "check" /\ Single(before) => ChecksPass

(* While files are written, every declaration of a legacy file is still in *)
(* some file, so that a process killed then loses none of them.  While a   *)
(* refusal puts files back, and new ones are deleted first, it may.        *)
NothingLostByRoute ==
  pc \in {"write", "check"} =>
    \A f \in Legacy : Held(before, f) \subseteq Present(files)

(* No operation's name begins with another's: the names alone never make   *)
(* one operation follow another.                                           *)
NamesApart == \A o \in Ops : Begins[o] = <<o>>

(* An operation that has its own file keeps it when others are migrated, as *)
(* long as no two operations pull each other.                              *)
MigratedStaysInPlace ==
  [][outcome' = "applied" =>
       \A o \in Ops : o \in Held(before, o) => o \in Held(files, o)]_vars

(* If faults end, every operation of a package that declares everything    *)
(* once gets its own file and keeps it, where no operation's name begins   *)
(* with another's (NamesApart) and no two operations name each other, as   *)
(* in none of the run's layouts.                                           *)
EveryOperationMigrates ==
  NamesApart /\ Single(committed) => \A o \in Ops : <>[](DeclaredIn(files, o) = {o})
=============================================================================
