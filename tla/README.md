# A TLA+ model of terraform-provider-automation

`otc-agent` turns a change request into reviewed SDK and provider pull
requests.  Most of it is validation of input and text; what is hard to get
right, and hard to test, is what it does to state that outlives a process: the
run database, the webhook inbox, the pull request on GitHub, the checkout a
migration rewrites, the patch and evidence a generation leaves for its review
and its publication.  These modules model that state and the steps that change
it, TLC checks them on small instances, and TLAPS proves the safety of
every part modelled for every value of the constants.

File names below are relative to `src/src/otc_agent/` unless they say otherwise.

## The system

| Part | State | Operations | What makes it correct |
|---|---|---|---|
| Run ledger (`state.py`) | `agent_runs`, `agent_idempotency_keys` in PostgreSQL or MySQL | `create_run`, `transition_run` | a transition is one compare-and-swap on the run's version, done at most once per key, whoever races, fails or retries |
| Webhook inbox (`state.py`, `webhooks.py`) | `agent_webhook_events` | `enqueue_webhook`, `claim_webhook`, `complete_webhook`, `fail_webhook`, `process_webhook_once` | one worker per event, one returned object per delivery and one run of its handler per attempt, bounded attempts, every delivery settles |
| Pull-request iteration (`pr_iteration.py`, `cli.py`) | the branch at origin, its comments, the local checkout, the iteration state file | `iterate-pr`: fetch, classify, repair, append, push, reply, complete | one commit per command, one reply per comment, commit and patch, a journal that tells the truth, an interrupted command that can be run again |
| SDK operation migration (`sdk_refactor.py`, `sdk_layout.py`, `cli.py`) | the files of an SDK package | `refactor-sdk`: plan, select a route, analyse, write, check, roll back | every declaration survives, refusals restore every file, routes can be migrated one after the other |
| Resume checkpoints (`state.py`, `resume.py`, `cli.py`) | `agent_stage_records` and the other rows of a run | `record_*`, `load_resume_checkpoint`, `revalidate_resume_checkpoint`, `resume` | a run is resumed from the attempt verified last, and continued only if it is still the run that was read |
| State migration (`state.py`) | both databases | `migrate_mysql_to_postgres`, `connect_state_store` | the copy is of one moment, and what was resumed before it can be continued after it |
| Generation pipeline (`generation.py`, `workflow.py`, `patching.py`) | the SDK worktree, patch and evidence files, the frozen artifact chain | gate, generate, apply, test, freeze | the evidence describes the patch beside it |
| Review and repair (`review.py`) | a review bundle and the hash-linked history | `build_review_bundle`, `run_independent_review`, `run_bounded_repair_iterations`, `build_review_history` | the returned patch is the approved one; at most two rounds |
| Quality gate (`quality.py`) | a candidate and its scores | evaluator and optimizer rounds | it ends, within its calls, and only a judged candidate passes |
| Budgets, retries, routing (`budget.py`, `resilience.py`, `routing.py`) | calls, tokens and cost charged | `Budget.charge`, three attempts, reviewer's independence | what is recorded stays within the limits, and the real bill exceeds it by one answer at most |
| Publication preflight (`publishing.py`, `pr_iteration.py`) | the issue, the evidence file, the pull request's metadata | `publish`; `authorize_iteration`, `load_iteration_artifacts` | only evidence that was published whole, and was there when its issue was found approved, is iterated |
| Planning API (`service.py`, `api.py`, `telemetry.py`, `orchestrator.py`, `classification.py`) | counters | plan a change request | stateless |
| Catalog, skills, policies, evaluations, limits and redaction | none | parsing and validation | pure functions |

The parts meet in six places.  `cli.py` runs every command as a process of its
own, so that the database, the checkout and GitHub are all that one command
leaves for the next.  Webhook workers and CLI processes share the database, and
only its row locks order them.  `iterate-pr` shares the branch and the
conversation with the people on the pull request.  `generate-*` leaves a patch
and an evidence file that the operator copies, one after the other, into the
input of `review`, `iterate-pr` and `publish`.  The metadata that `publish`
releases is in the pull request's body, which `iterate-pr` believes.  `publish` puts the first
commit on the branch that `iterate-pr` appends to, and checks the append-only
ancestry that `append_repair_commit` has to keep.

What is hard: several database clients between each other's statements; answers
of commits, pushes and comments that are lost after they took effect; processes
killed between any two effects; retries of what is already done; models that
answer differently each time; and long sequences of legal commands.  The
hazards, line by line, are in `PROJECT.json`.

## Modules

| Module | Models |
|---|---|
| `RunRows` | rows, arguments and results of a transition, and what one computes from another |
| `RunLedger` | the abstract ledger: each `transition_run` one indivisible compare-and-swap |
| `RunTransition` | `transition_run` of both stores, statement by statement, with row locks |
| `RunTransitionProps` | its properties and inductive invariant |
| `RunTransitionProofs` | the proofs |
| `DeliveryLifecycle` | the abstract inbox: what may happen to one delivery, without workers, locks or a clock |
| `WebhookInbox`, `WebhookInboxProofs` | the inbox, its workers, and the proofs |
| `CommandEffects` | the abstract iteration: commits, replies and records, in order: a commit and a record once for a command, a reply once for a comment, commit and patch |
| `PRIteration` | `iterate-pr`, GitHub, the checkout and the people |
| `PRIterationProofs` | the proofs about it |
| `OperationMigration`, `OperationMigrationProofs` | `refactor-sdk` with `apply`, and the proofs |
| `Generation` | `generate-sdk` and `generate-provider`: quality gate, checkout, commands, the two files |
| `CandidateReview` | extends `Generation` with the bundle, its review, the bounded repair and the history; this is the composed system |
| `Publication` | extends `Generation` with `publish`, the issue, the pull request and the reads of `iterate-pr` |
| `GenerationProofs`, `CandidateReviewProofs`, `PublicationProofs` | the proofs: what a generation's step keeps, and the two systems built on it |
| `RunCheckpoints`, `RunCheckpointsProofs` | one run in both databases: recordings, transitions, `resume`, `migrate-state`, the switch to PostgreSQL; and the proofs |
| `MC...` | the values TLC gives the constants |

An operator whose comment begins with "Mutant:" is a plausible bug of the
definition after it.  No specification uses one; `PROJECT.json` says which
property each of them has to break.

### RunTransition

`runs` and `keys` are the committed tables.  A client of the store is inside at
most one call; `pc` is the next statement, `newKey` and `newRun` the rows its
open transaction has written.  Locks are not variables of their own: the
statements a transaction has behind it say what it holds (`HoldsKey`,
`HoldsRun`), and a client whose next statement needs a lock waits (`Blocks`).
`Engine` chooses the store.  MySQL differs in three ways the model keeps:
`INSERT IGNORE` swallows the foreign-key error of a run that does not exist
(`MissingRun`), the foreign key takes a shared lock on the run (`SharesRun`),
and so waits can form cycles that the engine breaks (`DeadlockVictim`).  Every
statement may fail, and a commit may take effect without its answer arriving
(`CommitUnheard`).  Timestamps are left out.

`RunLedger` is the promise: `Apply`, `Replay`, `Refuse`, `Fail`, each in one
step, with one more state, `missed`, because MySQL decides that a run does not
exist before it looks for the key.  `ImplementsLedger` maps the statements to
it; a commit maps to `Apply`, every other statement to a stutter.

### WebhookInbox

`event` is the table, `now` the database clock, `wpc` and `claim` the worker.
A claim is two steps, `Select` and `Take`, because the row lock is what keeps a
second worker out between them.  `HandlerReturnsBad` is a handler whose
dictionary JSON cannot encode: `complete_webhook` raises outside the `try`.
`Abandon` is a worker that stops, or loses the database, at any step.
`successes` and `effects` are history, and differ: an object was returned, or
the handler did what it is there to do (`Acts`).  A handler that raises may have
acted before, and so may one whose worker stops; the code runs it again
(`webhooks.py:24-34`), so handlers have to be idempotent, and a dead letter is a
delivery that returned no object, not one that had no effect.  The clock moves
only while an event waits for it.

`DeliveryLifecycle` is the promise: a delivery is absent, queued, running,
completed, a dead letter or lost, and each move between these says what it needs
of attempts, and counts how often its handler acted and returned: once an
attempt, and once.  `ImplementsLifecycle` maps a row and its holder to the
stage (`Stage`): `processing` is running while a worker holds the event and lost
afterwards.  `Select`, `Tick` and a handler that raises before it acts map to
stutters.

### PRIteration

A commit carries its line, itself and its ancestors, as a SHA does.
A patch is a text: the tree it makes of the captured base, and its `wording`.
Two places of the code read the text.  The replay compares it with what
`git diff` prints, blanks at both ends aside: the wordings in `Verbatim` are those
that pass.  The hidden marker of a reply hashes it as the model wrote it
(`pr_iteration.py:648`), so `Marker` is the comment, the commit and the patch with
its wording, and `Replied` finds a reply to the very same text only.  GitHub's
comments, the branch at origin, foreign commits and resolved threads are
variables or actions of the environment.  One action per git or GitHub call
that changes something; `PushUnheard` and `PostUnheard` are the calls that take
effect and whose answer is lost.

`CommandEffects` is the promise: what is left on GitHub and in the journal grows
by one commit, reply or record at a time, each after what it speaks of.
A reply is new if no other has its comment, its commit and its patch; the second
one that a reworded patch brings is a step `Answer` of its own.
`ImplementsEffects` maps the branch to the line of `remote`, the replies to their
markers and the records to `journal.done`; a push of a commit that origin has,
and everything that happens in the worktree, map to stutters.

Taken for granted: one `iterate-pr` process at a time (operations.md asks the
operator for it); a command is run again with the input file of its first run
(`payload`); `current_patch` is always the artifact's original patch, since
`review.py:187` ties it to the evidence; authorization and digests have passed;
models never judge a command or the agent's own reply actionable; threads are
not reopened; a fresh clone has no commit that was never pushed.

### OperationMigration

A file holds declarations and a declaration names others (`Refs`); imports,
comments and formatting are left out, and a type is one declaration with its
methods.  `Begins` gives the operations whose name a declaration's begins with.
`DirectOwner`, `Reached`, `Owners`, `Moved` and `Rest` are the Go program's
ownership; `Target` is its answer.  One action writes, deletes or restores one
file, in the order of the paths, so that a process can be killed between any
two.  Requests come from the command line (one route) or, with `WholePlan`,
from a library call (`apply_operation_file_migration` with the whole plan).
Commit and reset are the operator's.  Candidate checkouts and approved API or
behaviour changes are left out; nobody else writes the checkout.

### Generation and CandidateReview

A patch is the set of edits `git diff` finds: candidates, `Pin` (the go.mod that
the provider's `go get` writes), `Stray` and `Leftover` (what a test leaves outside
and inside the allow-list; `git add --intent-to-add --all` takes both into the
diff, and only the first is refused).  `gpc` follows `_generate`; each model call, each command phase and
each of the two steps of a `write_text` (the file is emptied, then written) is an
action, and `Stop` ends the command before any of them, with whatever it left.
One failing command or refused candidate is the same `Stop`.

`Charges` is `Budget.charge`: a call more, and what the answer cost, compared
with their limits together with what was charged before.  Input tokens, output
tokens and money are one measure, for each is added up and compared the same way
and any of them may be the one that runs out.  An answer is charged when it has
arrived and could be parsed, so `LoseAnswer` is one that was paid for and not
recorded: it is no JSON, or its charge raises.  It ends the run (`raising`).
`bill` is history, what the answers cost in truth.

Scores are in hundredths, and an evaluation is its decision, mean and least
dimension, which is all the gate reads.  `testedTree` and the `tested` field of
`Evidence` are history: nothing in the code reads them.

The operator copies patch and evidence in two actions (`CopyPatch`,
`BuildBundle`), while another generation may overwrite both.  A digest is the
sequence of patches it commits to, so that a digest matches exactly when they
do; the frozen chain of artifacts is part of the evidence record.  `limit` is
`max_iterations`: zero is the `review` command, one is `iterate-pr` (whose first
review is the maintainer's request for changes), two the library's default.
`RepairInScope` is the validator `iterate-pr` passes.

Taken for granted: one generation at a time in a checkout (the documents ask
for a disposable one); the model's candidate applies to the base or the run
stops; `DiscardEdits` is the operator's fresh checkout; gofmt's changes belong to
the candidate.

### RunCheckpoints

`store` holds the two databases' rows of one run: the run, its stage attempts,
its keys.  Runs share no row, so one is enough.  `transition_run` is the one
step that `RunLedger` promises and `RunTransition` implements.  `home` is the
database that `connect_state_store` yields; `Switch` is the operator who sets
`OTC_POSTGRES_DSN`, at any time.  `copy` is the migration: three SELECTs that
see MySQL's snapshot of the first one (REPEATABLE READ, `CopySource`), upserts
whose row locks PostgreSQL's own callers wait for (`RunLocked`, `AttemptLocked`,
`KeyLocked`), one commit; it may be abandoned and run again for ever.
`load_resume_checkpoint` reads two rows: on PostgreSQL by two statements that
each see the rows of their own moment (`ReadRun`, `ReadCheckpoint`), on MySQL of
one snapshot (`ReadBoth`).  `Grant` is the answer of `resume`, `Continue` the
transition with the version it told.

`clock` counts recordings and gives `created_at`, which an upsert keeps;
`written` and `at` are history.  So are `reused`, `gap` and `overtaken`, the
conditions under which the properties promise less.  Each is needed: without it
TLC violates the property (see "Disagreements met").  Reported statuses are
verified or not; source commit, artifact and documentation make the command give
up or not (`GiveUp`).

### Publication

A generation may write its evidence file at any moment between the reads of
`publish` and of `iterate-pr`.  No two evidence files have the same bytes or the
same frozen chain (they name costs and durations), so `edition`, the number of
the file, stands for the digests of both.  `publish` hashes the file
(`HashArtifact`), asks for the issue (`ViewIssue`), which `ChangeIssue` labels
and closes meanwhile, and reads the file again (`BuildMetadata`); a file half
written has a digest (`Torn`) but is no JSON.  A body that holds metadata has to
hold the same (`given`).  `iterate-pr` takes the metadata of the body
(`Authorize`), compares the digest (`MatchArtifact`), reads again and compares
the end of the chain (`LoadArtifacts`).  `known`, the editions there were when
the issue was seen, is history.

Taken for granted: who may edit the body of the pull request does not forge it;
the history check and everything else that refuses is `EndPublish`.

## Runs

All bounds are in the cfg files and MC modules.

| Run | Shows |
|---|---|
| `ledger_postgres` | two clients, two runs, two keys, six calls that race, reuse and retry: the properties and the refinement; 80,000 states |
| `ledger_mysql` | the same on MySQL with four calls, and with fair lock queues that every call returns; 37,000 states |
| `inbox_faults` | two workers of different policies, one delivery with a handler and one without, redeliveries, exceptions before and after the handler acted, bad results, stops: the properties and the refinement; 38,000 states |
| `inbox_crash` (violation) | an event whose worker stopped stays `processing` |
| `iterate_faults` | two commands, a comment of each kind, a foreign push, four possible repairs, two of them one patch in different words, interruptions at every call: the properties and the refinement; 1,600,000 states |
| `iterate_converges` | the same repair each time: an interrupted command completes |
| `iterate_twice` (violation) | the second command leaves an edit of the first on the branch |
| `migrate_routes` | three operations, a shared helper and a caller, three layouts (in one an init function is declared twice, and the checks refuse), two faults; 25,000 states |
| `review_candidates` | two provider candidates and one out of scope, generated again and again with cheap and dear answers, stopped anywhere and reviewed meanwhile; 2,900,000 states |
| `resume_migrate` | a run with two stages, two transitions and three recordings, a resumer, migrations without a bound and a switch at any time; 2,800,000 states |
| `publish_iterate` | two candidates, two evidence files, an issue with both labels that changes at any time, `publish` and `iterate-pr` again and again; 1,360,000 states |
| `repair_drops_pin` (violation) | an approved repair of a provider candidate no longer pins the SDK |

Why the bounds are enough.  Two clients are what a race on a row needs, and the
third that a longer lock queue needs is covered by the proofs, which are for any
number.  Six calls hold a first transition, its rival, the rival's retry, a key
reused with another intent and for another run.  Two workers with limits 3 and 2
are what makes the limit the worker's and not the event's.  Two commands are
what makes the branch differ from the artifact's patch; three files tell an edit
that stays, one that is replaced and one that is new apart.  Of the four repairs
one is given in git's words and in others, which is what a second reply about one
commit takes; both keep the edit the artifact's patch makes, so that a command that
did not look at its recorded head could reverse that patch and commit again; and
one only adds a file.  Two faults let a
roll-back itself be interrupted.  Two candidates tell one run's patch from
another's, and runs follow each other without a bound; they can be exchanged, and
so can their roles in the proposals, so that symmetry is sound.  The three answers
of the evaluator miss both limits, miss one and pass; one that neither passes nor
may be revised ends the run like a stop.  Of the answers' two sizes three of the
small one fill a budget, and one of the large one does, so that runs end for
calls that cost too much with each number of calls.  The proposals are a
replacement that mixes the candidates and one that keeps the pin as well.  Three recordings
are what an attempt recorded again out of its turn takes (its own, a later
one's, its own again); a stage at attempt 2 and another at attempt 1 tell the
order by `created_at` from the order by number; two transitions make a version
that is stale.  `InUse` (a state constraint) does not follow what a migration
over a PostgreSQL in use leaves: the properties say nothing of it.  A second
evidence file is what the reads of `publish` can be torn by.

Deadlock is checked for the ledger, for generation with review and for
publication.  The other systems may really stop: every event settled, every
command journaled, every operation migrated; `RunCheckpoints` stops where its
bounds end.

## Fairness

* Ledger (`FairSpec`): a statement that is again and again free to run does run
  (InnoDB's lock queues are first come, first served), and the deadlock detector
  finds its victim.  Nothing obliges a client to call.
* Inbox: workers poll in a loop and the clock advances.  Nothing obliges GitHub
  to deliver, a handler to fail or a worker to stop.
* Iteration: a run that is not interrupted goes on; the operator starts an
  unfinished command again and in the end takes a fresh clone when runs find the
  worktree dirty, as the error messages ask.  `StartedCompletes` holds if
  interruptions end.
* Migration: a run that is not killed goes on; the operator asks for each route
  again and again, commits what was applied and resets what was left behind.
* Generation, review, publication and resume: none, only safety is claimed; models, commands and the
  operator need not go on.

## Proofs

For all clients, runs, keys and calls, and both engines (`CallsAssumption`,
`EngineAssumption`), `RunTransitionProofs` shows that the inductive invariant
`IInv` holds: the types, `TxInv` (what an open transaction knows of the
committed rows, statement by statement), `LocksExclusive`, and the three safety
properties about the tables.  `KeysAreHistory` is not inductive by itself: that
the version a commit writes is new needs `runs[r].version = expected` at the
commit, which the row lock keeps true since the UPDATE.  `Refinement` shows
`Spec => Ledger!Spec`, and `PostgresNeverDeadlocks` that on PostgreSQL waits
are ordered (keys before runs), for any number of clients.  MySQL's waits are
not ordered; `OnlyPairsDeadlock` shows what can go wrong there and nothing else:
the clients that InnoDB may choose a victim from are exactly the pairs that share
and want one row, so that circles of three or more do not occur, with any number
of clients.  `QueuesHaveAHead` adds that every other client that waits is one
or two steps from a client that can go on: the safety half of `EveryCallReturns`.

`WebhookInboxProofs` shows the same way that `InboxInv` is inductive: what a
worker may rely on at each step (`WorkerInv`), what a status says of attempts,
effects and returned objects (`EventInv`), and the five properties.  `SettledStays` and
`ClaimsEnd` are about steps and use `ReportsMeetTheirClaim`: no report finds its
event settled or in other hands.  `InboxRefinesLifecycle` shows
`Spec => Lifecycle!Spec` from `InboxInv`, worker's step by worker's step; that
settled rows stay as they are and attempts count up (`SettledStays`) is part of
it.  `AbandonedForGood` is the general form of `inbox_crash`: once the worker of
an event is gone its row never changes again, whoever delivers, claims or reports.

`CandidateReviewProofs` proves `PipelineInv` inductive for any candidates,
evaluator answers and proposals, and for both stages (`GenerationAssumption`,
`ProposalsAssumption`).  The properties alone are not: that evidence describes
the patch tested needs `GateInv`, which says at each step what the judgements,
the checkout and the budgets have come to (a clean checkout until the candidate
is applied, exactly the candidate and its pin once it was tested).
`BudgetsSuffice` rests on two parts of it: the author's calls are one more than the
judgements, of which the gate allows three, and what is not recorded
(`Unrecorded`) is nothing until an answer is lost and one answer afterwards.  That
no run ends for its tokens is not claimed, and is not so (see "Disagreements
met").  `OutcomesAreExplained` rests on `RoundsInv`: each round's review is of its own patch
and asked for changes.  That a repair keeps the pin is false (`repair_drops_pin`).

`GenerationProofs` holds what both extensions of `Generation` need of it: that
its own step keeps `GateInv` and the types, and what it does to the evidence
file.  `PublicationProofs` proves `PublicationInv` for any candidates and number
of evidence files (`PublicationAssumption`, `AbsentAssumption`).  The two
properties are not inductive: metadata may tell of two files at once, so `Sound`
says what it can tell at most (the digest's file is not newer than the
content's, nor than the look at the issue; while the content's file is there
its patch is that file's), and `IterationInv` that a digest that matches at
`iterate-pr` pins both down to one file, or is that of a file half written whose
chain can no longer match.

`RunCheckpointsProofs` proves three invariants for any attempts, keys, branches
and number of resumers.  `MomentInv`: before the switch PostgreSQL's rows, and
the snapshot a migration reads, are `Within` a later state of MySQL, so that
what a commit leaves is one moment of MySQL; its staged tables are the
snapshot's as far as it has come.  `OrderInv`: attempts do not overlap (of two,
one was last written before the other began) unless one was reused, in every
copy as well, so that `created_at` orders them as they were written.
`TrackInv`: the run a resumer holds is the stored one or an earlier version of
it, and its checkpoint is not of a later version than the stored run's.  The
properties about resume follow from them.

`PRIterationProofs` proves `IterationInv` for any files, patches, comments,
foreign pushes and commands (`IterationAssumption`).  `OneCommitPerCommand` has
to hold of every line of commits, pushed or not (`LinesInv`), and stays true
because a command's input file names the branch as it was before the command had
a commit (`CommandsInv`), and because a commit is made on top of that head and no
other (`WorktreeInv`).  `HistoryInv` is what git promises of ancestors;
a fresh clone may only lose a commit that no reply, input file or journal entry
names.  `FeedbackInv` says that a fetch leaves nothing out below its newest
comment, whatever is written meanwhile, and `NewestInv` that there is a newest
one: an invariant, comments coming one at a time.  `OneReplyPerRepair` needs
`AnsweredInv`: a run that pushes or replies has either been compared with the
commit, or made it and is the first to speak of it, or whoever spoke of it before
had the very same patch.  `RefusalLeavesClean` rests on
two lemmas about patches that undo each other.

`IterationRefinesEffects` shows `Spec => Effects!Spec`.  `IterationInv` is not
enough: `EffectsInv` says that a commit's line is its parent's and itself, that
the commit to push has the recorded head for its parent, that a running command
is not recorded, and that a reply stands where its marker says.  A fast-forward
push then adds one commit exactly, since the branch is either still the parent
or has the commit (`PushPublishes`); a reply's marker is new because the search
found none of its comment, commit and patch (`PostAnswers`, with `NullAssumption`: no
marker is the absent one);
a record finds its commit and replies there (`CompleteRecords`).
`AppendOnly` follows from the refinement alone: what `CommandEffects` lets appear
stays, and so the ancestry that `verify_append_only_history` checks is kept.

`RerunsConverge` has a hypothesis, `Repeating(p)`: every repair the models give
is the one patch `p`, in git's words, and nobody else pushes.  This is what
`iterate_converges` checks; with the repairs of `iterate_faults`, which differ
from run to run, TLC finds `PushedConverges` violated.  `RepeatInv` says that there is then one
repair commit at most, because `p` applies on top of `p` only if it changes
nothing (`OnTopOfItself`), and a fresh clone drops one that was never pushed.

`OperationMigrationProofs` proves `MigrationInv` for any package, layout and
number of faults (`MigrationAssumption`, `OrderAssumption`: names of operations'
files come before those of legacy files, because they begin with a capital).
While files are written each is as it was or as it shall be (`WriteInv`); those
of the legacy files come last (`OrderInv`), which is why nothing is lost to a
process that is killed; a file that is not to be restored any more is as it was
(`RestoreInv`).  The lemmas about the split never say what a declaration
reaches: one that has a single owner moves, any other stays, and so every
declaration is in one file afterwards, whatever `Reached` answers.

`MigratedStays` needs what `Reached` computes.  The library's induction rule takes
an operator as its parameter; the proofs do induction without it, on the least
counterexample of a set of numbers (`Least`, `Induction`, from the well-foundedness
of the naturals), and so show that the recursive function adds a round of
references at a time and is closed after as many rounds as there are
declarations (`ReachedIsClosure`).  From this `StayInv` is inductive: an
operation's file holds only operations that it pulls, and so none that pulls it,
which alone could take it out again.  The theorem has two hypotheses:
`PullOneWay`, that no two operations pull each other, and `PulledTogether`, that
the operations' files there are at first hold what the tool would have put there.
Both are true of the layouts of `migrate_routes`; with two operations that name
each other TLC finds `MigratedStaysInPlace` violated, so the first is needed.

Model-checked only: liveness (`EveryCallReturns`,
`DeliveriesSettleUnlessAbandoned`, `StartedCompletes`,
`EveryOperationMigrates`), for the prover does not reason about fairness with
`ENABLED`.  Every other property of a passing run is a theorem, two of them
under the hypotheses named.

## Disagreements met

Three are runs (see "findings").  The models show some more that have no run:

* on MySQL two transitions of one run wait for each other: the key's INSERT
  shares the run row through its foreign key, the UPDATE wants it exclusively.
  The loser gets `StateStoreError` where PostgreSQL reports a version conflict,
  although docs/architecture.md:103 has local MySQL preserve equivalent behaviour
  (`NoLockCycle` fails with `Engine = "mysql"`; `EveryCallReturns` shows that the
  detector resolves it);
* migrating one route takes a helper that another operation of the file reaches
  as well, because owners are computed from the operations of the request
  (`sdk_refactor.py:1286`, `Owners`); docs/workflow.md:46 keeps it in the common
  file;
* a migration that is run again after PostgreSQL has taken transitions takes the
  run back to an older version, so that a stale expected version is accepted
  (`overtaken`; docs/architecture.md:103 says it fails atomically), and what
  MySQL's callers write after the snapshot is not in PostgreSQL after the switch
  (`gap`);
* recording an attempt again keeps its `created_at`, so that `resume` may choose
  an attempt that was written earlier (`reused`, `state.py:296`);
* the metadata of a pull request can tell of two evidence files at once, the
  digest of one and the patch of the next (`publishing.py:104` and `311`), where
  docs/workflow.md:85 has the publisher parse the verified artifact; `iterate-pr`
  refuses it, and there is no other reader.  `publish` never compares the
  candidate's commit with the artifact's patch;
* a retry can post a second reply about one commit.  The marker hashes the text of
  the patch (`pr_iteration.py:648`), and the replay compares it stripped (`:537`).
  A run commits and replies with a patch in the model's own words and is
  interrupted; the next one is given the patch as git prints it, finds the commit
  to be its own, finds no reply to that text and posts another; blanks at the end
  of the text are enough.  docs/workflow.md:105 has a retry converge on
  the existing remote object instead of creating a duplicate
  (`OneReplyPerRepair` says when it does: the text is the same);
* three answers of the 32,000 tokens a request allows (`model.py:173`) exceed the
  80,000 of the budget (`generation.py:263` and `287`), so that the token budget can
  end a run that had a revision left (`LoseAnswer`; `BudgetsHold` promises the
  calls only);
* an answer that exceeds a budget, is no JSON, or came after its time-out was paid
  for and is not recorded (`budget.py:31`, `model.py:209`).  The first two are
  `LoseAnswer`; time-outs are not modelled;
* what the commands leave inside the allow-list is part of the final patch
  (`generation.py:314`, `patching.py:54`), although neither the gate nor a test
  saw it (`Leftover`; `ReviewedIsTested` allows it).  The reviewer does see it;
* a handler's dictionary that JSON cannot hold leaves its event `processing`
  (`HandlerReturnsBad`; `ClaimsEndInReports` excepts it);
* a repair that only adds a file is refused as unchanged, because
  `git diff --quiet` does not see untracked files (`pr_iteration.py:495`,
  `DiffQuiet`);
* a retry whose models word the repair differently is refused although the
  commit was pushed (`pr_iteration.py:537`, `IsThisRepair`), and a replay pushes
  also when origin is ahead (`ReconcileRepair`);
* migrating an operation moves the operations it calls as well, and one whose
  name begins with another's follows it: `EveryOperationMigrates` therefore
  assumes `NamesApart`.  Without it, Get takes
  GetAll into Get.go, GetAll's migration takes Get out again, and the empty
  Get.go blocks every later plan.

## Not modelled

What is left, in order of importance:

1. `Publication` composed with `PRIteration`: `publish` checks the history that
   the first repair appends to, and authorization is checked once, before the
   feedback is fetched.
2. Two `iterate-pr` processes on one journal (`pr_iteration.py:779`): the last
   one to write it forgets the other's command.  The documents forbid it and
   nothing in the code stops it.
3. The three attempts of a model request, of which one that was timed out may have
   been paid for; tokens and money apart from each other.
4. The other tables of the state migration.  Approvals, pull requests, comments
   and repairs are read by nothing else.  Webhook deliveries are copied with
   their status: what MySQL's workers hold then is `processing` in PostgreSQL
   for ever, as `inbox_crash` shows of a worker that stops.
5. Liveness of the gate and of the repair loop.  Their loops are bounded by
   counters, and models that never answer are the caller's time-outs.

Abstract specifications: `RunLedger`, `DeliveryLifecycle` and `CommandEffects` are
stated and implemented.  One more is worth stating: generation and review as "only a judged and tested patch is ever under review" in one step each.

Not planned: the planning API (a stateless function behind a threaded server),
catalogs, skills, policies, evaluations, limits and redaction (pure functions
over text or configuration), and the scripts.
