-------------------------- MODULE CandidateReview --------------------------
(***************************************************************************)
(* The review of what Generation keeps: build_review_bundle over a copy of *)
(* the two files, the first review, at most two repairs with validation    *)
(* and re-review (run_bounded_repair_iterations), and their history.  A    *)
(* generation may run beside it.                                           *)
(*                                                                         *)
(* A review's input digest is the sequence of patches it commits to: the   *)
(* bundle's own last, after those of the rounds before it.                 *)
(***************************************************************************)
EXTENDS Generation

CONSTANT Proposals    \* the patches a repair model may return

ASSUME ProposalsAssumption == Proposals \subseteq Patches

VARIABLES
  rpc,       \* where the reviewer is; "idle" when nothing is under review
  inHand,    \* the patch copied for the review, or proposed by the repair
  bundle,    \* [patch, source, input], what is under review
  limit,     \* max_iterations
  reviewed,  \* <<[patch, review], ...>>: the candidate's, then each round's
  outcome    \* [status, patch, source, review, history], of the last loop

reviewVars == <<rpc, inHand, bundle, limit, reviewed, outcome>>
vars == <<genVars, reviewVars>>

MaxRepairIterations == 2

Decisions == {"approve", "request_changes", "block"}

Review == [decision : Decisions, input : Seq(Patches)]
Round  == [patch : Patches, review : Review]
Bundle == [patch : Patches, source : Evidence, input : Seq(Patches)]
Event  == [kind : {"proposal", "validation", "review"}, about : Patches,
           decision : Decisions \cup {Absent}]
Outcome ==
  [status : {"approved", "blocked", "repair_limit_reached"}, patch : Patches,
   source : Evidence, review : Review, history : Seq(Event)]

TypeOK ==
  /\ GenTypeOK
  /\ rpc \in {"idle", "copying", "reviewing", "proposing", "checking"}
  /\ inHand \in {Absent, Torn} \cup Patches
  /\ bundle \in {Absent} \cup Bundle
  /\ limit \in 0..MaxRepairIterations
  /\ reviewed \in Seq(Round)
  /\ outcome \in {Absent} \cup Outcome

Init ==
  /\ GenInit
  /\ rpc = "idle"
  /\ inHand = Absent /\ bundle = Absent /\ outcome = Absent
  /\ limit = 0
  /\ reviewed = <<>>
-----------------------------------------------------------------------------
(* The operator copies the patch into the review's input ... *)
CopyPatch ==
  /\ rpc = "idle"
  /\ patchFile # Absent
  /\ inHand' = patchFile
  /\ outcome' = Absent
  /\ rpc' = "copying"
  /\ UNCHANGED <<genVars, bundle, limit, reviewed>>

(* Mutant: the digests are not compared. *)
MatchesAny == TRUE

(* The digest in the evidence, and in its frozen VERIFY artifact. *)
MatchesEvidence == inHand = evidenceFile.patch

(* ... and the evidence after it. *)
BuildBundle ==
  /\ rpc = "copying"
  /\ evidenceFile \notin {Absent, Torn}
  /\ MatchesEvidence
  /\ bundle' = [patch |-> inHand, source |-> evidenceFile, input |-> <<inHand>>]
  /\ limit' \in 0..MaxRepairIterations
  /\ rpc' = "reviewing"
  /\ UNCHANGED <<genVars, inHand, reviewed, outcome>>

(* run_independent_review, with the bundle's own digest in the answer. *)
ReviewOf(d) == [decision |-> d, input |-> bundle.input]

Rounds(d) == Append(reviewed, [patch |-> bundle.patch, review |-> ReviewOf(d)])

Repairs == Len(reviewed)

EventOf(r, step) ==
  [kind     |-> <<"proposal", "validation", "review">>[step + 1],
   about    |-> IF step = 2 THEN Last(r.review.input) ELSE r.patch,
   decision |-> IF step = 2 THEN r.review.decision ELSE Absent]

(* build_review_history: three linked events a round. *)
History(rs) ==
  [k \in 1..3 * Len(rs) |-> EventOf(rs[((k - 1) \div 3) + 1], (k - 1) % 3)]

(* Mutant: the decision is returned as the status. *)
StatusIsDecision(d) == d

Status(d) ==
  CASE d = "approve" -> "approved"
    [] d = "block"   -> "blocked"
    [] OTHER         -> "repair_limit_reached"

ForgetReview ==
  /\ rpc' = "idle"
  /\ inHand' = Absent /\ bundle' = Absent
  /\ limit' = 0
  /\ reviewed' = <<>>

(* An approval or a block ends the loop, and so does its last round. *)
EndReview(d) ==
  /\ rpc = "reviewing"
  /\ d # "request_changes" \/ Repairs = limit
  /\ outcome' = [status  |-> Status(d),
                 patch   |-> bundle.patch,
                 source  |-> bundle.source,
                 review  |-> ReviewOf(d),
                 history |-> History(Rounds(d))]
  /\ ForgetReview
  /\ UNCHANGED genVars

AskRepair(d) ==
  /\ rpc = "reviewing"
  /\ d = "request_changes" /\ Repairs < limit
  /\ reviewed' = Rounds(d)
  /\ rpc' = "proposing"
  /\ UNCHANGED <<genVars, inHand, bundle, limit, outcome>>

ProposeRepair(p) ==
  /\ rpc = "proposing"
  /\ inHand' = p
  /\ rpc' = "checking"
  /\ UNCHANGED <<genVars, bundle, limit, reviewed, outcome>>

(* validate_iteration_repair: the stage's own allow-list. *)
RepairInScope(p) == p # {} /\ p \cap ({Pin, Stray} \cup OutOfScope) = {}

(* Mutant: the reviewer of a repair is shown the old bundle's digest. *)
RepairBundleOldInput == [bundle EXCEPT !.patch = inHand]

RepairBundle ==
  [patch |-> inHand, source |-> bundle.source, input |-> Append(bundle.input, inHand)]

ValidateRepair ==
  /\ rpc = "checking"
  /\ RepairInScope(inHand)
  /\ bundle' = RepairBundle
  /\ rpc' = "reviewing"
  /\ UNCHANGED <<genVars, inHand, limit, reviewed, outcome>>

(* The review raises: unreadable or mismatched input, a model's bad answer, *)
(* a repair that does not pass, no more budget; or its process dies.        *)
StopReview ==
  /\ rpc # "idle"
  /\ ForgetReview
  /\ UNCHANGED <<genVars, outcome>>

ReviewNext ==
  \/ CopyPatch \/ BuildBundle
  \/ \E d \in Decisions : EndReview(d) \/ AskRepair(d)
  \/ \E p \in Proposals : ProposeRepair(p)
  \/ ValidateRepair
  \/ StopReview

Next ==
  \/ GenNext /\ UNCHANGED reviewVars
  \/ ReviewNext

Spec == Init /\ [][Next]_vars
-----------------------------------------------------------------------------
(* What is under review is what one run tested and its gate accepted, with *)
(* nothing more than what its tests left inside the allow-list; also when  *)
(* that run was stopped, or another began, between the writes of its two   *)
(* files or the reads of them.                                             *)
ReviewedIsTested ==
  bundle # Absent =>
    /\ Accounts(bundle.source)
    /\ bundle.input # <<>> /\ Head(bundle.input) = bundle.source.patch

(* An outcome's review read the very patch that the outcome returns, and   *)
(* that patch is the candidate itself or passed its validation.            *)
OutcomeIsOfItsPatch ==
  outcome # Absent =>
    /\ Last(outcome.review.input) = outcome.patch
    /\ outcome.status = "approved" <=> outcome.review.decision = "approve"
    /\ outcome.patch = outcome.source.patch \/ RepairInScope(outcome.patch)

(* The history alone tells how the outcome came about: every patch was     *)
(* proposed, validated and reviewed in this order, each review but the     *)
(* last asked for changes, and the last one is the outcome's.              *)
HistoryTellsOutcome ==
  outcome # Absent =>
    LET h == outcome.history
        n == Len(h)
    IN /\ n \in {3, 6, 9}
       /\ h[1].about = outcome.source.patch
       /\ \A i \in 1..n :
            /\ h[i].kind = <<"review", "proposal", "validation">>[(i % 3) + 1]
            /\ i % 3 # 1 => h[i].about = h[i - 1].about
            /\ i % 3 = 0 /\ i < n => h[i].decision = "request_changes"
       /\ h[n].decision = outcome.review.decision
       /\ h[n].about = outcome.patch

(* What run_bounded_repair_iterations returns accounts for itself: its     *)
(* review is of its patch and its history leads from the candidate there.  *)
OutcomeIsExplained == OutcomeIsOfItsPatch /\ HistoryTellsOutcome

(* Provider pull requests pin the approved SDK revision: a repair replaces *)
(* the whole patch, so its replacement has to hold the pin again.          *)
RepairKeepsPin ==
  outcome # Absent /\ outcome.status = "approved" =>
    (Pin \in outcome.source.patch => Pin \in outcome.patch)
-----------------------------------------------------------------------------
(* What the reviewer may rely on at each of its steps. *)
BundleInv ==
  /\ bundle \in Bundle
  /\ Accounts(bundle.source)
  /\ bundle.input # <<>>
  /\ Head(bundle.input) = bundle.source.patch
  /\ Last(bundle.input) = bundle.patch
  /\ bundle.patch = bundle.source.patch \/ RepairInScope(bundle.patch)

(* What the rounds so far say. *)
RoundsInv ==
  /\ Len(reviewed) <= limit
  /\ IF reviewed = <<>> THEN bundle.patch = bundle.source.patch
                        ELSE reviewed[1].patch = bundle.source.patch
  /\ \A i \in 1..Len(reviewed) :
       /\ reviewed[i].review.input # <<>>
       /\ Last(reviewed[i].review.input) = reviewed[i].patch
       /\ reviewed[i].review.decision = "request_changes"

ReviewInv ==
  /\ bundle = Absent \/ BundleInv
  /\ rpc \in {"idle", "copying"} => reviewed = <<>>
  /\ rpc \in {"reviewing", "proposing", "checking"} => BundleInv /\ RoundsInv
  /\ rpc \in {"proposing", "checking"} => reviewed # <<>>
  /\ rpc = "checking" => inHand \in Patches

(* The inductive invariant behind the properties above. *)
PipelineInv ==
  /\ TypeOK
  /\ GateInv
  /\ EvidenceIsOfThePatch
  /\ ReviewInv
  /\ OutcomeIsOfItsPatch
  /\ HistoryTellsOutcome
=============================================================================
