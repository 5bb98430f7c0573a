----------------------------- MODULE Generation -----------------------------
(***************************************************************************)
(* generate-sdk and generate-provider (_generate): a draft, the gate of    *)
(* evaluator and optimizer, the trusted commands in the checkout, and the  *)
(* two files that keep the patch and its evidence.                         *)
(*                                                                         *)
(* A patch is what git diff finds in the checkout: the candidates applied  *)
(* there, Pin, the go.mod that the provider's commands pin the SDK in, and *)
(* what a command left behind: Leftover, a file inside the allow-list, and *)
(* Stray, one outside it.                                                  *)
(*                                                                         *)
(* Tokens and money are one measure: what an answer costs.                 *)
(***************************************************************************)
EXTENDS Integers, Sequences, SequencesExt

CONSTANTS
  Candidates,    \* complete candidates a model may return
  OutOfScope,    \* those whose citations or paths the validator refuses
  Assessments,   \* [decision, mean, least], what an evaluator may answer
  Provider,      \* whether this is generate-provider, which pins the SDK
  Sizes,         \* what an answer may cost
  MaxTokens,     \* what a budget allows in all
  Pin, Stray, Leftover, Absent, Torn

ASSUME GenerationAssumption ==
  /\ OutOfScope \subseteq Candidates
  /\ Assessments \subseteq [decision : {"pass", "revise", "block"},
                            mean : 0..100, least : 0..100]
  /\ Provider \in BOOLEAN
  /\ {Pin, Stray, Leftover} \cap Candidates = {}
  /\ Pin # Stray /\ Leftover \notin {Pin, Stray}
  /\ Sizes \subseteq Nat /\ MaxTokens \in Nat

VARIABLES
  gpc,           \* where the command is in _generate; "idle" when none runs
  candidate,     \* the model's last complete answer, or Absent
  judgements,    \* the evaluations so far, with the candidate each is of
  budget,        \* the Budget of each model, as far as it is charged
  bill,          \* history: what the answers of each model cost this run
  tree,          \* the edits in the checkout
  testedTree,    \* history: what the commands of this run saw
  patchFile,     \* <stage>.patch in the output directory
  evidenceFile   \* <stage>-evidence.json beside it

runVars == <<candidate, judgements, budget, bill, testedTree>>
files == <<patchFile, evidenceFile>>
genVars == <<gpc, runVars, tree, files>>

MaximumRevisions == 2
MaxModelCalls == 3
MinimumScore == 85
MinimumDimensionScore == 75

Models == {"author", "judge"}

Patches == SUBSET (Candidates \cup {Pin, Stray, Leftover})

(* What the trusted executor adds to a candidate. *)
Pinned == IF Provider THEN {Pin} ELSE {}

Judgement == [of : Candidates, answer : Assessments]

Evidence ==
  [patch : Patches, tested : Patches, judgements : Seq(Judgement)]

GenPCs ==
  {"idle", "drafting", "validating", "judging", "revising", "raising", "applying",
   "testing", "diffing", "writing", "patching", "recording", "evidencing"}

GenTypeOK ==
  /\ gpc \in GenPCs
  /\ candidate \in Candidates \cup {Absent}
  /\ judgements \in Seq(Judgement)
  /\ budget \in [Models -> [calls : Nat, spent : Nat]] /\ bill \in [Models -> Nat]
  /\ tree \in Patches /\ testedTree \in Patches
  /\ patchFile \in {Absent, Torn} \cup Patches
  /\ evidenceFile \in {Absent, Torn} \cup Evidence

Unspent == [m \in Models |-> [calls |-> 0, spent |-> 0]]
Unbilled == [m \in Models |-> 0]

GenInit ==
  /\ gpc = "idle"
  /\ candidate = Absent
  /\ judgements = <<>>
  /\ budget = Unspent /\ bill = Unbilled
  /\ tree = {} /\ testedTree = {}
  /\ patchFile = Absent /\ evidenceFile = Absent
-----------------------------------------------------------------------------
(* Mutant: no look at git status. *)
StartsAnywhere == TRUE

(* The checkout must be clean, untracked files included. *)
StartsClean == tree = {}

StartGeneration ==
  /\ gpc = "idle"
  /\ StartsClean
  /\ gpc' = "drafting"
  /\ UNCHANGED <<runVars, tree, files>>

(* Mutant: each answer is compared with the limits by itself. *)
ChargesEachAlone(m, n) == budget[m].calls + 1 <= MaxModelCalls /\ n <= MaxTokens

(* Budget.charge, after the model has answered. *)
Charges(m, n) ==
  /\ budget[m].calls + 1 <= MaxModelCalls
  /\ budget[m].spent + n <= MaxTokens

Billed(m, n) == bill' = [bill EXCEPT ![m] = @ + n]

(* An answer that can be parsed, and that its budget covers. *)
Charged(m) ==
  \E n \in Sizes :
    /\ Charges(m, n)
    /\ budget' = [budget EXCEPT ![m] = [calls |-> @.calls + 1, spent |-> @.spent + n]]
    /\ Billed(m, n)

Asking(m) == gpc \in (IF m = "author" THEN {"drafting", "revising"} ELSE {"judging"})

(* One that is no JSON raises before it is charged, and one that exceeds a *)
(* limit is not recorded: either was paid for, and ends the run.           *)
LoseAnswer(m) ==
  /\ Asking(m)
  /\ \E n \in Sizes : Billed(m, n)
  /\ gpc' = "raising"
  /\ UNCHANGED <<candidate, judgements, budget, tree, testedTree, files>>

Draft(c) ==
  /\ gpc = "drafting"
  /\ Charged("author")
  /\ candidate' = c
  /\ gpc' = "validating"
  /\ UNCHANGED <<judgements, tree, testedTree, files>>

(* Schema, citations and paths; whatever the validator refuses ends the run. *)
ValidateCandidate ==
  /\ gpc = "validating"
  /\ candidate \notin OutOfScope
  /\ gpc' = "judging"
  /\ UNCHANGED <<runVars, tree, files>>

(* A revision must score better than the candidate it replaces. *)
Improves(a) == judgements # <<>> => a.mean > Last(judgements).answer.mean

(* Means and dimensions are in hundredths. *)
Passes(a) ==
  /\ a.decision = "pass"
  /\ a.mean >= MinimumScore
  /\ a.least >= MinimumDimensionScore

Judged(a) ==
  /\ gpc = "judging"
  /\ Charged("judge")
  /\ judgements' = Append(judgements, [of |-> candidate, answer |-> a])
  /\ UNCHANGED <<candidate, tree, testedTree, files>>

Accept(a) == Judged(a) /\ Improves(a) /\ Passes(a) /\ gpc' = "applying"

(* iteration < maximum_revisions, counted by the evaluations before this one *)
MayRevise == Len(judgements) < MaximumRevisions

AskRevision(a) ==
  /\ Judged(a)
  /\ Improves(a) /\ ~Passes(a)
  /\ a.decision # "block"
  /\ MayRevise
  /\ gpc' = "revising"

(* A complete replacement, which the next iteration validates and judges. *)
Optimize(c) ==
  /\ gpc = "revising"
  /\ Charged("author")
  /\ candidate' = c
  /\ gpc' = "validating"
  /\ UNCHANGED <<judgements, tree, testedTree, files>>

(* validate_patch once more, then git apply. *)
ApplyCandidate ==
  /\ gpc = "applying"
  /\ candidate \notin OutOfScope
  /\ tree' = tree \cup {candidate}
  /\ gpc' = "testing"
  /\ UNCHANGED <<runVars, files>>

(* gofmt, go get and the tests pass, and the tests may leave files. *)
RunCommands ==
  /\ gpc = "testing"
  /\ testedTree' = tree \cup Pinned
  /\ \E left \in SUBSET {Leftover, Stray} : tree' = testedTree' \cup left
  /\ gpc' = "diffing"
  /\ UNCHANGED <<candidate, judgements, budget, bill, files>>

(* provider_publish_policy allows go.mod, which provider_policy does not. *)
DiffInScope == Stray \notin tree /\ tree \cap OutOfScope = {}

(* repository_diff, and the final allow-list. *)
TakeDiff ==
  /\ gpc = "diffing"
  /\ DiffInScope
  /\ gpc' = "writing"
  /\ UNCHANGED <<runVars, tree, files>>

(* write_text empties the file before it writes it. *)
OpenPatch ==
  /\ gpc = "writing"
  /\ patchFile' = Torn
  /\ gpc' = "patching"
  /\ UNCHANGED <<runVars, tree, evidenceFile>>

WritePatch ==
  /\ gpc = "patching"
  /\ patchFile' = tree
  /\ gpc' = "recording"
  /\ UNCHANGED <<runVars, tree, evidenceFile>>

OpenEvidence ==
  /\ gpc = "recording"
  /\ evidenceFile' = Torn
  /\ gpc' = "evidencing"
  /\ UNCHANGED <<runVars, tree, patchFile>>

Forget ==
  /\ gpc' = "idle"
  /\ candidate' = Absent
  /\ judgements' = <<>>
  /\ budget' = Unspent /\ bill' = Unbilled
  /\ testedTree' = {}

WriteEvidence ==
  /\ gpc = "evidencing"
  /\ evidenceFile' = [patch |-> tree, tested |-> testedTree, judgements |-> judgements]
  /\ Forget
  /\ UNCHANGED <<tree, patchFile>>

(* The command raises (a model, a refused candidate, an evaluation that    *)
(* neither passes nor may be revised, git, a failing test, a full disk) or *)
(* its process dies: nothing cleans the checkout up, or the files.         *)
Stop ==
  /\ gpc # "idle"
  /\ Forget
  /\ UNCHANGED <<tree, files>>

(* The operator's fresh checkout, which the next command asks for. *)
DiscardEdits ==
  /\ gpc = "idle"
  /\ tree # {}
  /\ tree' = {}
  /\ UNCHANGED <<gpc, runVars, files>>

Generate ==
  \/ \E m \in Models : LoseAnswer(m)
  \/ \E c \in Candidates : Draft(c) \/ Optimize(c)
  \/ ValidateCandidate
  \/ \E a \in Assessments : Accept(a) \/ AskRevision(a)
  \/ ApplyCandidate \/ RunCommands \/ TakeDiff
  \/ OpenPatch \/ WritePatch \/ OpenEvidence \/ WriteEvidence
  \/ Stop

GenNext == StartGeneration \/ DiscardEdits \/ Generate
-----------------------------------------------------------------------------
(* The checkout never mixes candidates: what one run leaves behind, failed, *)
(* killed or finished, is never in the patch of another.                   *)
OneCandidatePerPatch ==
  /\ tree = {} \/ \E c \in Candidates : tree \subseteq {c, Pin, Stray, Leftover}
  /\ gpc \in {"drafting", "validating", "judging", "revising", "raising", "applying"} =>
       tree = {}

Unrecorded(m) == bill[m] - budget[m].spent

(* Two revisions fit the two budgets of three calls: no run ends for having *)
(* revised as often as the gate allows, though it may for what its answers  *)
(* cost.  What is recorded stays within the limit, and what the answers did *)
(* cost is at most one answer more, whichever model gave it, and then the   *)
(* run is over.                                                             *)
BudgetsHold ==
  /\ \A m \in Models :
       /\ Asking(m) => budget[m].calls < MaxModelCalls
       /\ budget[m].spent <= MaxTokens
  /\ LET more == Unrecorded("author") + Unrecorded("judge")
     IN more = 0 \/ (gpc = "raising" /\ more \in Sizes)

Improving(js) ==
  \A i \in 1..Len(js) - 1 : js[i].answer.mean < js[i + 1].answer.mean

(* c came through the gate with the judgements js. *)
Accepted(js, c) ==
  /\ js # <<>> /\ Improving(js)
  /\ Last(js).of = c /\ Passes(Last(js).answer)

(* Evidence that tells a candidate's whole way: each judgement better than *)
(* the one before, the last one a pass, and of the very candidate whose    *)
(* diff was in scope, was tested and was kept, together with what the      *)
(* tests left inside the allow-list and nothing else.                      *)
Accounts(e) ==
  \E c \in Candidates \ OutOfScope :
    /\ Accepted(e.judgements, c)
    /\ e.tested = {c} \cup Pinned
    /\ e.patch \in {e.tested, e.tested \cup {Leftover}}

(* Evidence never describes another run's patch, or an unjudged revision. *)
EvidenceIsOfThePatch == evidenceFile \notin {Absent, Torn} => Accounts(evidenceFile)
-----------------------------------------------------------------------------
(* What each step of the command may rely on. *)
GateInv ==
  /\ Improving(judgements)
  /\ \A m \in Models : budget[m].spent <= MaxTokens
  /\ budget["judge"].calls = Len(judgements)
  /\ gpc # "raising" => \A m \in Models : Unrecorded(m) = 0
  /\ gpc = "raising" =>
       \E m \in Models : Unrecorded(m) \in Sizes /\ \A k \in Models \ {m} : Unrecorded(k) = 0
  /\ gpc \in {"idle", "drafting"} => judgements = <<>> /\ budget["author"].calls = 0
  /\ gpc \in {"validating", "judging"} =>
       budget["author"].calls = Len(judgements) + 1 /\ Len(judgements) <= MaximumRevisions
  /\ gpc = "revising" =>
       budget["author"].calls = Len(judgements) /\ Len(judgements) <= MaximumRevisions
  /\ gpc \notin {"idle", "drafting", "raising"} => candidate \in Candidates
  /\ gpc = "judging" => candidate \notin OutOfScope
  /\ gpc \in {"applying", "testing", "diffing", "writing", "patching", "recording",
               "evidencing"} =>
       Accepted(judgements, candidate) /\ candidate \notin OutOfScope
  /\ OneCandidatePerPatch
  /\ gpc = "testing" => tree = {candidate}
  /\ gpc \in {"diffing", "writing", "patching", "recording", "evidencing"} =>
       /\ testedTree = {candidate} \cup Pinned
       /\ testedTree \subseteq tree /\ tree \subseteq testedTree \cup {Stray, Leftover}
  /\ gpc \in {"writing", "patching", "recording", "evidencing"} => Stray \notin tree
=============================================================================
