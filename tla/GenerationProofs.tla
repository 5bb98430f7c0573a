-------------------------- MODULE GenerationProofs --------------------------
(***************************************************************************)
(* What a generation keeps, for any candidates and any answers: lemmas for *)
(* the modules that compose Generation with what reads its files.          *)
(***************************************************************************)
EXTENDS Generation, TLAPS

(* Scores compare as numbers.                                              *)
LEMMA ScoresAreNumbers == \A r \in Assessments : r.mean \in Int
<1> SUFFICES ASSUME NEW r \in Assessments
             PROVE  r.mean \in Int
  OBVIOUS
<1>1. r \in [decision : {"pass", "revise", "block"}, mean : 0..100, least : 0..100]
  BY GenerationAssumption
<1>2. PICK m \in 0..100 : m = r.mean
  BY <1>1
<1>3. 0..100 \subseteq Int
  BY SMT
<1> QED BY <1>2, <1>3

(* What a judgement adds to those before it (run_evaluator_optimizer_gate). *)
LEMMA JudgementAdded ==
  ASSUME NEW js \in Seq(Judgement), Improving(js),
         NEW c \in Candidates, NEW a \in Assessments,
         js # <<>> => a.mean > Last(js).answer.mean
  PROVE  LET more == Append(js, [of |-> c, answer |-> a])
         IN /\ more \in Seq(Judgement)
            /\ Len(more) = Len(js) + 1
            /\ more # <<>>
            /\ Last(more) = [of |-> c, answer |-> a]
            /\ Improving(more)
<1> DEFINE j == [of |-> c, answer |-> a]
           more == Append(js, j)
<1>1. j \in Judgement
  BY DEF Judgement
<1>2. more \in Seq(Judgement) /\ Len(more) = Len(js) + 1 /\ more # <<>>
  BY <1>1
<1>3. /\ \A i \in 1..Len(js) : more[i] = js[i]
      /\ more[Len(js) + 1] = j
  BY <1>1
<1>4. Last(more) = j
  BY <1>2, <1>3 DEF Last
<1>5. Improving(more)
  <2> SUFFICES ASSUME NEW i \in 1..Len(more) - 1
               PROVE  more[i].answer.mean < more[i + 1].answer.mean
    BY DEF Improving
  <2>1. CASE i < Len(js)
    <3>1. i \in 1..Len(js) - 1 /\ i \in 1..Len(js) /\ i + 1 \in 1..Len(js)
      BY <2>1, <1>2
    <3> QED BY <3>1, <1>3 DEF Improving
  <2>2. CASE i = Len(js)
    <3>1. js # <<>> /\ i \in 1..Len(js) /\ more[i] = Last(js) /\ more[i + 1] = j
      BY <2>2, <1>2, <1>3 DEF Last
    <3>2. j.answer.mean > Last(js).answer.mean
      BY <3>1
    <3>3. j.answer.mean \in Int /\ Last(js).answer.mean \in Int
      <4>1. Last(js) \in Judgement
        BY <3>1 DEF Last
      <4>2. Last(js).answer \in Assessments /\ j.answer \in Assessments
        BY <4>1, <1>1 DEF Judgement
      <4> QED BY <4>2, ScoresAreNumbers
    <3> QED BY <3>1, <3>2, <3>3
  <2> QED BY <2>1, <2>2, <1>2
<1> QED BY <1>2, <1>4, <1>5

(* A run begins with budgets of its own, and nothing to pay.               *)
LEMMA NothingBilled ==
  /\ Unspent \in [Models -> [calls : Nat, spent : Nat]] /\ Unbilled \in [Models -> Nat]
  /\ \A m \in Models :
       Unspent[m].calls = 0 /\ Unspent[m].spent = 0 /\ Unbilled[m] - Unspent[m].spent = 0
  /\ 0 <= MaxTokens
  /\ "author" \in Models /\ "judge" \in Models
BY GenerationAssumption DEF Unspent, Unbilled, Models

(* What charging an answer does to the budgets, and leaves of the others'. *)
LEMMA ChargeKeeps ==
  ASSUME GenTypeOK, GateInv, NEW m \in Models, Asking(m), Charged(m)
  PROVE  /\ budget' \in [Models -> [calls : Nat, spent : Nat]]
         /\ bill' \in [Models -> Nat]
         /\ budget'[m].calls = budget[m].calls + 1
         /\ \A k \in Models \ {m} : budget'[k].calls = budget[k].calls
         /\ \A k \in Models : Unrecorded(k)' = 0 /\ budget'[k].spent <= MaxTokens
<1>1. /\ budget \in [Models -> [calls : Nat, spent : Nat]] /\ bill \in [Models -> Nat]
      /\ \A k \in Models : bill[k] - budget[k].spent = 0 /\ budget[k].spent <= MaxTokens
  BY DEF GenTypeOK, GateInv, Asking, Unrecorded
<1>2. PICK n \in Sizes :
        /\ budget[m].spent + n <= MaxTokens
        /\ budget' = [budget EXCEPT ![m] = [calls |-> @.calls + 1, spent |-> @.spent + n]]
        /\ bill' = [bill EXCEPT ![m] = @ + n]
  BY DEF Charged, Charges, Billed
<1>3. n \in Nat
  BY GenerationAssumption
<1>4. /\ budget'[m] = [calls |-> budget[m].calls + 1, spent |-> budget[m].spent + n]
      /\ bill'[m] = bill[m] + n
      /\ \A k \in Models \ {m} : budget'[k] = budget[k] /\ bill'[k] = bill[k]
  BY <1>1, <1>2
<1>5. ASSUME NEW k \in Models
      PROVE  Unrecorded(k)' = 0 /\ budget'[k].spent <= MaxTokens
  <2>1. CASE k = m
    <3>1. bill[m] \in Nat /\ budget[m].spent \in Nat
      BY <1>1
    <3> QED BY <1>1, <1>2, <1>3, <1>4, <2>1, <3>1 DEF Unrecorded
  <2>2. CASE k # m
    BY <1>1, <1>4, <2>2 DEF Unrecorded
  <2> QED BY <2>1, <2>2
<1> QED BY <1>1, <1>2, <1>3, <1>4, <1>5

(* However a run ends, it leaves no more than its checkout and its files.  *)
LEMMA Forgets ==
  ASSUME GenTypeOK, GateInv, Forget, tree' = tree,
         patchFile' = patchFile, evidenceFile' \in {Absent, Torn} \cup Evidence
  PROVE  GenTypeOK' /\ GateInv'
<1>1. /\ gpc' = "idle" /\ candidate' = Absent /\ judgements' = <<>> /\ testedTree' = {}
      /\ budget' = Unspent /\ bill' = Unbilled
  BY DEF Forget
<1>2. GenTypeOK'
  BY <1>1, NothingBilled DEF GenTypeOK, GenPCs, Patches
<1>3. \A m \in Models : Unrecorded(m)' = 0 /\ budget'[m].spent <= MaxTokens
  BY <1>1, NothingBilled DEF Unrecorded
<1>4. budget'["author"].calls = 0 /\ budget'["judge"].calls = 0
  BY <1>1, NothingBilled
<1> QED BY <1>1, <1>2, <1>3, <1>4 DEF GateInv, Improving, OneCandidatePerPatch

(* What the operator and the command do to the checkout, the gate and the  *)
(* two files (_generate).                                                  *)
LEMMA GenerationKeeps ==
  ASSUME GenTypeOK, GateInv, EvidenceIsOfThePatch, GenNext
  PROVE  GenTypeOK' /\ GateInv' /\ EvidenceIsOfThePatch'
<1> USE DEF GenTypeOK, runVars, files
<1>1. CASE StartGeneration
  <2>1. GenTypeOK'
    BY <1>1 DEF StartGeneration, GenPCs
  <2>2. GateInv'
    BY <1>1 DEF StartGeneration, StartsClean, GateInv, OneCandidatePerPatch, Unrecorded
  <2> QED BY <1>1, <2>1, <2>2 DEF StartGeneration, EvidenceIsOfThePatch
<1>2. CASE DiscardEdits
  <2>1. GenTypeOK'
    BY <1>2 DEF DiscardEdits, Patches
  <2>2. GateInv'
    BY <1>2 DEF DiscardEdits, GateInv, OneCandidatePerPatch, Unrecorded
  <2> QED BY <1>2, <2>1, <2>2 DEF DiscardEdits, EvidenceIsOfThePatch
<1>3. ASSUME NEW c \in Candidates, Draft(c) \/ Optimize(c)
      PROVE  GenTypeOK' /\ GateInv' /\ EvidenceIsOfThePatch'
  <2>1. /\ gpc \in {"drafting", "revising"} /\ gpc' = "validating" /\ candidate' = c
        /\ Asking("author") /\ Charged("author") /\ "author" \in Models
        /\ UNCHANGED <<judgements, tree, testedTree, files>>
    BY <1>3 DEF Draft, Optimize, Asking, Models
  <2>2. /\ budget["author"].calls = Len(judgements) /\ Len(judgements) <= MaximumRevisions
        /\ budget["judge"].calls = Len(judgements)
        /\ Improving(judgements) /\ tree = {}
    BY <2>1 DEF GateInv, OneCandidatePerPatch, MaximumRevisions
  <2>3. /\ budget' \in [Models -> [calls : Nat, spent : Nat]] /\ bill' \in [Models -> Nat]
        /\ budget'["author"].calls = Len(judgements) + 1
        /\ budget'["judge"].calls = Len(judgements)
        /\ \A k \in Models : Unrecorded(k)' = 0 /\ budget'[k].spent <= MaxTokens
    BY <2>1, <2>2, ChargeKeeps DEF Models
  <2>4. GenTypeOK'
    BY <2>1, <2>3 DEF GenPCs
  <2>5. GateInv'
    BY <2>1, <2>2, <2>3 DEF GateInv, OneCandidatePerPatch
  <2> QED BY <2>1, <2>4, <2>5 DEF EvidenceIsOfThePatch
<1>4. ASSUME NEW m \in Models, LoseAnswer(m)
      PROVE  GenTypeOK' /\ GateInv' /\ EvidenceIsOfThePatch'
  <2>1. PICK n \in Sizes : bill' = [bill EXCEPT ![m] = @ + n]
    BY <1>4 DEF LoseAnswer, Billed
  <2>2. /\ gpc \in {"drafting", "revising", "judging"} /\ gpc' = "raising" /\ n \in Nat
        /\ UNCHANGED <<candidate, judgements, budget, tree, testedTree, files>>
    BY <1>4, GenerationAssumption DEF LoseAnswer, Asking
  <2>3. \A k \in Models : Unrecorded(k) = 0
    BY <2>2 DEF GateInv
  <2>4. Unrecorded(m)' = n /\ \A k \in Models \ {m} : Unrecorded(k)' = 0
    <3>1. bill[m] \in Nat /\ budget[m].spent \in Nat
      OBVIOUS
    <3> QED BY <2>1, <2>2, <2>3, <3>1 DEF Unrecorded
  <2>5. bill' \in [Models -> Nat]
    BY <2>1, <2>2
  <2>6. GenTypeOK'
    BY <2>2, <2>5 DEF GenPCs
  <2>7. GateInv'
    BY <2>2, <2>4 DEF GateInv, OneCandidatePerPatch
  <2> QED BY <2>2, <2>6, <2>7 DEF EvidenceIsOfThePatch
<1>5. CASE ValidateCandidate
  <2>1. GenTypeOK'
    BY <1>5 DEF ValidateCandidate, GenPCs
  <2>2. GateInv'
    BY <1>5 DEF ValidateCandidate, GateInv, OneCandidatePerPatch, Unrecorded
  <2> QED BY <1>5, <2>1, <2>2 DEF ValidateCandidate, EvidenceIsOfThePatch
<1>6. ASSUME NEW a \in Assessments, Accept(a) \/ AskRevision(a)
      PROVE  GenTypeOK' /\ GateInv' /\ EvidenceIsOfThePatch'
  <2>1. /\ judgements' = Append(judgements, [of |-> candidate, answer |-> a])
        /\ Asking("judge") /\ Charged("judge") /\ "judge" \in Models
        /\ gpc = "judging" /\ gpc' \in {"applying", "revising"}
        /\ judgements # <<>> => a.mean > Last(judgements).answer.mean
        /\ UNCHANGED <<candidate, tree, testedTree, files>>
    BY <1>6 DEF Accept, AskRevision, Judged, Improves, Asking, Models
  <2>2. /\ candidate \in Candidates \ OutOfScope
        /\ Improving(judgements) /\ tree = {}
        /\ budget["judge"].calls = Len(judgements)
        /\ budget["author"].calls = Len(judgements) + 1
    BY <2>1 DEF GateInv, OneCandidatePerPatch
  <2>3. /\ judgements' \in Seq(Judgement)
        /\ Len(judgements') = Len(judgements) + 1
        /\ judgements' # <<>>
        /\ Last(judgements') = [of |-> candidate, answer |-> a]
        /\ Improving(judgements')
    <3> PICK c \in Candidates : c = candidate
      BY <2>2
    <3> PICK js \in Seq(Judgement) : js = judgements
      OBVIOUS
    <3> QED BY <2>1, <2>2, JudgementAdded
  <2>4. gpc' = "applying" => Accepted(judgements', candidate')
    <3>1. gpc' = "applying" => Passes(a)
      BY <1>6 DEF Accept, AskRevision
    <3> QED BY <2>1, <2>3, <3>1 DEF Accepted
  <2>5. gpc' = "revising" => Len(judgements') <= MaximumRevisions
    BY <1>6, <2>1, <2>3 DEF Accept, AskRevision, MayRevise, MaximumRevisions
  <2>6. /\ budget' \in [Models -> [calls : Nat, spent : Nat]] /\ bill' \in [Models -> Nat]
        /\ budget'["judge"].calls = Len(judgements) + 1
        /\ budget'["author"].calls = Len(judgements) + 1
        /\ \A k \in Models : Unrecorded(k)' = 0 /\ budget'[k].spent <= MaxTokens
    BY <2>1, <2>2, ChargeKeeps DEF Models
  <2>7. GenTypeOK'
    BY <2>1, <2>3, <2>6 DEF GenPCs
  <2>8. GateInv'
    BY <2>1, <2>2, <2>3, <2>4, <2>5, <2>6 DEF GateInv, OneCandidatePerPatch
  <2> QED BY <2>1, <2>7, <2>8 DEF EvidenceIsOfThePatch
<1>7. CASE ApplyCandidate
  <2>1. tree = {} /\ candidate \in Candidates /\ tree' = {candidate}
    BY <1>7 DEF ApplyCandidate, GateInv, OneCandidatePerPatch
  <2>2. GenTypeOK'
    BY <1>7, <2>1 DEF ApplyCandidate, GenPCs, Patches
  <2>3. GateInv'
    BY <1>7, <2>1 DEF ApplyCandidate, GateInv, OneCandidatePerPatch, Unrecorded
  <2> QED BY <1>7, <2>2, <2>3 DEF ApplyCandidate, EvidenceIsOfThePatch
<1>8. CASE RunCommands
  <2>1. /\ candidate \in Candidates /\ tree = {candidate} /\ Pinned \subseteq {Pin}
        /\ testedTree' = {candidate} \cup Pinned
        /\ testedTree' \subseteq tree' /\ tree' \subseteq testedTree' \cup {Stray, Leftover}
    BY <1>8 DEF RunCommands, GateInv, Pinned
  <2>2. GenTypeOK'
    BY <1>8, <2>1 DEF RunCommands, GenPCs, Patches
  <2>3. OneCandidatePerPatch'
    BY <1>8, <2>1 DEF RunCommands, OneCandidatePerPatch
  <2>4. GateInv'
    BY <1>8, <2>1, <2>3 DEF RunCommands, GateInv, Unrecorded
  <2> QED BY <1>8, <2>2, <2>4 DEF RunCommands, EvidenceIsOfThePatch
<1>9. CASE TakeDiff
  <2>1. GenTypeOK'
    BY <1>9 DEF TakeDiff, GenPCs
  <2>2. GateInv'
    BY <1>9 DEF TakeDiff, DiffInScope, GateInv, OneCandidatePerPatch, Unrecorded
  <2> QED BY <1>9, <2>1, <2>2 DEF TakeDiff, EvidenceIsOfThePatch
<1>10. CASE OpenPatch \/ WritePatch
  <2>1. GenTypeOK'
    BY <1>10 DEF OpenPatch, WritePatch, GenPCs
  <2>2. GateInv'
    BY <1>10 DEF OpenPatch, WritePatch, GateInv, OneCandidatePerPatch, Unrecorded
  <2> QED BY <1>10, <2>1, <2>2 DEF OpenPatch, WritePatch, EvidenceIsOfThePatch
<1>11. CASE OpenEvidence
  <2>1. GenTypeOK'
    BY <1>11 DEF OpenEvidence, GenPCs
  <2>2. GateInv'
    BY <1>11 DEF OpenEvidence, GateInv, OneCandidatePerPatch, Unrecorded
  <2> QED BY <1>11, <2>1, <2>2 DEF OpenEvidence, EvidenceIsOfThePatch
<1>12. CASE WriteEvidence
  <2>1. evidenceFile' \in Evidence
    BY <1>12 DEF WriteEvidence, Evidence
  <2>2. Accounts(evidenceFile')
    <3>1. /\ candidate \in Candidates \ OutOfScope /\ Accepted(judgements, candidate)
          /\ testedTree = {candidate} \cup Pinned
          /\ testedTree \subseteq tree /\ tree \subseteq testedTree \cup {Stray, Leftover}
          /\ Stray \notin tree
      BY <1>12 DEF WriteEvidence, GateInv
    <3>2. /\ evidenceFile'.judgements = judgements /\ evidenceFile'.patch = tree
          /\ evidenceFile'.tested = testedTree
      BY <1>12 DEF WriteEvidence
    <3>3. tree \in {testedTree, testedTree \cup {Leftover}}
      BY <3>1
    <3> QED BY <3>1, <3>2, <3>3 DEF Accounts
  <2>3. GenTypeOK' /\ GateInv'
    BY <1>12, <2>1, Forgets DEF WriteEvidence
  <2> QED BY <2>2, <2>3 DEF EvidenceIsOfThePatch
<1>13. CASE Stop
  <2>1. GenTypeOK' /\ GateInv'
    BY <1>13, Forgets DEF Stop
  <2> QED BY <1>13, <2>1 DEF Stop, EvidenceIsOfThePatch
<1> QED BY <1>1, <1>2, <1>3, <1>4, <1>5, <1>6, <1>7, <1>8, <1>9, <1>10, <1>11, <1>12,
           <1>13 DEF GenNext, Generate

(* Before anything was generated there are no files.                       *)
LEMMA GenerationStarts ==
  GenInit => GenTypeOK /\ GateInv /\ EvidenceIsOfThePatch
BY NothingBilled DEF Unrecorded, GenInit, GenTypeOK, GateInv, GenPCs, Improving, OneCandidatePerPatch,
   EvidenceIsOfThePatch, Patches

(* Who leaves the variables of the generation alone leaves its invariants. *)
LEMMA GenerationLeftAlone ==
  ASSUME GenTypeOK, GateInv, EvidenceIsOfThePatch, UNCHANGED genVars
  PROVE  GenTypeOK' /\ GateInv' /\ EvidenceIsOfThePatch'
BY DEF genVars, runVars, files, GenTypeOK, GateInv, OneCandidatePerPatch,
   EvidenceIsOfThePatch, Unrecorded

(* The evidence file is emptied, and written by a last step of its own.    *)
LEMMA EvidenceFileStep ==
  ASSUME GenNext
  PROVE  \/ evidenceFile' = evidenceFile
         \/ evidenceFile' = Torn
         \/ gpc = "evidencing"
<1>1. CASE OpenEvidence
  BY <1>1 DEF OpenEvidence
<1>2. CASE WriteEvidence
  BY <1>2 DEF WriteEvidence
<1> QED BY <1>1, <1>2 DEF GenNext, Generate, StartGeneration, DiscardEdits, Draft,
           Optimize, LoseAnswer, ValidateCandidate, Accept, AskRevision, Judged,
           ApplyCandidate, RunCommands, TakeDiff, OpenPatch, WritePatch, Stop, files
=============================================================================
