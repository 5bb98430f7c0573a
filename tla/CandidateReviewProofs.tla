----------------------- MODULE CandidateReviewProofs -----------------------
(***************************************************************************)
(* PipelineInv is inductive, and with it the safety properties of          *)
(* Generation and CandidateReview, for any candidates and any answers.     *)
(***************************************************************************)
EXTENDS CandidateReview, GenerationProofs, TLAPS

(* A bundle of a repair keeps the candidate's evidence and takes the repair *)
(* for its patch (_build_repair_bundle).                                    *)
LEMMA RepairBundleIsSound ==
  ASSUME BundleInv, inHand \in Patches, RepairInScope(inHand), bundle' = RepairBundle
  PROVE  BundleInv'
<1>1. /\ bundle.input \in Seq(Patches) /\ bundle.input # <<>>
      /\ bundle.source \in Evidence /\ Accounts(bundle.source)
      /\ Head(bundle.input) = bundle.source.patch
  BY DEF BundleInv, Bundle
<1>2. /\ bundle'.patch = inHand
      /\ bundle'.source = bundle.source
      /\ bundle'.input = Append(bundle.input, inHand)
      /\ bundle' \in Bundle
  BY <1>1 DEF RepairBundle, Bundle
<1>3. PICK in \in Seq(Patches) : in = bundle.input
  BY <1>1
<1>4. PICK p \in Patches : p = inHand
  OBVIOUS
<1>5. /\ Append(in, p) # <<>>
      /\ Head(Append(in, p)) = Head(in)
      /\ Last(Append(in, p)) = p
  BY <1>1, <1>3 DEF Last
<1>6. RepairInScope(bundle'.patch)
  BY <1>2
<1> QED BY <1>1, <1>2, <1>3, <1>4, <1>5, <1>6 DEF BundleInv

(* The history has an event for each step of each round                    *)
(* (build_review_history).                                                 *)
LEMMA HistoryIsEvents ==
  ASSUME NEW rs \in Seq(Round), \A i \in 1..Len(rs) : rs[i].review.input # <<>>
  PROVE  History(rs) \in Seq(Event)
<1>1. ASSUME NEW k \in 1..3 * Len(rs)
      PROVE  EventOf(rs[((k - 1) \div 3) + 1], (k - 1) % 3) \in Event
  <2>1. ((k - 1) \div 3) + 1 \in 1..Len(rs) /\ (k - 1) % 3 \in 0..2
    OBVIOUS
  <2>2. PICK i \in 1..Len(rs), step \in 0..2 :
          i = ((k - 1) \div 3) + 1 /\ step = (k - 1) % 3
    BY <2>1
  <2>3. PICK r \in Round : r = rs[i]
    OBVIOUS
  <2>4. r.patch \in Patches /\ r.review \in Review /\ r.review.input # <<>>
    BY <2>3 DEF Round
  <2>5. r.review.decision \in Decisions /\ Last(r.review.input) \in Patches
    <3>1. r.review.decision \in Decisions /\ r.review.input \in Seq(Patches)
      BY <2>4 DEF Review
    <3> QED BY <3>1, <2>4 DEF Last
  <2>6. EventOf(r, step) \in Event
    BY <2>4, <2>5 DEF EventOf, Event
  <2> QED BY <2>2, <2>3, <2>6
<1>2. 3 * Len(rs) \in Nat
  OBVIOUS
<1> QED BY <1>1, <1>2 DEF History

(* One more round keeps what the rounds say (run_independent_review).      *)
LEMMA RoundAdded ==
  ASSUME TypeOK, BundleInv, RoundsInv, NEW d \in Decisions
  PROVE  /\ ReviewOf(d) \in Review
         /\ Rounds(d) \in Seq(Round)
         /\ Len(Rounds(d)) = Len(reviewed) + 1
         /\ Rounds(d)[Len(reviewed) + 1] = [patch |-> bundle.patch, review |-> ReviewOf(d)]
         /\ \A i \in 1..Len(reviewed) : Rounds(d)[i] = reviewed[i]
         /\ Rounds(d)[1].patch = bundle.source.patch
         /\ \A i \in 1..Len(reviewed) + 1 :
              /\ Rounds(d)[i].review.input # <<>>
              /\ Last(Rounds(d)[i].review.input) = Rounds(d)[i].patch
<1>1. ReviewOf(d) \in Review /\ bundle.patch \in Patches /\ reviewed \in Seq(Round)
  BY DEF ReviewOf, Review, BundleInv, Bundle, TypeOK
<1>2. PICK r \in Round : r = [patch |-> bundle.patch, review |-> ReviewOf(d)]
  BY <1>1 DEF Round
<1>3. PICK rs \in Seq(Round) : rs = reviewed
  BY <1>1
<1>4. /\ Append(rs, r) \in Seq(Round) /\ Len(Append(rs, r)) = Len(rs) + 1
      /\ Append(rs, r)[Len(rs) + 1] = r
      /\ \A i \in 1..Len(rs) : Append(rs, r)[i] = rs[i]
      /\ Len(rs) \in Nat /\ (rs # <<>> => Len(rs) >= 1)
  OBVIOUS
<1>5. Rounds(d) = Append(rs, r)
  BY <1>2, <1>3 DEF Rounds
<1>6. r.patch = bundle.patch /\ r.review.input = bundle.input
  BY <1>2 DEF ReviewOf
<1>7. Rounds(d)[1].patch = bundle.source.patch
  <2>1. CASE rs = <<>>
    BY <2>1, <1>3, <1>4, <1>5, <1>6 DEF RoundsInv
  <2>2. CASE rs # <<>>
    BY <2>2, <1>3, <1>4, <1>5 DEF RoundsInv
  <2> QED BY <2>1, <2>2
<1>8. ASSUME NEW i \in 1..Len(reviewed) + 1
      PROVE  /\ Rounds(d)[i].review.input # <<>>
             /\ Last(Rounds(d)[i].review.input) = Rounds(d)[i].patch
  <2>1. CASE i = Len(reviewed) + 1
    BY <2>1, <1>3, <1>4, <1>5, <1>6 DEF BundleInv
  <2>2. CASE i \in 1..Len(reviewed)
    BY <2>2, <1>3, <1>4, <1>5 DEF RoundsInv
  <2> QED BY <2>1, <2>2, <1>3, <1>4
<1> QED BY <1>1, <1>2, <1>3, <1>4, <1>5, <1>7, <1>8

(* Event by event, the history of a finished loop (build_review_history).  *)
LEMMA HistoryTells ==
  ASSUME TypeOK, BundleInv, RoundsInv, NEW d \in Decisions,
         d # "request_changes" \/ Repairs = limit,
         outcome' = [status  |-> Status(d),
                     patch   |-> bundle.patch,
                     source  |-> bundle.source,
                     review  |-> ReviewOf(d),
                     history |-> History(Rounds(d))]
  PROVE  HistoryTellsOutcome'
<1> DEFINE rs == Rounds(d)
           h == History(rs)
           n == Len(h)
<1>1. /\ Len(rs) = Len(reviewed) + 1 /\ rs \in Seq(Round)
      /\ rs[Len(reviewed) + 1] = [patch |-> bundle.patch, review |-> ReviewOf(d)]
      /\ \A i \in 1..Len(reviewed) : rs[i] = reviewed[i]
      /\ rs[1].patch = bundle.source.patch
      /\ \A i \in 1..Len(reviewed) + 1 : Last(rs[i].review.input) = rs[i].patch
  BY RoundAdded
<1>2. Len(reviewed) \in 0..2
  <2>1. reviewed \in Seq(Round) /\ limit \in 0..2 /\ Len(reviewed) <= limit
    BY DEF RoundsInv, TypeOK, MaxRepairIterations
  <2>2. PICK l \in 0..2 : l = limit
    BY <2>1
  <2>3. PICK k \in Nat : k = Len(reviewed)
    BY <2>1
  <2>4. k \in 0..l
    BY <2>1, <2>2, <2>3
  <2>5. k \in 0..2
    BY <2>4
  <2> QED BY <2>3, <2>5
<1>3. PICK m \in 1..3 : m = Len(rs)
  <2>1. Len(rs) = Len(reviewed) + 1
    BY <1>1
  <2>2. PICK k \in 0..2 : k = Len(reviewed)
    BY <1>2
  <2>3. k + 1 \in 1..3
    OBVIOUS
  <2> QED BY <2>1, <2>2, <2>3
<1>4. h = [k \in 1..3 * m |-> EventOf(rs[((k - 1) \div 3) + 1], (k - 1) % 3)]
  BY <1>3 DEF History
<1>5. n = 3 * m
  BY <1>4
<1>6. ASSUME NEW q \in 1..m
      PROVE  /\ h[3 * q - 2] = EventOf(rs[q], 0)
             /\ h[3 * q - 1] = EventOf(rs[q], 1)
             /\ h[3 * q] = EventOf(rs[q], 2)
  <2>1. /\ 3 * q - 2 \in 1..3 * m /\ ((3 * q - 2 - 1) \div 3) + 1 = q /\ (3 * q - 2 - 1) % 3 = 0
        /\ 3 * q - 1 \in 1..3 * m /\ ((3 * q - 1 - 1) \div 3) + 1 = q /\ (3 * q - 1 - 1) % 3 = 1
        /\ 3 * q \in 1..3 * m /\ ((3 * q - 1) \div 3) + 1 = q /\ (3 * q - 1) % 3 = 2
    OBVIOUS
  <2> HIDE DEF h, n, rs
  <2> QED BY <2>1, <1>4
<1>7. ASSUME NEW q \in 1..m
      PROVE  /\ h[3 * q - 2].kind = "proposal" /\ h[3 * q - 2].about = rs[q].patch
             /\ h[3 * q - 1].kind = "validation" /\ h[3 * q - 1].about = rs[q].patch
             /\ h[3 * q].kind = "review" /\ h[3 * q].about = rs[q].patch
             /\ h[3 * q].decision = rs[q].review.decision
  <2>1. Last(rs[q].review.input) = rs[q].patch
    BY <1>1, <1>3
  <2> HIDE DEF h, n, rs
  <2>2. /\ EventOf(rs[q], 0).kind = "proposal" /\ EventOf(rs[q], 0).about = rs[q].patch
        /\ EventOf(rs[q], 1).kind = "validation" /\ EventOf(rs[q], 1).about = rs[q].patch
        /\ EventOf(rs[q], 2).kind = "review"
        /\ EventOf(rs[q], 2).about = Last(rs[q].review.input)
        /\ EventOf(rs[q], 2).decision = rs[q].review.decision
    BY DEF EventOf
  <2> QED BY <1>6, <2>1, <2>2
<1>8. /\ rs[m].patch = bundle.patch /\ rs[m].review.decision = d
      /\ \A q \in 1..m : q < m => rs[q].review.decision = "request_changes"
  <2>1. rs[m].patch = bundle.patch /\ rs[m].review.decision = d
    BY <1>1, <1>3 DEF ReviewOf
  <2>2. ASSUME NEW q \in 1..m, q < m
        PROVE  rs[q].review.decision = "request_changes"
    <3>1. q \in 1..Len(reviewed)
      BY <2>2, <1>1, <1>2, <1>3
    <3> QED BY <3>1, <1>1 DEF RoundsInv
  <2> QED BY <2>1, <2>2
<1>9. ASSUME NEW i \in 1..n
      PROVE  /\ h[i].kind = <<"review", "proposal", "validation">>[(i % 3) + 1]
             /\ i % 3 # 1 => h[i].about = h[i - 1].about
             /\ i % 3 = 0 /\ i < n => h[i].decision = "request_changes"
  <2>1. PICK q \in 1..m : i = 3 * q - 2 \/ i = 3 * q - 1 \/ i = 3 * q
    <3>1. ((i - 1) \div 3) + 1 \in 1..m
      BY <1>5
    <3>2. \/ i = 3 * (((i - 1) \div 3) + 1) - 2
          \/ i = 3 * (((i - 1) \div 3) + 1) - 1
          \/ i = 3 * (((i - 1) \div 3) + 1)
      BY <1>5
    <3> QED BY <3>1, <3>2
  <2> HIDE DEF h, n, rs
  <2>2. CASE i = 3 * q - 2
    <3>1. i % 3 = 1
      BY <2>2
    <3> QED BY <2>2, <3>1, <1>7
  <2>3. CASE i = 3 * q - 1
    <3>1. i % 3 = 2 /\ i - 1 = 3 * q - 2
      BY <2>3
    <3> QED BY <2>3, <3>1, <1>7
  <2>4. CASE i = 3 * q
    <3>1. i % 3 = 0 /\ i - 1 = 3 * q - 1 /\ (i < n => q < m)
      BY <2>4, <1>5
    <3> QED BY <2>4, <3>1, <1>7, <1>8
  <2> QED BY <2>1, <2>2, <2>3, <2>4
<1>10. /\ n \in {3, 6, 9}
       /\ h[1].about = bundle.source.patch
       /\ h[n].decision = d /\ h[n].about = bundle.patch
  <2>1. n \in {3, 6, 9} /\ 1 \in 1..m /\ m \in 1..m /\ 3 * 1 - 2 = 1
    BY <1>5
  <2>2. rs[1].patch = bundle.source.patch
    BY <1>1
  <2> HIDE DEF h, n, rs
  <2>3. h[1].about = rs[1].patch
    BY <2>1, <1>7
  <2>4. h[n].decision = rs[m].review.decision /\ h[n].about = rs[m].patch
    BY <2>1, <1>5, <1>7
  <2> QED BY <2>1, <2>2, <2>3, <2>4, <1>8
<1>11. /\ outcome'.history = h /\ outcome'.source = bundle.source
       /\ outcome'.patch = bundle.patch /\ outcome'.review.decision = d
  BY DEF ReviewOf
<1> HIDE DEF h
<1> QED BY <1>9, <1>10, <1>11 DEF HistoryTellsOutcome

(* A finished review is typed, names its patch and has its history.        *)
LEMMA EndReviewKeeps ==
  ASSUME PipelineInv, NEW d \in Decisions, EndReview(d)
  PROVE  PipelineInv'
<1>1. /\ BundleInv /\ RoundsInv /\ TypeOK /\ rpc = "reviewing"
      /\ d # "request_changes" \/ Repairs = limit
      /\ outcome' = [status  |-> Status(d),
                     patch   |-> bundle.patch,
                     source  |-> bundle.source,
                     review  |-> ReviewOf(d),
                     history |-> History(Rounds(d))]
      /\ rpc' = "idle" /\ inHand' = Absent /\ bundle' = Absent /\ limit' = 0
      /\ reviewed' = <<>> /\ UNCHANGED genVars
  BY DEF EndReview, ForgetReview, PipelineInv, ReviewInv
<1>2. /\ ReviewOf(d) \in Review /\ Rounds(d) \in Seq(Round)
      /\ \A i \in 1..Len(Rounds(d)) : Rounds(d)[i].review.input # <<>>
  BY <1>1, RoundAdded
<1>3. GenTypeOK' /\ GateInv' /\ EvidenceIsOfThePatch'
  BY <1>1, GenerationLeftAlone DEF PipelineInv, TypeOK
<1>4. HistoryTellsOutcome'
  BY <1>1, HistoryTells
<1>5. History(Rounds(d)) \in Seq(Event)
  BY <1>2, HistoryIsEvents
<1>6. Status(d) \in {"approved", "blocked", "repair_limit_reached"}
      /\ (Status(d) = "approved" <=> d = "approve")
  BY DEF Status, Decisions
<1>7. outcome' \in Outcome
  BY <1>1, <1>2, <1>5, <1>6 DEF Outcome, BundleInv, Bundle
<1>8. OutcomeIsOfItsPatch'
  <2>1. /\ outcome'.status = Status(d) /\ outcome'.review.decision = d
        /\ outcome'.patch = bundle.patch /\ outcome'.source = bundle.source
        /\ outcome'.review.input = bundle.input
    BY <1>1 DEF ReviewOf
  <2>2. /\ Last(bundle.input) = bundle.patch
        /\ bundle.patch = bundle.source.patch \/ RepairInScope(bundle.patch)
    BY <1>1 DEF BundleInv
  <2> QED BY <2>1, <2>2, <1>6 DEF OutcomeIsOfItsPatch
<1>9. TypeOK'
  BY <1>1, <1>3, <1>7 DEF TypeOK, MaxRepairIterations
<1>10. ReviewInv'
  BY <1>1 DEF ReviewInv
<1> QED BY <1>3, <1>4, <1>8, <1>9, <1>10 DEF PipelineInv

(* Every step of the review keeps the invariant.                           *)
LEMMA ReviewKeeps ==
  ASSUME PipelineInv, ReviewNext
  PROVE  PipelineInv'
<1> DEFINE Gen == GenTypeOK' /\ GateInv' /\ EvidenceIsOfThePatch'
           Done == outcome' = outcome => OutcomeIsOfItsPatch' /\ HistoryTellsOutcome'
<1>a. UNCHANGED genVars => Gen
  BY GenerationLeftAlone DEF PipelineInv, TypeOK
<1>b. Done
  BY DEF PipelineInv, OutcomeIsOfItsPatch, HistoryTellsOutcome
<1> USE DEF PipelineInv
<1>1. CASE CopyPatch
  <2>1. inHand' \in {Absent, Torn} \cup Patches
    BY <1>1 DEF CopyPatch, TypeOK, GenTypeOK
  <2>2. TypeOK' /\ ReviewInv'
    BY <1>1, <1>a, <2>1 DEF CopyPatch, TypeOK, ReviewInv, BundleInv
  <2>3. OutcomeIsOfItsPatch' /\ HistoryTellsOutcome'
    BY <1>1 DEF CopyPatch, OutcomeIsOfItsPatch, HistoryTellsOutcome
  <2> QED BY <1>1, <1>a, <2>2, <2>3 DEF CopyPatch
<1>2. CASE BuildBundle
  <2>1. /\ evidenceFile \in Evidence /\ Accounts(evidenceFile)
        /\ inHand = evidenceFile.patch /\ evidenceFile.patch \in Patches
        /\ reviewed = <<>>
    BY <1>2 DEF BuildBundle, MatchesEvidence, TypeOK, GenTypeOK, EvidenceIsOfThePatch,
       Evidence, ReviewInv
  <2>2. bundle' = [patch |-> inHand, source |-> evidenceFile, input |-> <<inHand>>]
    BY <1>2 DEF BuildBundle
  <2>3. BundleInv'
    BY <2>1, <2>2 DEF BundleInv, Bundle, Last
  <2>4. RoundsInv' /\ limit' \in 0..MaxRepairIterations
    BY <1>2, <2>1, <2>2 DEF BuildBundle, RoundsInv, MaxRepairIterations
  <2>5. TypeOK' /\ ReviewInv'
    BY <1>2, <1>a, <2>3, <2>4 DEF BuildBundle, TypeOK, ReviewInv, BundleInv
  <2> QED BY <1>2, <1>a, <1>b, <2>5 DEF BuildBundle
<1>3. ASSUME NEW d \in Decisions, EndReview(d)
      PROVE  PipelineInv'
  BY <1>3, EndReviewKeeps
<1>4. ASSUME NEW d \in Decisions, AskRepair(d)
      PROVE  PipelineInv'
  <2>1. /\ BundleInv /\ RoundsInv /\ d = "request_changes" /\ Len(reviewed) < limit
        /\ reviewed' = Rounds(d) /\ rpc' = "proposing"
        /\ UNCHANGED <<genVars, inHand, bundle, limit, outcome>>
    BY <1>4 DEF AskRepair, ReviewInv, Repairs
  <2>2. /\ Rounds(d) \in Seq(Round)
        /\ Len(Rounds(d)) = Len(reviewed) + 1
        /\ Rounds(d)[Len(reviewed) + 1] = [patch |-> bundle.patch, review |-> ReviewOf(d)]
        /\ \A i \in 1..Len(reviewed) : Rounds(d)[i] = reviewed[i]
        /\ Rounds(d)[1].patch = bundle.source.patch
        /\ \A i \in 1..Len(reviewed) + 1 :
             /\ Rounds(d)[i].review.input # <<>>
             /\ Last(Rounds(d)[i].review.input) = Rounds(d)[i].patch
    BY <2>1, RoundAdded
  <2>3. PICK k \in Nat, l \in 0..MaxRepairIterations : k = Len(reviewed) /\ l = limit
    BY DEF TypeOK
  <2>4. Rounds(d) # <<>> /\ Len(Rounds(d)) <= limit
    <3>1. k + 1 <= l
      BY <2>1, <2>3 DEF MaxRepairIterations
    <3>2. Len(Rounds(d)) = k + 1
      BY <2>2, <2>3
    <3>3. Rounds(d) # <<>>
      BY <3>2
    <3> QED BY <2>3, <3>1, <3>2, <3>3
  <2>5. ASSUME NEW i \in 1..Len(Rounds(d))
        PROVE  Rounds(d)[i].review.decision = "request_changes"
    <3>1. i \in 1..k + 1
      BY <2>2, <2>3
    <3>2. CASE i = k + 1
      BY <3>2, <2>1, <2>2, <2>3 DEF ReviewOf
    <3>3. CASE i \in 1..k
      BY <3>3, <2>1, <2>2, <2>3 DEF RoundsInv
    <3> QED BY <3>1, <3>2, <3>3
  <2>6. RoundsInv'
    BY <2>1, <2>2, <2>4, <2>5 DEF RoundsInv
  <2>7. BundleInv'
    BY <2>1 DEF BundleInv
  <2>8. TypeOK' /\ ReviewInv'
    BY <2>1, <2>2, <2>4, <2>6, <2>7, <1>a DEF TypeOK, ReviewInv
  <2> QED BY <2>1, <2>8, <1>a, <1>b
<1>5. ASSUME NEW p \in Proposals, ProposeRepair(p)
      PROVE  PipelineInv'
  <2>1. p \in Patches
    BY ProposalsAssumption
  <2>2. TypeOK' /\ ReviewInv'
    BY <1>5, <1>a, <2>1 DEF ProposeRepair, TypeOK, ReviewInv, BundleInv, RoundsInv
  <2> QED BY <1>5, <1>a, <1>b, <2>2 DEF ProposeRepair
<1>6. CASE ValidateRepair
  <2>1. /\ BundleInv /\ RoundsInv /\ reviewed # <<>> /\ inHand \in Patches
        /\ RepairInScope(inHand) /\ bundle' = RepairBundle
        /\ rpc' = "reviewing" /\ UNCHANGED <<genVars, inHand, limit, reviewed, outcome>>
    BY <1>6 DEF ValidateRepair, ReviewInv
  <2>2. BundleInv'
    BY <2>1, RepairBundleIsSound
  <2>3. RoundsInv'
    BY <2>1 DEF RoundsInv, RepairBundle
  <2>4. TypeOK' /\ ReviewInv'
    BY <2>1, <2>2, <2>3, <1>a DEF TypeOK, ReviewInv, BundleInv
  <2> QED BY <2>1, <2>4, <1>a, <1>b
<1>7. CASE StopReview
  <2>1. TypeOK' /\ ReviewInv'
    BY <1>7, <1>a DEF StopReview, ForgetReview, TypeOK, ReviewInv, MaxRepairIterations
  <2> QED BY <1>7, <1>a, <1>b, <2>1 DEF StopReview, ForgetReview
<1> QED BY <1>1, <1>2, <1>3, <1>4, <1>5, <1>6, <1>7 DEF ReviewNext

(* The invariant holds of every candidate, answer and interruption.        *)
THEOREM PipelineInvariant == Spec => []PipelineInv
<1>1. Init => PipelineInv
  <2> SUFFICES ASSUME Init
               PROVE  PipelineInv
    OBVIOUS
  <2>1. GenTypeOK /\ GateInv /\ EvidenceIsOfThePatch
    BY GenerationStarts DEF Init
  <2>2. TypeOK
    BY <2>1 DEF Init, TypeOK, MaxRepairIterations
  <2>3. ReviewInv /\ OutcomeIsOfItsPatch /\ HistoryTellsOutcome
    BY DEF Init, ReviewInv, OutcomeIsOfItsPatch, HistoryTellsOutcome
  <2> QED BY <2>1, <2>2, <2>3 DEF PipelineInv
<1>2. PipelineInv /\ [Next]_vars => PipelineInv'
  <2> SUFFICES ASSUME PipelineInv, [Next]_vars
               PROVE  PipelineInv'
    OBVIOUS
  <2>1. CASE GenNext /\ UNCHANGED reviewVars
    <3>1. GenTypeOK' /\ GateInv' /\ EvidenceIsOfThePatch'
      BY <2>1, GenerationKeeps DEF PipelineInv, TypeOK
    <3>2. TypeOK' /\ ReviewInv'
      BY <2>1, <3>1 DEF PipelineInv, TypeOK, ReviewInv, BundleInv, RoundsInv, reviewVars
    <3>3. OutcomeIsOfItsPatch' /\ HistoryTellsOutcome'
      BY <2>1 DEF PipelineInv, OutcomeIsOfItsPatch, HistoryTellsOutcome, reviewVars
    <3> QED BY <3>1, <3>2, <3>3 DEF PipelineInv
  <2>2. CASE ReviewNext
    BY <2>2, ReviewKeeps
  <2>3. CASE UNCHANGED vars
    <3>1. GenTypeOK' /\ GateInv' /\ EvidenceIsOfThePatch'
      BY <2>3, GenerationLeftAlone DEF PipelineInv, TypeOK, vars
    <3>2. TypeOK' /\ ReviewInv'
      BY <2>3, <3>1 DEF PipelineInv, TypeOK, ReviewInv, BundleInv, RoundsInv, vars,
         reviewVars
    <3>3. OutcomeIsOfItsPatch' /\ HistoryTellsOutcome'
      BY <2>3 DEF PipelineInv, OutcomeIsOfItsPatch, HistoryTellsOutcome, vars, reviewVars
    <3> QED BY <3>1, <3>2, <3>3 DEF PipelineInv
  <2> QED BY <2>1, <2>2, <2>3 DEF Next
<1> QED BY <1>1, <1>2, PTL DEF Spec

(* No run ends for the number of its calls, and none is billed more than   *)
(* its budgets allow and one answer, whatever the models answer at whatever *)
(* cost.                                                                    *)
THEOREM BudgetsSuffice == Spec => []BudgetsHold
<1>1. PipelineInv => BudgetsHold
  <2> SUFFICES ASSUME PipelineInv
               PROVE  BudgetsHold
    OBVIOUS
  <2>1. GenTypeOK /\ GateInv /\ Models = {"author", "judge"}
    BY DEF PipelineInv, TypeOK, Models
  <2>2. \A m \in Models : Asking(m) => budget[m].calls < MaxModelCalls
    <3>1. Asking("author") => budget["author"].calls < MaxModelCalls
      BY <2>1 DEF GenTypeOK, GateInv, Asking, MaxModelCalls, MaximumRevisions
    <3>2. Asking("judge") => budget["judge"].calls < MaxModelCalls
      BY <2>1 DEF GenTypeOK, GateInv, Asking, MaxModelCalls, MaximumRevisions
    <3> QED BY <2>1, <3>1, <3>2
  <2>3. Unrecorded("author") + Unrecorded("judge") = 0
        \/ (gpc = "raising" /\ Unrecorded("author") + Unrecorded("judge") \in Sizes)
    <3>1. CASE gpc # "raising"
      <4>1. Unrecorded("author") = 0 /\ Unrecorded("judge") = 0
        BY <2>1, <3>1 DEF GateInv
      <4> QED BY <4>1
    <3>2. CASE gpc = "raising"
      <4>1. \/ Unrecorded("author") \in Sizes /\ Unrecorded("judge") = 0
            \/ Unrecorded("judge") \in Sizes /\ Unrecorded("author") = 0
        BY <2>1, <3>2 DEF GateInv
      <4>2. ASSUME NEW n \in Sizes
            PROVE  n + 0 = n /\ 0 + n = n
        BY GenerationAssumption
      <4> QED BY <3>2, <4>1, <4>2
    <3> QED BY <3>1, <3>2
  <2> QED BY <2>1, <2>2, <2>3 DEF BudgetsHold, GateInv
<1> QED BY <1>1, PipelineInvariant, PTL

(* Files, checkout, bundle, rounds and outcome keep their types.           *)
THEOREM TypeCorrect == Spec => []TypeOK
<1>1. PipelineInv => TypeOK
  BY DEF PipelineInv
<1> QED BY <1>1, PipelineInvariant, PTL

(* No run's edits ever reach the patch of another.                         *)
THEOREM CheckoutsNeverMix == Spec => []OneCandidatePerPatch
<1>1. PipelineInv => OneCandidatePerPatch
  BY DEF PipelineInv, GateInv
<1> QED BY <1>1, PipelineInvariant, PTL

(* Evidence always describes a patch that was judged, tested and in scope, *)
(* but for what the tests left inside the allow-list.                      *)
THEOREM EvidenceIsSound == Spec => []EvidenceIsOfThePatch
<1>1. PipelineInv => EvidenceIsOfThePatch
  BY DEF PipelineInv
<1> QED BY <1>1, PipelineInvariant, PTL

(* What is reviewed is what one run tested and its gate accepted, and what *)
(* its tests left inside the allow-list.                                   *)
THEOREM OnlyTestedIsReviewed == Spec => []ReviewedIsTested
<1>1. PipelineInv => ReviewedIsTested
  BY DEF PipelineInv, ReviewInv, BundleInv, ReviewedIsTested
<1> QED BY <1>1, PipelineInvariant, PTL

(* An outcome is of the patch it returns, and its history says so.         *)
THEOREM OutcomesAreExplained == Spec => []OutcomeIsExplained
<1>1. PipelineInv => OutcomeIsExplained
  BY DEF PipelineInv, OutcomeIsExplained
<1> QED BY <1>1, PipelineInvariant, PTL
=============================================================================
