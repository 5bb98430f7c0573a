------------------------- MODULE PublicationProofs -------------------------
(***************************************************************************)
(* PublicationInv is inductive: whatever a generation writes between the   *)
(* reads of publish and of iterate-pr, for any candidates, answers and     *)
(* number of files.                                                        *)
(***************************************************************************)
EXTENDS Publication, GenerationProofs, TLAPS

(* The fields of what publish releases.                                    *)
LEMMA ReleaseFields ==
  ASSUME NEW r \in Release
  PROVE  /\ r.known \in Nat
         /\ r.metadata \in Metadata
         /\ r.metadata.workflow \in Nat
         /\ r.metadata.artifact # Torn => r.metadata.artifact \in Nat
BY DEF Release, Metadata, Digest

(* What a generation's step does to the evidence file, and to its number.  *)
LEMMA FileStep ==
  ASSUME TypeOK, GenerationStep
  PROVE  /\ edition' \in Nat /\ edition <= edition'
         /\ \/ evidenceFile' = evidenceFile
            \/ evidenceFile' = Torn
            \/ edition' = edition + 1
         /\ evidenceFile = Torn => evidenceFile' = Torn \/ edition' = edition + 1
<1>1. edition \in Nat
  BY DEF TypeOK
<1>2. CASE Completes
  BY <1>1, <1>2 DEF GenerationStep
<1>3. CASE ~Completes
  <2>1. edition' = edition
    BY <1>3 DEF GenerationStep
  <2>2. evidenceFile' = evidenceFile \/ evidenceFile' = Torn
    BY <1>3, EvidenceFileStep DEF GenerationStep, Completes
  <2> QED BY <1>1, <1>3, <2>1, <2>2 DEF Completes
<1> QED BY <1>2, <1>3

(* Nothing a generation does makes metadata tell of what it did not read.  *)
LEMMA SoundOn ==
  ASSUME TypeOK, GenerationStep, NEW r \in Release, Sound(r, edition, evidenceFile)
  PROVE  Sound(r, edition', evidenceFile')
<1>1. /\ r.metadata.workflow \in Nat
      /\ r.metadata.workflow <= edition
      /\ r.metadata.artifact # Torn => r.metadata.artifact <= r.metadata.workflow
      /\ evidenceFile \notin {Absent, Torn} /\ r.metadata.workflow = edition =>
           r.metadata.patch = evidenceFile.patch
  BY ReleaseFields DEF Sound, Tells
<1>2. edition \in Nat
  BY DEF TypeOK
<1>3. r.metadata.workflow <= edition'
  BY <1>1, <1>2, FileStep
<1>4. ASSUME evidenceFile' \notin {Absent, Torn}, r.metadata.workflow = edition'
      PROVE  r.metadata.patch = evidenceFile'.patch
  <2>1. edition' # edition + 1
    BY <1>1, <1>2, <1>4
  <2>2. evidenceFile' = evidenceFile
    BY <1>4, <2>1, FileStep
  <2>3. edition' = edition
    BY <1>1, <1>2, <1>4, FileStep
  <2> QED BY <1>1, <1>4, <2>2, <2>3
<1>5. Tells(r.metadata, edition', evidenceFile')
  BY <1>1, <1>3, <1>4 DEF Tells
<1> QED BY <1>5 DEF Sound

-----------------------------------------------------------------------------
(* Steps. *)

(* At first nothing is published and nothing iterated.                     *)
LEMMA PublicationInit == Init => PublicationInv
<1> SUFFICES ASSUME Init
             PROVE  PublicationInv
  OBVIOUS
<1>1. GenTypeOK /\ GateInv /\ EvidenceIsOfThePatch
  BY GenerationStarts DEF Init
<1>2. TypeOK
  BY <1>1 DEF Init, TypeOK, PublisherIdle, IterationIdle, Digest
<1>3. PublisherInv /\ IterationInv /\ IteratesWhatWasPublished
  BY DEF Init, PublisherInv, IterationInv, IteratesWhatWasPublished,
     PublisherIdle, IterationIdle
<1> QED BY <1>1, <1>2, <1>3 DEF PublicationInv

(* _generate, and the operator's fresh checkout.                           *)
LEMMA GenerationStepKeeps ==
  ASSUME PublicationInv, GenerationStep
  PROVE  PublicationInv'
<1>1. /\ TypeOK /\ GenTypeOK /\ GateInv /\ EvidenceIsOfThePatch
      /\ edition \in Nat
      /\ UNCHANGED <<issue, publisher, request, iteration>>
  BY DEF PublicationInv, TypeOK, GenerationStep
<1>2. GenTypeOK' /\ GateInv' /\ EvidenceIsOfThePatch'
  BY <1>1, GenerationKeeps DEF GenerationStep
<1>3. edition' \in Nat /\ edition <= edition'
  BY <1>1, FileStep
<1>4. TypeOK'
  BY <1>1, <1>2, <1>3 DEF TypeOK
<1>5. \A r \in Release :
        Sound(r, edition, evidenceFile) => Sound(r, edition', evidenceFile')
  BY <1>1, SoundOn
<1>6. PublisherInv'
  <2>1. publisher.release \in Release \cup {Absent} /\ request \in Release \cup {Absent}
        /\ publisher.artifact \in Nat \cup {Torn}
    BY <1>1 DEF TypeOK, Digest
  <2>2. publisher.pc = "released" => Sound(publisher.release, edition', evidenceFile')
    BY <1>1, <1>5, <2>1 DEF PublicationInv, PublisherInv, Sound
  <2>3. request # Absent => Sound(request, edition', evidenceFile')
    BY <1>1, <1>5, <2>1 DEF PublicationInv, PublisherInv
  <2>4. publisher.pc \in {"hashed", "approved"} /\ publisher.artifact # Torn =>
          publisher.artifact <= edition'
    BY <1>1, <1>3, <2>1 DEF PublicationInv, PublisherInv
  <2> QED BY <1>1, <2>2, <2>3, <2>4 DEF PublicationInv, PublisherInv
<1>7. IterationInv'
  <2>1. iteration.release \in Release \cup {Absent}
    BY <1>1 DEF TypeOK
  <2>2. iteration.pc # "idle" =>
          iteration.release \in Release /\ Sound(iteration.release, edition, evidenceFile)
    BY <2>1 DEF PublicationInv, IterationInv, Sound
  <2>3. iteration.pc # "idle" => Sound(iteration.release, edition', evidenceFile')
    BY <1>1, <1>5, <2>2
  <2>4. ASSUME iteration.pc = "matched", iteration.release.metadata.artifact = Torn
        PROVE  iteration.release.metadata.workflow < edition' \/ evidenceFile' = Torn
    <3>1. /\ iteration.release.metadata.workflow \in Nat
          /\ iteration.release.metadata.workflow <= edition
      BY <2>2, <2>4, ReleaseFields DEF Sound, Tells
    <3>2. iteration.release.metadata.workflow < edition \/ evidenceFile = Torn
      BY <2>4 DEF PublicationInv, IterationInv
    <3> QED BY <1>1, <1>3, <3>1, <3>2, FileStep
  <2> QED BY <1>1, <2>3, <2>4 DEF PublicationInv, IterationInv
<1>8. IteratesWhatWasPublished'
  BY <1>1 DEF PublicationInv, IteratesWhatWasPublished
<1> QED BY <1>2, <1>4, <1>6, <1>7, <1>8 DEF PublicationInv

(* What publish, iterate-pr and the maintainers do not touch.              *)
LEMMA FilesLeftAlone ==
  ASSUME PublicationInv, UNCHANGED <<genVars, edition>>
  PROVE  /\ GenTypeOK' /\ GateInv' /\ EvidenceIsOfThePatch'
         /\ evidenceFile' = evidenceFile /\ edition' = edition
<1>1. GenTypeOK' /\ GateInv' /\ EvidenceIsOfThePatch'
  BY GenerationLeftAlone DEF PublicationInv, TypeOK
<1> QED BY <1>1 DEF genVars, files

(* The issue changes, or nothing does.                                     *)
LEMMA IssueKeeps ==
  ASSUME PublicationInv, ChangeIssue \/ UNCHANGED vars
  PROVE  PublicationInv'
<1>1. UNCHANGED <<genVars, edition, publisher, request, iteration>>
      /\ issue' \in Issue
  BY DEF ChangeIssue, vars, pubVars, PublicationInv, TypeOK
<1>2. /\ GenTypeOK' /\ GateInv' /\ EvidenceIsOfThePatch'
      /\ evidenceFile' = evidenceFile /\ edition' = edition
  BY <1>1, FilesLeftAlone
<1>3. TypeOK'
  BY <1>1, <1>2 DEF PublicationInv, TypeOK
<1>4. PublisherInv' /\ IterationInv' /\ IteratesWhatWasPublished'
  BY <1>1, <1>2 DEF PublicationInv, PublisherInv, IterationInv,
     IteratesWhatWasPublished
<1> QED BY <1>2, <1>3, <1>4 DEF PublicationInv

(* otc-agent publish, and the operator who opens the pull request.         *)
LEMMA PublishKeeps ==
  ASSUME PublicationInv,
         HashArtifact \/ ViewIssue \/ BuildMetadata \/ OpenRequest \/ EndPublish
  PROVE  PublicationInv'
<1>1. /\ UNCHANGED <<genVars, edition, issue, iteration>>
      /\ TypeOK /\ PublisherInv /\ IterationInv /\ IteratesWhatWasPublished
      /\ GenTypeOK /\ EvidenceIsOfThePatch
  BY DEF HashArtifact, ViewIssue, BuildMetadata, OpenRequest, EndPublish,
     PublicationInv, TypeOK
<1>2. /\ GenTypeOK' /\ GateInv' /\ EvidenceIsOfThePatch'
      /\ evidenceFile' = evidenceFile /\ edition' = edition
  BY <1>1, FilesLeftAlone
<1>3. /\ edition \in Nat
      /\ request \in Release \cup {Absent}
      /\ publisher \in
           [pc : {"idle", "hashed", "approved", "released"}, several : BOOLEAN,
            given : Release \cup {Absent}, artifact : Digest, known : Nat,
            release : Release \cup {Absent}]
  BY <1>1 DEF TypeOK
<1>4. IterationInv' /\ IteratesWhatWasPublished'
  BY <1>1, <1>2 DEF IterationInv, IteratesWhatWasPublished
<1>5. SUFFICES /\ request' \in Release \cup {Absent}
               /\ publisher' \in
                    [pc : {"idle", "hashed", "approved", "released"}, several : BOOLEAN,
                     given : Release \cup {Absent}, artifact : Digest, known : Nat,
                     release : Release \cup {Absent}]
               /\ PublisherInv'
  BY <1>1, <1>2, <1>4 DEF PublicationInv, TypeOK
<1>6. request # Absent => Sound(request, edition', evidenceFile')
  BY <1>1, <1>2 DEF PublisherInv
<1>7. CASE HashArtifact
  <2>1. FileDigest \in Digest /\ (FileDigest # Torn => FileDigest <= edition)
    BY <1>3 DEF FileDigest, Digest
  <2>2. PICK several \in BOOLEAN, given \in {Absent, request} :
          publisher' = [pc |-> "hashed", several |-> several, given |-> given,
                        artifact |-> FileDigest, known |-> 0, release |-> Absent]
    BY <1>7 DEF HashArtifact
  <2>3. request' = request
    BY <1>7 DEF HashArtifact
  <2> QED BY <1>2, <1>3, <1>6, <2>1, <2>2, <2>3 DEF PublisherInv
<1>8. CASE ViewIssue
  <2>1. /\ publisher' = [publisher EXCEPT !.pc = "approved", !.known = edition]
        /\ publisher.pc = "hashed" /\ request' = request
    BY <1>8 DEF ViewIssue
  <2>2. publisher.artifact # Torn => publisher.artifact <= edition
    BY <1>1, <2>1 DEF PublisherInv
  <2> QED BY <1>2, <1>3, <1>6, <2>1, <2>2 DEF PublisherInv
<1>9. CASE BuildMetadata
  <2> DEFINE metadata == [artifact |-> publisher.artifact, workflow |-> edition,
                          patch |-> evidenceFile.patch]
             release == [metadata |-> metadata, known |-> publisher.known]
  <2>1. /\ publisher' = [publisher EXCEPT !.pc = "released", !.release = release]
        /\ publisher.pc = "approved" /\ IsJson /\ request' = request
    BY <1>9 DEF BuildMetadata, ArtifactDigest
  <2>2. evidenceFile.patch \in Patches
    BY <1>1, <2>1 DEF GenTypeOK, IsJson, Evidence
  <2>3. publisher.artifact \in Digest /\ publisher.known \in Nat
        /\ (publisher.artifact # Torn =>
              publisher.artifact <= edition /\ publisher.artifact <= publisher.known)
    BY <1>1, <1>3, <2>1 DEF PublisherInv
  <2>4. release \in Release
    BY <1>3, <2>2, <2>3 DEF Release, Metadata
  <2>5. Sound(release, edition, evidenceFile)
    <3>1. Tells(metadata, edition, evidenceFile)
      BY <1>3, <2>3 DEF Tells
    <3>2. release # Absent
      BY <2>4, AbsentAssumption
    <3> QED BY <2>3, <3>1, <3>2 DEF Sound
  <2>6. Sound(release, edition', evidenceFile')
    BY <1>2, <2>5
  <2> HIDE DEF release
  <2>7. publisher'.pc = "released" /\ publisher'.release = release
    BY <1>3, <2>1
  <2> QED BY <1>3, <1>6, <2>1, <2>4, <2>6, <2>7 DEF PublisherInv
<1>10. CASE OpenRequest
  <2>1. /\ publisher' = PublisherIdle /\ request' = publisher.release
        /\ publisher.pc = "released"
    BY <1>10 DEF OpenRequest
  <2>2. Sound(publisher.release, edition', evidenceFile')
    BY <1>1, <1>2, <2>1 DEF PublisherInv
  <2>3. PublisherIdle.pc = "idle"
    BY DEF PublisherIdle
  <2> QED BY <1>3, <2>1, <2>2, <2>3 DEF PublisherInv, PublisherIdle, Digest
<1>11. CASE EndPublish
  <2>1. publisher' = PublisherIdle /\ request' = request
    BY <1>11 DEF EndPublish
  <2> QED BY <1>3, <1>6, <2>1 DEF PublisherInv, PublisherIdle, Digest
<1> QED BY <1>7, <1>8, <1>9, <1>10, <1>11

(* iterate-pr.                                                             *)
LEMMA IterationKeeps ==
  ASSUME PublicationInv,
         Authorize \/ MatchArtifact \/ LoadArtifacts \/ EndIteration
  PROVE  PublicationInv'
<1>1. /\ UNCHANGED <<genVars, edition, issue, publisher, request>>
      /\ TypeOK /\ PublisherInv /\ IterationInv /\ IteratesWhatWasPublished
      /\ GenTypeOK /\ EvidenceIsOfThePatch
  BY DEF Authorize, MatchArtifact, LoadArtifacts, EndIteration, PublicationInv, TypeOK
<1>2. /\ GenTypeOK' /\ GateInv' /\ EvidenceIsOfThePatch'
      /\ evidenceFile' = evidenceFile /\ edition' = edition
  BY <1>1, FilesLeftAlone
<1>3. /\ edition \in Nat
      /\ request \in Release \cup {Absent}
      /\ iteration \in
           [pc : {"idle", "authorized", "matched", "loaded"},
            release : Release \cup {Absent}, edition : Nat,
            evidence : Evidence \cup {Absent}]
  BY <1>1 DEF TypeOK
<1>4. PublisherInv'
  BY <1>1, <1>2 DEF PublisherInv
<1>5. SUFFICES /\ iteration' \in
                    [pc : {"idle", "authorized", "matched", "loaded"},
                     release : Release \cup {Absent}, edition : Nat,
                     evidence : Evidence \cup {Absent}]
               /\ IterationInv' /\ IteratesWhatWasPublished'
  BY <1>1, <1>2, <1>4 DEF PublicationInv, TypeOK
<1>6. iteration.pc # "idle" =>
        /\ iteration.release \in Release
        /\ Sound(iteration.release, edition, evidenceFile) /\ Sound(iteration.release, edition', evidenceFile')
  BY <1>1, <1>2, <1>3 DEF IterationInv, Sound
<1>7. CASE Authorize
  <2>1. /\ iteration' = [iteration EXCEPT !.pc = "authorized", !.release = request]
        /\ request # Absent
    BY <1>7 DEF Authorize
  <2>2. Sound(request, edition', evidenceFile')
    BY <1>1, <1>2, <2>1 DEF PublisherInv
  <2> QED BY <1>3, <2>1, <2>2 DEF IterationInv, IteratesWhatWasPublished
<1>8. CASE MatchArtifact
  <2> DEFINE metadata == iteration.release.metadata
  <2>1. /\ iteration' = [iteration EXCEPT !.pc = "matched"]
        /\ iteration.pc = "authorized" /\ FileDigest = metadata.artifact
    BY <1>8 DEF MatchArtifact
  <2>2. /\ metadata.workflow \in Nat /\ metadata.workflow <= edition
        /\ metadata.artifact # Torn =>
             metadata.artifact \in Nat /\ metadata.artifact <= metadata.workflow
    BY <1>6, <2>1, ReleaseFields DEF Sound, Tells
  <2>3. IF metadata.artifact = Torn THEN evidenceFile = Torn
        ELSE metadata.artifact = metadata.workflow
    BY <1>3, <2>1, <2>2, PublicationAssumption DEF FileDigest
  <2> QED BY <1>2, <1>3, <1>6, <2>1, <2>3 DEF IterationInv, IteratesWhatWasPublished
<1>9. CASE LoadArtifacts
  <2> DEFINE metadata == iteration.release.metadata
  <2>1. /\ iteration' = [iteration EXCEPT !.pc = "loaded", !.edition = edition,
                                          !.evidence = evidenceFile]
        /\ iteration.pc = "matched" /\ IsJson
        /\ edition = metadata.workflow
    BY <1>9 DEF LoadArtifacts, IsItsWorkflow
  <2>2. metadata.artifact # Torn
    <3>1. ~(metadata.workflow < edition) /\ evidenceFile # Torn
      BY <1>3, <2>1 DEF IsJson
    <3> QED BY <1>1, <2>1, <3>1 DEF IterationInv
  <2>3. metadata.artifact = edition
    BY <1>1, <2>1, <2>2 DEF IterationInv
  <2>4. metadata.patch = evidenceFile.patch
    BY <1>6, <2>1 DEF Sound, Tells, IsJson
  <2>5. evidenceFile \in Evidence /\ Accounts(evidenceFile)
    BY <1>1, <2>1 DEF IsJson, GenTypeOK, EvidenceIsOfThePatch
  <2>6. /\ iteration'.pc = "loaded" /\ iteration'.release = iteration.release
        /\ iteration'.edition = edition /\ iteration'.evidence = evidenceFile
    BY <1>3, <2>1
  <2>7. IteratesWhatWasPublished'
    BY <2>1, <2>3, <2>4, <2>5, <2>6 DEF IteratesWhatWasPublished
  <2>8. IterationInv'
    BY <1>6, <2>1, <2>6 DEF IterationInv
  <2> QED BY <1>3, <2>1, <2>5, <2>7, <2>8
<1>10. CASE EndIteration
  <2>1. iteration' = IterationIdle
    BY <1>10 DEF EndIteration
  <2> QED BY <2>1 DEF IterationIdle, IterationInv, IteratesWhatWasPublished
<1> QED BY <1>7, <1>8, <1>9, <1>10

-----------------------------------------------------------------------------
(* Theorems. *)

(* The invariant holds of every schedule of the three commands.            *)
THEOREM PublicationInvariant == Spec => []PublicationInv
<1>1. Init => PublicationInv
  BY PublicationInit
<1>2. PublicationInv /\ [Next]_vars => PublicationInv'
  <2> SUFFICES ASSUME PublicationInv, [Next]_vars
               PROVE  PublicationInv'
    OBVIOUS
  <2>1. CASE GenerationStep
    BY <2>1, GenerationStepKeeps
  <2>2. CASE ChangeIssue \/ UNCHANGED vars
    BY <2>2, IssueKeeps
  <2>3. CASE HashArtifact \/ ViewIssue \/ BuildMetadata \/ OpenRequest \/ EndPublish
    BY <2>3, PublishKeeps
  <2>4. CASE Authorize \/ MatchArtifact \/ LoadArtifacts \/ EndIteration
    BY <2>4, IterationKeeps
  <2> QED BY <2>1, <2>2, <2>3, <2>4 DEF Next
<1> QED BY <1>1, <1>2, PTL DEF Spec

(* What publish and iterate-pr hold keeps its types.                       *)
THEOREM TypeCorrect == Spec => []TypeOK
<1>1. PublicationInv => TypeOK
  BY DEF PublicationInv
<1> QED BY <1>1, PublicationInvariant, PTL

(* iterate-pr goes on with evidence that the pull request tells of, and    *)
(* that accounts for its patch (load_iteration_artifacts).                 *)
THEOREM PublishedIsIterated == Spec => []IteratesWhatWasPublished
<1>1. PublicationInv => IteratesWhatWasPublished
  BY DEF PublicationInv
<1> QED BY <1>1, PublicationInvariant, PTL

(* No evidence is iterated that was written after its issue was looked at  *)
(* (verify_publish_preflight).                                             *)
THEOREM ApprovalComesAfter == Spec => []ApprovedAfterEvidence
<1>1. PublicationInv => ApprovedAfterEvidence
  <2> SUFFICES ASSUME PublicationInv, iteration.pc = "loaded"
               PROVE  iteration.edition <= iteration.release.known
    BY DEF ApprovedAfterEvidence
  <2>1. iteration.release.metadata.artifact = iteration.edition
    BY DEF PublicationInv, IteratesWhatWasPublished
  <2>2. iteration.edition \in Nat
    BY DEF PublicationInv, TypeOK
  <2>3. iteration.release.metadata.artifact # Torn
    BY <2>1, <2>2, PublicationAssumption
  <2>4. Sound(iteration.release, edition, evidenceFile)
    BY DEF PublicationInv, IterationInv
  <2> QED BY <2>1, <2>3, <2>4 DEF Sound
<1> QED BY <1>1, PublicationInvariant, PTL
=============================================================================
