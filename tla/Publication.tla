---------------------------- MODULE Publication ----------------------------
(***************************************************************************)
(* `otc-agent publish', the pull request that is opened with its answer,   *)
(* and what iterate-pr accepts of the two before it repairs anything.      *)
(*                                                                         *)
(* publish reads the evidence file for its digest, asks GitHub for the     *)
(* issue, and reads the file again for its content; iterate-pr reads it    *)
(* twice as well.  A generation may write it in between.  Each evidence    *)
(* file names its models' costs and its commands' durations, so no two of  *)
(* them have the same bytes or the same workflow chain: the number of the  *)
(* file, `edition', stands for both digests.                               *)
(***************************************************************************)
EXTENDS Generation

CONSTANTS
  ApprovalLabel,    \* OTC_APPROVED_ISSUE_LABEL
  ExceptionLabel,   \* OTC_ROUTE_SCOPE_EXCEPTION_LABEL
  MaxEditions       \* bound: evidence files written

ASSUME PublicationAssumption ==
  /\ MaxEditions \in Nat
  /\ Torn \notin Nat

VARIABLES
  edition,    \* evidence files written so far
  issue,      \* the issue on GitHub
  publisher,  \* where publish is, and what it holds
  request,    \* what publish released with the pull request, or Absent
  iteration   \* where iterate-pr is, and what it holds

pubVars == <<edition, issue, publisher, request, iteration>>
vars == <<genVars, pubVars>>

Issue == [open : BOOLEAN, labels : SUBSET {ApprovalLabel, ExceptionLabel}]

Digest == Nat \cup {Torn}

(***************************************************************************)
(* The automation metadata of a pull-request body: the artifact's digest,  *)
(* and of its content the final workflow artifact's digest and the patch's.*)
(***************************************************************************)
Metadata == [artifact : Digest, workflow : Nat, patch : Patches]

(* `known' is history: the editions there were when the issue was seen.    *)
Release == [metadata : Metadata, known : Nat]

ASSUME AbsentAssumption == Absent \notin Release

PublisherIdle ==
  [pc |-> "idle", several |-> FALSE, given |-> Absent, artifact |-> Torn,
   known |-> 0, release |-> Absent]

IterationIdle ==
  [pc |-> "idle", release |-> Absent, edition |-> 0, evidence |-> Absent]

Init ==
  /\ GenInit
  /\ edition = 0
  /\ issue \in Issue
  /\ publisher = PublisherIdle
  /\ request = Absent
  /\ iteration = IterationIdle

-----------------------------------------------------------------------------
(* A generation's step, which may complete another evidence file. *)
Completes == gpc = "evidencing" /\ evidenceFile' # Torn

GenerationStep ==
  /\ GenNext
  /\ gpc = "idle" /\ gpc' # "idle" => edition < MaxEditions
  /\ edition' = IF Completes THEN edition + 1 ELSE edition
  /\ UNCHANGED <<issue, publisher, request, iteration>>

(* Maintainers label the issue, close it and open it again. *)
ChangeIssue ==
  /\ issue' \in Issue
  /\ UNCHANGED <<genVars, edition, publisher, request, iteration>>

(* What a digest of the file's bytes says, and whether they are JSON. *)
FileDigest == IF evidenceFile = Torn THEN Torn ELSE edition
IsJson == evidenceFile \notin {Absent, Torn}

-----------------------------------------------------------------------------
(* otc-agent publish *)

(***************************************************************************)
(* verify_publish_preflight as far as the artifact's digest.  The input    *)
(* names one route or several, and a body that the operator wrote or that  *)
(* is the pull request's.                                                  *)
(***************************************************************************)
HashArtifact ==
  /\ publisher.pc = "idle"
  /\ evidenceFile # Absent
  /\ \E several \in BOOLEAN, given \in {Absent, request} :
       publisher' = [pc |-> "hashed", several |-> several, given |-> given,
                     artifact |-> FileDigest, known |-> 0, release |-> Absent]
  /\ UNCHANGED <<genVars, edition, issue, request, iteration>>

(* verify_approved_issue and verify_sdk_route_scope *)
Approved ==
  /\ issue.open
  /\ ApprovalLabel \in issue.labels
  /\ publisher.several => ExceptionLabel \in issue.labels

ViewIssue ==
  /\ publisher.pc = "hashed"
  /\ Approved
  /\ publisher' = [publisher EXCEPT !.pc = "approved", !.known = edition]
  /\ UNCHANGED <<genVars, edition, issue, request, iteration>>

(* Mutant: build_publication_metadata hashes what it reads. *)
ArtifactDigestNow == FileDigest

(* The digest in the metadata is the preflight's. *)
ArtifactDigest == publisher.artifact

(***************************************************************************)
(* build_publication_metadata reads the artifact again, and metadata in    *)
(* the given body has to be the same (_render_metadata).                   *)
(***************************************************************************)
BuildMetadata ==
  LET metadata ==
        [artifact |-> ArtifactDigest, workflow |-> edition,
         patch |-> evidenceFile.patch]
  IN /\ publisher.pc = "approved"
     /\ IsJson
     /\ publisher.given # Absent => publisher.given.metadata = metadata
     /\ publisher' = [publisher EXCEPT !.pc = "released", !.release =
                        [metadata |-> metadata, known |-> publisher.known]]
     /\ UNCHANGED <<genVars, edition, issue, request, iteration>>

(* The operator opens the pull request, or edits it. *)
OpenRequest ==
  /\ publisher.pc = "released"
  /\ request' = publisher.release
  /\ publisher' = PublisherIdle
  /\ UNCHANGED <<genVars, edition, issue, iteration>>

(* A check fails (the history's among them), or the process stops. *)
EndPublish ==
  /\ publisher.pc # "idle"
  /\ publisher' = PublisherIdle
  /\ UNCHANGED <<genVars, edition, issue, request, iteration>>

-----------------------------------------------------------------------------
(* otc-agent iterate-pr, until it has its evidence *)

(* find_iteration_command and authorize_iteration, over the body as it is  *)
(* when the operator writes it into the command's input.                   *)
Authorize ==
  /\ iteration.pc = "idle"
  /\ request # Absent
  /\ iteration' = [iteration EXCEPT !.pc = "authorized", !.release = request]
  /\ UNCHANGED <<genVars, edition, issue, publisher, request>>

(* The first read of load_iteration_artifacts. *)
MatchArtifact ==
  /\ iteration.pc = "authorized"
  /\ evidenceFile # Absent
  /\ FileDigest = iteration.release.metadata.artifact
  /\ iteration' = [iteration EXCEPT !.pc = "matched"]
  /\ UNCHANGED <<genVars, edition, issue, publisher, request>>

(* Mutant: the chain is loaded and not compared. *)
IsSomeWorkflow == TRUE

(* The chain's last artifact is the one the metadata names. *)
IsItsWorkflow == edition = iteration.release.metadata.workflow

(* The second read, with the frozen chain (load_frozen_artifacts). *)
LoadArtifacts ==
  /\ iteration.pc = "matched"
  /\ IsJson
  /\ IsItsWorkflow
  /\ iteration' = [iteration EXCEPT !.pc = "loaded", !.edition = edition,
                                    !.evidence = evidenceFile]
  /\ UNCHANGED <<genVars, edition, issue, publisher, request>>

(* Refused, stopped, or done. *)
EndIteration ==
  /\ iteration.pc # "idle"
  /\ iteration' = IterationIdle
  /\ UNCHANGED <<genVars, edition, issue, publisher, request>>

-----------------------------------------------------------------------------
Next ==
  \/ GenerationStep
  \/ ChangeIssue
  \/ HashArtifact \/ ViewIssue \/ BuildMetadata \/ OpenRequest \/ EndPublish
  \/ Authorize \/ MatchArtifact \/ LoadArtifacts \/ EndIteration

Spec == Init /\ [][Next]_vars

-----------------------------------------------------------------------------
(* Properties. *)

(* Every variable holds what the code lets it hold. *)
TypeOK ==
  /\ GenTypeOK
  /\ edition \in Nat
  /\ issue \in Issue
  /\ publisher \in
       [pc : {"idle", "hashed", "approved", "released"}, several : BOOLEAN,
        given : Release \cup {Absent}, artifact : Digest, known : Nat,
        release : Release \cup {Absent}]
  /\ request \in Release \cup {Absent}
  /\ iteration \in
       [pc : {"idle", "authorized", "matched", "loaded"},
        release : Release \cup {Absent}, edition : Nat,
        evidence : Evidence \cup {Absent}]

(***************************************************************************)
(* iterate-pr goes on with the evidence that the pull request tells of,    *)
(* digest, chain and patch of one file, and with one that accounts for its *)
(* patch, although publish may have told of two files at once and either   *)
(* command may have read a file half written.                              *)
(***************************************************************************)
IteratesWhatWasPublished ==
  iteration.pc = "loaded" =>
    LET metadata == iteration.release.metadata
    IN /\ metadata.artifact = iteration.edition
       /\ metadata.workflow = iteration.edition
       /\ metadata.patch = iteration.evidence.patch
       /\ Accounts(iteration.evidence)

(***************************************************************************)
(* The evidence iterate-pr goes on with was there when its issue was found *)
(* open and labelled: what was written after the maintainers were asked,   *)
(* and after they may have changed their mind, is never repaired.          *)
(***************************************************************************)
ApprovedAfterEvidence ==
  iteration.pc = "loaded" => iteration.edition <= iteration.release.known

-----------------------------------------------------------------------------
(* The inductive invariant behind them. *)

(* What metadata says of a digest and of a content read after it, as long  *)
(* as n files were written and this one is there.                          *)
Tells(metadata, n, file) ==
  /\ metadata.workflow <= n
  /\ metadata.artifact # Torn => metadata.artifact <= metadata.workflow
  /\ file \notin {Absent, Torn} /\ metadata.workflow = n =>
       metadata.patch = file.patch

(* ... and of an issue seen in between. *)
Sound(release, n, file) ==
  /\ release # Absent
  /\ Tells(release.metadata, n, file)
  /\ release.metadata.artifact # Torn => release.metadata.artifact <= release.known

PublisherInv ==
  /\ publisher.pc \in {"hashed", "approved"} /\ publisher.artifact # Torn =>
       publisher.artifact <= edition
  /\ publisher.pc = "approved" /\ publisher.artifact # Torn =>
       publisher.artifact <= publisher.known
  /\ publisher.pc = "released" => Sound(publisher.release, edition, evidenceFile)
  /\ request # Absent => Sound(request, edition, evidenceFile)

(***************************************************************************)
(* A digest that matched is of the content the metadata tells of; that of  *)
(* a torn file matched when what it tells of was no longer there.          *)
(***************************************************************************)
IterationInv ==
  LET metadata == iteration.release.metadata
  IN /\ iteration.pc # "idle" => Sound(iteration.release, edition, evidenceFile)
     /\ iteration.pc = "matched" =>
          IF metadata.artifact = Torn
          THEN metadata.workflow < edition \/ evidenceFile = Torn
          ELSE metadata.artifact = metadata.workflow

PublicationInv ==
  /\ TypeOK
  /\ GateInv
  /\ EvidenceIsOfThePatch
  /\ PublisherInv
  /\ IterationInv
  /\ IteratesWhatWasPublished
=============================================================================
