---------------------------- MODULE PRIteration ----------------------------
(***************************************************************************)
(* `otc-agent iterate-pr' on one pull request: read new feedback, classify *)
(* it, have a repair written and reviewed, replace the published patch by  *)
(* one more commit, push it, answer the feedback and record the command in *)
(* the journal.  One action per git or GitHub call that changes something, *)
(* so that the process can stop, and be started again, between any two.    *)
(*                                                                         *)
(* A tree gives each file its content; a patch against the captured base   *)
(* is the tree it makes of the base, and leaves a file alone where it says *)
(* Base.  Commits are numbered; the number is the SHA.                     *)
(***************************************************************************)
EXTENDS Integers, Sequences, FiniteSets

CONSTANTS
  Files, NewFiles,   \* the files, and those the base does not have
  Contents, Base,    \* what a file may hold, and what the base holds
  Original,          \* current_patch: the patch of the run's artifact
  Wordings,          \* the ways a model may write a patch down
  Verbatim,          \* those that git diff's own differs from by blanks at most
  Replacements,      \* patches the author model writes and the reviewer approves
  ForeignTrees,      \* trees somebody else may push to the branch
  MaxForeign,        \* bound: how many such pushes
  MaxComments,       \* bound: comments of users, by kind
  MaxCommands,       \* bound: "/agent iterate" comments
  Null

Kinds == {"issue", "review"}

Tree == [Files -> Contents]

(* A patch as text: what it makes of the base, and in which words. *)
Patch == [tree : Tree, wording : Wordings]

ASSUME IterationAssumption ==
  /\ NewFiles \subseteq Files /\ Base \in Contents
  /\ Original \in Tree /\ Verbatim \subseteq Wordings
  /\ Replacements \subseteq Patch /\ ForeignTrees \subseteq Tree
  /\ MaxForeign \in Nat /\ MaxComments \in [Kinds -> Nat] /\ MaxCommands \in Nat

(* What a reply's marker is the digest of: the comment it answers, the     *)
(* commit and the approved patch, whose text is hashed as the model wrote it. *)
Marker == [kind : Kinds, id : Nat, commit : Nat, patch : Patch]

ASSUME NullAssumption == Null \notin Marker

VARIABLES
  comments,   \* on GitHub, by kind and in the order of their ids
  commits,    \* every commit: parent, tree, its line, and the command it was
              \* made for
  remote,     \* head of the agent/* branch at origin
  head, work, \* HEAD and the files of the local worktree
  journal,    \* the iteration state file
  payload,    \* previous_head_sha of each command's input file
  pc, cmd,    \* the running iterate-pr: its next step and its command
  feedback,   \* the comments it fetched
  todo,       \* the actionable ones, until each has its reply
  patch,      \* the approved replacement
  outcome     \* how the last run ended

github == <<comments, remote>>
local  == <<head, work, commits>>
vars == <<comments, commits, remote, head, work, journal, payload,
          pc, cmd, feedback, todo, patch, outcome>>

Comment ==
  [what : {"command", "feedback", "reply"}, open : BOOLEAN,
   marker : Marker \cup {Null}]

(* A SHA stands for the commit and all its ancestors: its line. *)
Commit == [parent : Nat, tree : Tree, by : Nat, line : SUBSET Nat]

Done ==
  [status : {"feedback_classified", "repair_blocked", "repair_approved"},
   commit : Nat, patch : Patch \cup {Null}, answered : SUBSET (Kinds \X Nat)]

PCs == {"idle", "issues", "reviews", "classify", "repair", "append", "apply",
        "commit", "push", "reply", "complete"}

TypeOK ==
  /\ comments \in [Kinds -> Seq(Comment)]
  /\ commits \in Seq(Commit)
  /\ {remote, head} \subseteq DOMAIN commits
  /\ work \in Tree
  /\ journal.cursor \in [Kinds -> Nat]
  /\ journal.processed \in [Kinds -> SUBSET Nat]
  /\ DOMAIN journal.done \subseteq Nat
  /\ \A k \in DOMAIN journal.done : journal.done[k] \in Done
  /\ \A k \in DOMAIN payload : payload[k] \in DOMAIN commits
  /\ pc \in PCs /\ cmd \in Nat
  /\ feedback \in [Kinds -> SUBSET Nat]
  /\ todo \subseteq Kinds \X Nat
  /\ patch \in Patch \cup {Null}
  /\ outcome \in {"none", "completed", "already_processed", "stopped",
                  "refused", "unchanged", "rejected"}

Said(what) == [what |-> what, open |-> TRUE, marker |-> Null]

NoComments == [kind \in Kinds |-> {}]

(* The pull request is open: commit 1 is what `publish' put on the branch. *)
Init ==
  /\ comments = [kind \in Kinds |-> <<>>]
  /\ commits = <<[parent |-> 0, tree |-> Original, by |-> 0, line |-> {1}]>>
  /\ remote = 1 /\ head = 1 /\ work = Original
  /\ journal = [cursor    |-> [kind \in Kinds |-> 0],
                processed |-> NoComments,
                done      |-> <<>>]
  /\ payload = <<>>
  /\ pc = "idle" /\ cmd = 0
  /\ feedback = NoComments /\ todo = {} /\ patch = Null
  /\ outcome = "none"
-----------------------------------------------------------------------------
(* Patches and history.                                                    *)

Touches(p) == {f \in Files : p[f] # Base}

(* git apply --check, with and without --reverse. *)
Applies(t, p)  == \A f \in Touches(p) : t[f] = Base
Reverses(t, p) == \A f \in Touches(p) : t[f] = p[f]

Applied(t, p)  == [f \in Files |-> IF f \in Touches(p) THEN p[f] ELSE t[f]]
Reversed(t, p) == [f \in Files |-> IF f \in Touches(p) THEN Base ELSE t[f]]

(* A commit and its ancestors. *)
Line(i) == commits[i].line

(* The commits with one more, made on top of p. *)
CommitOnTop(p, tree, k) ==
  LET new == Len(commits) + 1
  IN Append(commits, [parent |-> p, tree |-> tree, by |-> k,
                      line |-> commits[p].line \cup {new}])

HeadTree == commits[head].tree

(* git diff --quiet looks at the files HEAD has, not at untracked ones. *)
DiffQuiet ==
  \A f \in Files : work[f] = HeadTree[f] \/ (f \in NewFiles /\ HeadTree[f] = Base)
-----------------------------------------------------------------------------
(* The pull request's users and the operator of the worktree.              *)

Number(what) ==
  Cardinality({i \in DOMAIN comments["issue"] : comments["issue"][i].what = what})

AskIteration ==
  /\ Number("command") < MaxCommands
  /\ comments' = [comments EXCEPT !["issue"] = Append(@, Said("command"))]
  /\ UNCHANGED <<remote, local, journal, payload, pc, cmd, feedback, todo, patch,
                 outcome>>

GiveFeedback(kind) ==
  /\ Cardinality({i \in DOMAIN comments[kind] : comments[kind][i].what = "feedback"})
       < MaxComments[kind]
  /\ comments' = [comments EXCEPT ![kind] = Append(@, Said("feedback"))]
  /\ UNCHANGED <<remote, local, journal, payload, pc, cmd, feedback, todo, patch,
                 outcome>>

(* A review thread is a comment and the replies made to it. *)
ResolveThread(i) ==
  /\ comments["review"][i].what = "feedback" /\ comments["review"][i].open
  /\ comments' = [comments EXCEPT !["review"] =
       [j \in DOMAIN @ |->
          IF j = i \/ (@[j].what = "reply" /\ @[j].marker.id = i)
          THEN [@[j] EXCEPT !.open = FALSE] ELSE @[j]]]
  /\ UNCHANGED <<remote, local, journal, payload, pc, cmd, feedback, todo, patch,
                 outcome>>

(* A maintainer pushes a commit of their own to the branch. *)
ForeignPush(t) ==
  /\ Cardinality({i \in DOMAIN commits : commits[i].by = 0}) <= MaxForeign
  /\ commits' = CommitOnTop(remote, t, 0)
  /\ remote' = Len(commits')
  /\ UNCHANGED <<comments, head, work, journal, payload, pc, cmd, feedback, todo,
                 patch, outcome>>

(* The operator clones the branch afresh; a commit never pushed is gone. *)
FreshCheckout ==
  /\ pc = "idle"
  /\ head # remote \/ work # HeadTree
  /\ head' = remote /\ work' = commits[remote].tree
  /\ commits' = IF head = Len(commits) /\ head \notin Line(remote)
                THEN SubSeq(commits, 1, head - 1) ELSE commits
  /\ UNCHANGED <<github, journal, payload, pc, cmd, feedback, todo, patch, outcome>>
-----------------------------------------------------------------------------
(* iterate-pr.                                                             *)

NewestCommand(k) ==
  /\ comments["issue"][k].what = "command"
  /\ \A i \in DOMAIN comments["issue"] :
       comments["issue"][i].what = "command" => i <= k

(* The input file names the newest command there is and the published head. *)
PayloadOf(k) == IF k \in DOMAIN payload THEN payload[k] ELSE remote

(* The command is authorised and the state loaded.  A command is started   *)
(* for the first time with a new input file, and again with the same one.  *)
Start(k) ==
  /\ pc = "idle"
  /\ k \in DOMAIN payload \/ NewestCommand(k)
  /\ k \notin DOMAIN journal.done
  /\ payload' = [i \in DOMAIN payload \cup {k} |-> PayloadOf(i)]
  /\ cmd' = k
  /\ pc' = "issues"
  /\ outcome' = "none"
  /\ UNCHANGED <<github, local, journal, feedback, todo, patch>>

(* The journal already has the command: its completion is returned. *)
StartAgain(k) ==
  /\ pc = "idle"
  /\ k \in DOMAIN journal.done
  /\ outcome' = "already_processed"
  /\ UNCHANGED <<github, local, journal, payload, pc, cmd, feedback, todo, patch>>

(* However the run ends, what the process held is gone. *)
Leave(result) ==
  /\ pc' = "idle" /\ cmd' = 0
  /\ feedback' = NoComments /\ todo' = {} /\ patch' = Null
  /\ outcome' = result

(* Unresolved comments above the cursor. *)
Unread(kind) ==
  {i \in DOMAIN comments[kind] :
     i > journal.cursor[kind] /\ comments[kind][i].open}

FetchIssueComments ==
  /\ pc = "issues"
  /\ feedback' = [feedback EXCEPT !["issue"] = Unread("issue")]
  /\ pc' = "reviews"
  /\ UNCHANGED <<github, local, journal, payload, cmd, todo, patch, outcome>>

FetchReviewComments ==
  /\ pc = "reviews"
  /\ feedback' = [feedback EXCEPT !["review"] = Unread("review")]
  /\ pc' = "classify"
  /\ UNCHANGED <<github, local, journal, payload, cmd, todo, patch, outcome>>

Fetched == UNION {{kind} \X feedback[kind] : kind \in Kinds}

(* The model's verdict on every comment.  It takes what users said for     *)
(* actionable or not, and never a command or one of its own replies.       *)
ClassifyFeedback ==
  /\ pc = "classify"
  /\ \E A \in SUBSET {c \in Fetched : comments[c[1]][c[2]].what = "feedback"} :
       /\ todo' = A
       /\ pc' = IF A = {} THEN "complete" ELSE "repair"
  /\ UNCHANGED <<github, local, journal, payload, cmd, feedback, patch, outcome>>

(* A repair the reviewer approves, addressing every actionable comment. *)
ApproveRepair ==
  /\ pc = "repair"
  /\ patch' \in Replacements
  /\ pc' = "append"
  /\ UNCHANGED <<github, local, journal, payload, cmd, feedback, todo, outcome>>

(* The reviewer blocks it, or asks for more than the one iteration allowed. *)
BlockRepair ==
  /\ pc = "repair"
  /\ pc' = "complete"
  /\ UNCHANGED <<github, local, journal, payload, cmd, feedback, todo, patch, outcome>>
-----------------------------------------------------------------------------
(* append_repair_commit.                                                   *)

(* Mutant: HEAD is not compared with the recorded head. *)
AtAnyHead == TRUE

AtRecordedHead == head = payload[cmd]

CanReverse == work = HeadTree /\ Reverses(work, Original)

ReverseCurrent ==
  /\ pc = "append" /\ AtRecordedHead /\ CanReverse
  /\ work' = Reversed(work, Original)
  /\ pc' = "apply"
  /\ UNCHANGED <<github, head, commits, journal, payload, cmd, feedback, todo,
                 patch, outcome>>

ApplyReplacement ==
  /\ pc = "apply" /\ Applies(work, patch.tree)
  /\ work' = Applied(work, patch.tree)
  /\ pc' = "commit"
  /\ UNCHANGED <<github, head, commits, journal, payload, cmd, feedback, todo,
                 patch, outcome>>

(* Mutant: the reversed worktree is left as it is. *)
UndoNothing ==
  /\ pc = "apply" /\ ~Applies(work, patch.tree)
  /\ Leave("refused")
  /\ UNCHANGED <<github, local, journal, payload>>

(* The replacement does not apply: the current patch is put back. *)
UndoReverse ==
  /\ pc = "apply" /\ ~Applies(work, patch.tree)
  /\ work' = Applied(work, Original)
  /\ Leave("refused")
  /\ UNCHANGED <<github, head, commits, journal, payload>>

(* "approved repair does not change the published branch" *)
UndoUnchanged ==
  /\ pc = "commit" /\ DiffQuiet
  /\ work' = Applied(Reversed(work, patch.tree), Original)
  /\ Leave("unchanged")
  /\ UNCHANGED <<github, head, commits, journal, payload>>

(* git add --all, git commit and the ancestry check. *)
CommitRepair ==
  /\ pc = "commit" /\ ~DiffQuiet
  /\ commits' = CommitOnTop(head, work, cmd)
  /\ head' = Len(commits')
  /\ pc' = "push"
  /\ UNCHANGED <<github, work, journal, payload, cmd, feedback, todo, patch, outcome>>

(* Mutant: the cumulative diff is not compared with the replacement. *)
IsSomeRepair == commits[head].parent = payload[cmd]

(* Mutant: there is no reconciliation. *)
IsNoRepair == FALSE

(* _reconcile_repair_commit: HEAD is the one commit this repair would make, *)
(* and its cumulative diff is the replacement's text, stripped.             *)
IsThisRepair ==
  /\ commits[head].parent = payload[cmd]
  /\ HeadTree = patch.tree /\ patch.wording \in Verbatim

(* Mutant: an existing commit is taken for a pushed one. *)
ReconcileUnpushed ==
  /\ pc = "append" /\ ~AtRecordedHead /\ IsThisRepair
  /\ pc' = "reply"
  /\ UNCHANGED <<github, local, journal, payload, cmd, feedback, todo, patch, outcome>>

(* Mutant: only a pushed commit is reconciled. *)
ReconcilePushed ==
  /\ pc = "append" /\ ~AtRecordedHead /\ IsThisRepair
  /\ remote = head
  /\ pc' = "reply"
  /\ UNCHANGED <<github, local, journal, payload, cmd, feedback, todo, patch, outcome>>

(* Then it is pushed unless origin has it (ls-remote). *)
ReconcileRepair ==
  /\ pc = "append" /\ ~AtRecordedHead /\ IsThisRepair
  /\ pc' = IF remote = head THEN "reply" ELSE "push"
  /\ UNCHANGED <<github, local, journal, payload, cmd, feedback, todo, patch, outcome>>

RefuseRepair ==
  /\ pc = "append"
  /\ IF AtRecordedHead THEN ~CanReverse ELSE ~IsThisRepair
  /\ Leave("refused")
  /\ UNCHANGED <<github, local, journal, payload>>

FastForward == remote \in Line(head)

Push == FastForward /\ remote' = head

PushRepair ==
  /\ pc = "push" /\ Push
  /\ pc' = "reply"
  /\ UNCHANGED <<comments, local, journal, payload, cmd, feedback, todo, patch, outcome>>

(* origin takes the push and the answer is lost, or the process dies. *)
PushUnheard ==
  /\ pc = "push" /\ Push
  /\ Leave("stopped")
  /\ UNCHANGED <<comments, local, journal, payload>>

PushRejected ==
  /\ pc = "push" /\ ~FastForward
  /\ Leave("rejected")
  /\ UNCHANGED <<github, local, journal, payload>>
-----------------------------------------------------------------------------
(* reply_to_addressed_feedback, one comment at a time: those of the        *)
(* conversation by id, then those of the reviews.                          *)

Precedes(c, d) ==
  \/ c[1] = d[1] /\ c[2] <= d[2]
  \/ c[1] = "issue" /\ d[1] = "review"

MarkerOf(c) == [kind |-> c[1], id |-> c[2], commit |-> head, patch |-> patch]

(* Mutant: no search for the marker. *)
RepliedNever(c) == FALSE

Replied(c) == \E i \in DOMAIN comments[c[1]] : comments[c[1]][i].marker = MarkerOf(c)

Unanswered == {c \in todo : ~Replied(c)}

(* The first comment without a reply; a search that finds one goes on. *)
NextToAnswer(c) ==
  c \in Unanswered /\ \A d \in Unanswered : Precedes(c, d)

Post(c) ==
  comments' = [comments EXCEPT ![c[1]] = Append(@,
    [what |-> "reply", open |-> comments[c[1]][c[2]].open, marker |-> MarkerOf(c)])]

PostReply(c) ==
  /\ pc = "reply" /\ NextToAnswer(c)
  /\ Post(c)
  /\ UNCHANGED <<remote, local, journal, payload, pc, cmd, feedback, todo, patch,
                 outcome>>

(* GitHub takes the reply and the answer is lost, or the process dies. *)
PostUnheard(c) ==
  /\ pc = "reply" /\ NextToAnswer(c)
  /\ Post(c)
  /\ Leave("stopped")
  /\ UNCHANGED <<remote, local, journal, payload>>

(* Mutant: the loop returns at its first comment. *)
SomeReplied ==
  /\ pc = "reply"
  /\ pc' = "complete"
  /\ UNCHANGED <<github, local, journal, payload, cmd, feedback, todo, patch, outcome>>

AllReplied ==
  /\ pc = "reply" /\ Unanswered = {}
  /\ pc' = "complete"
  /\ UNCHANGED <<github, local, journal, payload, cmd, feedback, todo, patch, outcome>>

(* Mutant: the cursor is the newest comment there is when the run completes. *)
NewestComment(kind) == Len(comments[kind])

NextCursor(kind) ==
  CHOOSE i \in feedback[kind] \cup {journal.cursor[kind]} :
    \A j \in feedback[kind] : j <= i

(* Mutant: the repair's own status is recorded. *)
OutcomeStatus ==
  IF todo = {} THEN "feedback_classified"
  ELSE IF patch = Null THEN "repair_limit_reached" ELSE "repair_approved"

Status ==
  IF todo = {} THEN "feedback_classified"
  ELSE IF patch = Null THEN "repair_blocked" ELSE "repair_approved"

Completion ==
  [status   |-> Status,
   commit   |-> IF Status = "repair_approved" THEN head ELSE 0,
   patch    |-> patch,
   answered |-> IF Status = "repair_approved" THEN todo ELSE {}]

(* complete_iteration_state: the new journal replaces the old one at once. *)
CompleteIteration ==
  /\ pc = "complete"
  /\ journal' = [cursor    |-> [kind \in Kinds |-> NextCursor(kind)],
                 processed |-> [kind \in Kinds |->
                                  journal.processed[kind] \cup feedback[kind]],
                 done      |-> [k \in DOMAIN journal.done \cup {cmd} |->
                                  IF k = cmd THEN Completion ELSE journal.done[k]]]
  /\ Leave("completed")
  /\ UNCHANGED <<github, local, payload>>

(* The process is killed, or git, GitHub, a model or the disk fails it. *)
Stop ==
  /\ pc # "idle"
  /\ Leave("stopped")
  /\ UNCHANGED <<github, local, journal, payload>>
-----------------------------------------------------------------------------
Run ==
  \/ \E k \in DOMAIN comments["issue"] : Start(k)
  \/ FetchIssueComments \/ FetchReviewComments \/ ClassifyFeedback
  \/ ApproveRepair \/ BlockRepair
  \/ ReverseCurrent \/ ApplyReplacement \/ UndoReverse \/ UndoUnchanged
  \/ CommitRepair \/ ReconcileRepair \/ RefuseRepair
  \/ PushRepair \/ PushRejected
  \/ \E c \in todo : PostReply(c)
  \/ AllReplied \/ CompleteIteration

Interrupted == Stop \/ PushUnheard \/ \E c \in todo : PostUnheard(c)

Next ==
  \/ AskIteration
  \/ \E kind \in Kinds : GiveFeedback(kind)
  \/ \E i \in DOMAIN comments["review"] : ResolveThread(i)
  \/ \E t \in ForeignTrees : ForeignPush(t)
  \/ FreshCheckout
  \/ \E k \in DOMAIN comments["issue"] : StartAgain(k)
  \/ Run
  \/ Interrupted

Spec == Init /\ [][Next]_vars

(* The operator starts an unfinished command again and in the end takes a   *)
(* fresh checkout when runs keep finding the worktree dirty.                *)
FairSpec == Spec /\ WF_vars(Run) /\ SF_vars(work # HeadTree /\ FreshCheckout)
-----------------------------------------------------------------------------
(* At most one commit of a command reaches the branch, however often the   *)
(* command is run and whatever its runs were interrupted at.               *)
OneCommitPerCommand ==
  \A i, j \in Line(remote) :
    commits[i].by = commits[j].by /\ commits[i].by # 0 => i = j

SameAnswer(q, r) == q.kind = r.kind /\ q.id = r.id /\ q.commit = r.commit

(* A comment is told of a commit again only for a patch in other words,    *)
(* which was compared with the commit, blanks aside, and found to be it.   *)
(* So a run that is interrupted and repeated with the same patch never     *)
(* answers twice, and one whose model wrote anything else is refused.      *)
OneReplyPerRepair ==
  \A kind \in Kinds : \A i, j \in DOMAIN comments[kind] :
    LET q == comments[kind][i].marker
        r == comments[kind][j].marker
    IN i < j /\ q # Null /\ r # Null /\ SameAnswer(q, r) =>
         /\ r.patch # q.patch
         /\ r.patch.wording \in Verbatim
         /\ r.patch.tree = commits[r.commit].tree

(* A reply never names a commit the branch does not have. *)
RepliesNamePushedCommits ==
  \A kind \in Kinds : \A i \in DOMAIN comments[kind] :
    LET m == comments[kind][i].marker
    IN m # Null => m.commit \in Line(remote)

(* What the journal records is so: the commit of an approved command is on *)
(* the branch and every comment it was to answer has its reply.            *)
CompletionIsTrue ==
  \A k \in DOMAIN journal.done :
    LET d == journal.done[k]
    IN d.status = "repair_approved" =>
         /\ d.commit \in Line(remote)
         /\ d.answered # {}
         /\ \A c \in d.answered : \E i \in DOMAIN comments[c[1]] :
              comments[c[1]][i].marker =
                [kind |-> c[1], id |-> c[2], commit |-> d.commit, patch |-> d.patch]

(* Feedback below the cursor went through some completed command, however  *)
(* it arrived between the fetches and the journal's write.                 *)
NoFeedbackSkipped ==
  \A kind \in Kinds : \A i \in DOMAIN comments[kind] :
    /\ i <= journal.cursor[kind]
    /\ comments[kind][i].open
    => i \in journal.processed[kind]

(* A repair that is refused after the worktree was touched leaves it as    *)
(* HEAD has it, so that the command can be run again.                      *)
RefusalLeavesClean ==
  [][outcome' \in {"refused", "unchanged"} /\ pc \in {"apply", "commit"}
       => work' = HeadTree]_vars

(* The first repair after the publication puts on the branch the tree of   *)
(* the patch its reviewer approved, whichever patches the models gave in runs  *)
(* that were interrupted before.                                           *)
FirstRepairIsApproved ==
  \A k \in DOMAIN journal.done :
    LET d == journal.done[k]
    IN d.status = "repair_approved" /\ commits[d.commit].parent = 1 =>
         commits[d.commit].tree = d.patch.tree

(* The branch holds, at an approved command's commit, the patch its        *)
(* reviewer approved against the captured base, and nothing else.          *)
PublishedIsApproved ==
  \A k \in DOMAIN journal.done :
    LET d == journal.done[k]
    IN d.status = "repair_approved" => commits[d.commit].tree = d.patch.tree

(* Once a command's commit has reached the branch, running the command     *)
(* again is never refused; so it is where the models repeat their patch in *)
(* git's own words and nobody else pushes, as the run's bounds say.        *)
PushedConverges ==
  [][pc = "append" /\ outcome' = "refused" =>
       \A i \in Line(remote) : commits[i].by # cmd]_vars

(* What is left on GitHub and in the journal. *)
RepliesAmong(cs) ==
  [r \in UNION {{kind} \X {i \in DOMAIN cs[kind] : cs[kind][i].marker # Null}
                : kind \in Kinds} |-> cs[r[1]][r[2]].marker]

Replies == RepliesAmong(comments)

Effects == INSTANCE CommandEffects
             WITH branch  <- [i \in Line(remote) |-> commits[i].by],
                  replies <- Replies,
                  records <- journal.done

(* However runs are interrupted and repeated, what they leave behind comes *)
(* one by one and in its order: each command's commit and record once, each *)
(* comment's reply once for a commit and a patch; nothing is taken back.   *)
ImplementsEffects == Effects!Spec

(* If runs stop being interrupted, a command that was started completes. *)
StartedCompletes ==
  <>[][~Interrupted]_vars =>
    \A k \in 1..(MaxCommands + MaxComments["issue"]) :
      k \in DOMAIN payload ~> k \in DOMAIN journal.done
=============================================================================
