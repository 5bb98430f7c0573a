------------------------- MODULE PRIterationProofs -------------------------
(***************************************************************************)
(* The safety of iterate-pr for any files, contents, patches, comments and *)
(* commands, whatever it is interrupted at and whoever pushes meanwhile:   *)
(* IterationInv is inductive and the properties follow.                    *)
(***************************************************************************)
EXTENDS PRIteration, SequenceTheorems, TLAPS

(* A commit's line is made of older commits, theirs included, down to the  *)
(* published one; a commit was made for a command that has an input file.  *)
HistoryInv ==
  /\ \A i \in DOMAIN commits :
       /\ i \in Line(i) /\ 1 \in Line(i)
       /\ \A j \in Line(i) :
            j \in DOMAIN commits /\ j <= i /\ Line(j) \subseteq Line(i)
       /\ commits[i].by = 0 \/ commits[i].by \in DOMAIN payload
  /\ commits[1].tree = Original

(* A command starts from the branch as it was before its own commit.       *)
CommandsInv ==
  \A k \in DOMAIN payload :
    /\ payload[k] \in Line(remote)
    /\ \A i \in Line(payload[k]) : commits[i].by # k

(* No commit has two of one command behind it, pushed or not.              *)
LinesInv ==
  \A c \in DOMAIN commits : \A i, j \in Line(c) :
    commits[i].by = commits[j].by /\ commits[i].by # 0 => i = j

(* Of some comments one is the newest.                                     *)
NewestInv ==
  \A kind \in Kinds : \A F \in SUBSET DOMAIN comments[kind] :
    F # {} => \E m \in F : \A j \in F : j <= m

(* What a process holds at each step.                                      *)
ProcessInv ==
  /\ pc = "idle" => feedback = NoComments /\ todo = {} /\ patch = Null
  /\ pc # "idle" => cmd \in DOMAIN payload /\ outcome = "none"
  /\ pc \in {"issues", "reviews", "classify", "repair"} => patch = Null
  /\ pc \in {"append", "apply", "commit", "push", "reply"} => patch \in Replacements

(* What was fetched leaves no comment out below its newest.                *)
FeedbackInv ==
  /\ \A kind \in Kinds :
       /\ feedback[kind] \subseteq DOMAIN comments[kind]
       /\ journal.cursor[kind] \in DOMAIN comments[kind] \cup {0}
       /\ \A i \in DOMAIN comments[kind] :
            /\ comments[kind][i].open
            /\ i > journal.cursor[kind]
            /\ \E j \in feedback[kind] : i <= j
            => i \in feedback[kind]
  /\ \A c \in todo : c \in Kinds \X Nat /\ c[2] \in DOMAIN comments[c[1]]

Bare == Reversed(HeadTree, Original)

(* What append_repair_commit knows of the worktree between its git calls.  *)
WorktreeInv ==
  /\ pc \in {"apply", "commit"} =>
       head = payload[cmd] /\ Reverses(HeadTree, Original)
  /\ pc = "apply" => work = Bare
  /\ pc = "commit" => work = Applied(Bare, patch.tree) /\ Applies(Bare, patch.tree)

(* What holds of HEAD once it is the approved repair.                      *)
RepairedInv ==
  LET done == pc = "complete" /\ patch # Null
  IN /\ pc \in {"push", "reply"} \/ done =>
          (commits[head].parent = 1 => HeadTree = patch.tree)
     /\ pc = "reply" \/ done => head \in Line(remote)
     /\ done => \A c \in todo : Replied(c)

(* HEAD is what the approved patch says, or this patch is all anybody was  *)
(* told of it.                                                             *)
AnsweredInv ==
  pc \in {"push", "reply"} =>
    \/ patch.wording \in Verbatim /\ patch.tree = HeadTree
    \/ \A kind \in Kinds : \A i \in DOMAIN comments[kind] :
         LET m == comments[kind][i].marker
         IN m # Null /\ m.commit = head => m.patch = patch

IterationInv ==
  /\ TypeOK /\ HistoryInv /\ CommandsInv /\ LinesInv /\ NewestInv
  /\ ProcessInv /\ FeedbackInv /\ WorktreeInv /\ RepairedInv /\ AnsweredInv
  /\ OneReplyPerRepair /\ RepliesNamePushedCommits /\ NoFeedbackSkipped
  /\ CompletionIsTrue /\ FirstRepairIsApproved

-----------------------------------------------------------------------------
(* Patches. *)

(* What git apply --reverse takes out, git apply puts back.                *)
LEMMA ReverseThenApply ==
  ASSUME NEW t \in Tree, Reverses(t, Original)
  PROVE  Applied(Reversed(t, Original), Original) = t
BY IterationAssumption DEF Tree, Reverses, Applied, Reversed, Touches

(* And the other way round, where the patch applies.                       *)
LEMMA ApplyThenReverse ==
  ASSUME NEW t \in Tree, NEW p \in Tree, Applies(t, p)
  PROVE  Reversed(Applied(t, p), p) = t
BY DEF Tree, Applies, Applied, Reversed, Touches

(* On the published tree the replacement takes the place of the original.  *)
LEMMA ReplaceOriginal ==
  ASSUME NEW p \in Tree
  PROVE  Applied(Reversed(Original, Original), p) = p
BY IterationAssumption DEF Tree, Applied, Reversed, Touches

(* Patches make trees of trees.                                            *)
LEMMA TreesOfTrees ==
  ASSUME NEW t \in Tree, NEW p \in Tree
  PROVE  Applied(t, p) \in Tree /\ Reversed(t, p) \in Tree
BY IterationAssumption DEF Tree, Applied, Reversed

-----------------------------------------------------------------------------
(* Commits. *)

(* What the list of commits is.                                            *)
LEMMA CommitFields ==
  ASSUME TypeOK
  PROVE  /\ Len(commits) \in Nat /\ DOMAIN commits = 1..Len(commits)
         /\ \A i \in DOMAIN commits :
              /\ commits[i] \in Commit
              /\ commits[i].parent \in Nat /\ commits[i].by \in Nat
              /\ commits[i].tree \in Tree /\ commits[i].line \in SUBSET Nat
         /\ remote \in DOMAIN commits /\ head \in DOMAIN commits
         /\ HeadTree \in Tree
<1>1. commits \in Seq(Commit) /\ remote \in DOMAIN commits /\ head \in DOMAIN commits
  BY DEF TypeOK
<1>2. Len(commits) \in Nat /\ DOMAIN commits = 1..Len(commits)
  BY <1>1, LenProperties
<1>3. \A i \in DOMAIN commits : commits[i] \in Commit
  BY <1>1, <1>2, ElementOfSeq
<1> QED BY <1>1, <1>2, <1>3 DEF Commit, HeadTree

(* One commit more.                                                        *)
LEMMA OneMore ==
  ASSUME NEW cs \in Seq(Commit), NEW c \in Commit, NEW n, n = Len(cs) + 1
  PROVE  /\ Append(cs, c) \in Seq(Commit)
         /\ DOMAIN Append(cs, c) = DOMAIN cs \cup {n}
         /\ n \in Nat /\ \A i \in DOMAIN cs : i < n
         /\ \A i \in DOMAIN cs : Append(cs, c)[i] = cs[i]
         /\ Append(cs, c)[n] = c
<1>1. Len(cs) \in Nat /\ DOMAIN cs = 1..Len(cs)
  BY LenProperties
<1>2. /\ Append(cs, c) \in Seq(Commit) /\ Len(Append(cs, c)) = n
      /\ Append(cs, c)[n] = c
      /\ \A i \in DOMAIN cs : Append(cs, c)[i] = cs[i]
  BY <1>1, AppendProperties
<1>3. DOMAIN Append(cs, c) = 1..n
  BY <1>2, LenProperties
<1> QED BY <1>1, <1>2, <1>3

(* A commit on top of p keeps history, if it is nobody's or its command's  *)
(* first on that line.                                                     *)
LEMMA HistoryGrows ==
  ASSUME TypeOK, HistoryInv, LinesInv,
         NEW p \in DOMAIN commits, NEW t \in Tree, NEW k \in Nat,
         commits' = CommitOnTop(p, t, k), NEW n, n = Len(commits) + 1,
         UNCHANGED payload,
         \/ k = 0
         \/ k \in DOMAIN payload /\ \A i \in Line(p) : commits[i].by # k
  PROVE  /\ HistoryInv' /\ LinesInv' /\ commits' \in Seq(Commit)
         /\ Line(n)' = Line(p) \cup {n}
         /\ n \in DOMAIN commits'
         /\ commits'[n].parent = p /\ commits'[n].tree = t
         /\ \A i \in DOMAIN commits :
              /\ i \in DOMAIN commits'
              /\ Line(i)' = Line(i) /\ commits'[i] = commits[i]
<1>1. /\ DOMAIN commits' = DOMAIN commits \cup {n}
      /\ commits' \in Seq(Commit)
      /\ \A i \in DOMAIN commits : i < n /\ commits'[i] = commits[i]
      /\ commits'[n].parent = p /\ commits'[n].tree = t /\ commits'[n].by = k
      /\ commits'[n].line = Line(p) \cup {n}
      /\ n \in Nat /\ DOMAIN commits \subseteq Nat
  <2> DEFINE new == [parent |-> p, tree |-> t, by |-> k, line |-> Line(p) \cup {n}]
  <2>1. commits \in Seq(Commit) /\ DOMAIN commits \subseteq Nat /\ n \in Nat
    BY CommitFields DEF TypeOK
  <2>2. new \in Commit
    BY <2>1, CommitFields DEF Commit, Line
  <2>3. commits' = Append(commits, new)
    BY DEF CommitOnTop, Line
  <2>4. new.parent = p /\ new.tree = t /\ new.by = k /\ new.line = Line(p) \cup {n}
    OBVIOUS
  <2> HIDE DEF new
  <2>5. /\ DOMAIN commits' = DOMAIN commits \cup {n}
        /\ commits' \in Seq(Commit)
        /\ \A i \in DOMAIN commits : i < n /\ commits'[i] = commits[i]
        /\ commits'[n] = new
    BY <2>1, <2>2, <2>3, OneMore
  <2> QED BY <2>1, <2>4, <2>5
<1>2. \A i \in DOMAIN commits : Line(i)' = Line(i)
  BY <1>1 DEF Line
<1>3. Line(n)' = Line(p) \cup {n}
  BY <1>1 DEF Line
<1>4. \A i \in DOMAIN commits :
        /\ i \in Line(i) /\ 1 \in Line(i)
        /\ \A j \in Line(i) :
             j \in DOMAIN commits /\ j <= i /\ Line(j) \subseteq Line(i)
        /\ commits[i].by = 0 \/ commits[i].by \in DOMAIN payload
  BY DEF HistoryInv
<1>5. HistoryInv'
  <2>1. ASSUME NEW i \in DOMAIN commits'
        PROVE  /\ i \in Line(i)' /\ 1 \in Line(i)'
               /\ \A j \in Line(i)' :
                    j \in DOMAIN commits' /\ j <= i /\ Line(j)' \subseteq Line(i)'
               /\ commits'[i].by = 0 \/ commits'[i].by \in DOMAIN payload'
    <3>1. CASE i \in DOMAIN commits
      BY <1>1, <1>2, <1>4, <3>1
    <3>2. CASE i = n
      <4>1. \A j \in Line(p) : j \in DOMAIN commits /\ j <= n /\ Line(j)' \subseteq Line(p)
        BY <1>1, <1>2, <1>4
      <4> QED BY <1>1, <1>3, <1>4, <3>2, <4>1
    <3> QED BY <1>1, <3>1, <3>2
  <2>2. 1 \in DOMAIN commits
    BY <1>4
  <2>3. commits'[1].tree = Original
    BY <1>1, <2>2 DEF HistoryInv
  <2> QED BY <2>1, <2>3 DEF HistoryInv
<1>6. LinesInv'
  <2> SUFFICES ASSUME NEW c \in DOMAIN commits', NEW i \in Line(c)', NEW j \in Line(c)',
                      commits'[i].by = commits'[j].by, commits'[i].by # 0
               PROVE  i = j
    BY DEF LinesInv
  <2>1. CASE c \in DOMAIN commits
    BY <1>1, <1>2, <1>4, <2>1 DEF LinesInv
  <2>2. CASE c = n
    <3>1. CASE i = n \/ j = n
      <4>1. \A h \in Line(p) : h \in DOMAIN commits
        BY <1>4
      <4> QED BY <1>1, <1>3, <2>2, <3>1, <4>1
    <3>2. CASE i # n /\ j # n
      BY <1>1, <1>3, <1>4, <2>2, <3>2 DEF LinesInv
    <3> QED BY <3>1, <3>2
  <2> QED BY <1>1, <2>1, <2>2
<1> QED BY <1>1, <1>2, <1>3, <1>5, <1>6 DEF Line

(* What is known of the branch stays known as long as its commits stay.    *)
LEMMA BranchKeeps ==
  ASSUME IterationInv,
         UNCHANGED <<comments, journal, payload>>,
         \A i \in Line(remote) : commits'[i] = commits[i],
         Line(remote) \subseteq Line(remote)'
  PROVE  /\ CommandsInv' /\ OneReplyPerRepair' /\ RepliesNamePushedCommits'
         /\ NoFeedbackSkipped' /\ CompletionIsTrue' /\ FirstRepairIsApproved'
<1>1. /\ CommandsInv /\ OneReplyPerRepair /\ RepliesNamePushedCommits /\ HistoryInv
      /\ NoFeedbackSkipped /\ CompletionIsTrue /\ FirstRepairIsApproved /\ TypeOK
  BY DEF IterationInv
<1>2. CommandsInv'
  <2> SUFFICES ASSUME NEW k \in DOMAIN payload
               PROVE  /\ payload[k] \in Line(remote)'
                      /\ \A i \in Line(payload[k])' : commits'[i].by # k
    BY DEF CommandsInv
  <2>1. payload[k] \in Line(remote) /\ \A i \in Line(payload[k]) : commits[i].by # k
    BY <1>1 DEF CommandsInv
  <2>2. Line(payload[k]) \subseteq Line(remote)
    BY <1>1, <2>1, CommitFields DEF HistoryInv
  <2>3. Line(payload[k])' = Line(payload[k])
    BY <2>1 DEF Line
  <2> QED BY <2>1, <2>2, <2>3
<1>3. OneReplyPerRepair' /\ RepliesNamePushedCommits' /\ NoFeedbackSkipped'
  BY <1>1 DEF OneReplyPerRepair, SameAnswer, RepliesNamePushedCommits, NoFeedbackSkipped
<1>4. CompletionIsTrue'
  BY <1>1 DEF CompletionIsTrue
<1>5. FirstRepairIsApproved'
  BY <1>1 DEF CompletionIsTrue, FirstRepairIsApproved
<1> QED BY <1>2, <1>3, <1>4, <1>5

(* What nobody touches stays true.                                         *)
LEMMA QuietKeeps ==
  ASSUME IterationInv, UNCHANGED <<comments, commits, remote, journal, payload>>
  PROVE  /\ HistoryInv' /\ CommandsInv' /\ LinesInv' /\ NewestInv'
         /\ OneReplyPerRepair' /\ RepliesNamePushedCommits' /\ NoFeedbackSkipped'
         /\ CompletionIsTrue' /\ FirstRepairIsApproved'
<1>1. \A i : Line(i)' = commits[i'].line
  BY DEF Line
<1>2. HistoryInv' /\ LinesInv' /\ NewestInv'
  BY DEF IterationInv, HistoryInv, LinesInv, NewestInv, Line
<1> QED BY <1>2, BranchKeeps DEF Line

-----------------------------------------------------------------------------
(* Comments. *)

(* What the lists of comments are.                                         *)
LEMMA CommentFields ==
  ASSUME TypeOK, NEW kind \in Kinds
  PROVE  /\ comments[kind] \in Seq(Comment)
         /\ Len(comments[kind]) \in Nat
         /\ DOMAIN comments[kind] = 1..Len(comments[kind])
         /\ \A i \in DOMAIN comments[kind] :
              /\ comments[kind][i] \in Comment
              /\ comments[kind][i].open \in BOOLEAN
              /\ comments[kind][i].marker \in Marker \cup {Null}
<1>1. comments[kind] \in Seq(Comment)
  BY DEF TypeOK
<1>2. Len(comments[kind]) \in Nat /\ DOMAIN comments[kind] = 1..Len(comments[kind])
  BY <1>1, LenProperties
<1>3. \A i \in DOMAIN comments[kind] : comments[kind][i] \in Comment
  BY <1>1, <1>2, ElementOfSeq
<1> QED BY <1>1, <1>2, <1>3 DEF Comment

(* The process goes on, or it leaves.                                      *)
Left == pc' = "idle" /\ feedback' = NoComments /\ todo' = {} /\ patch' = Null

(* Comments are added and resolved; a new one is no reply, or the first    *)
(* reply about HEAD for the approved patch.                                *)
LEMMA CommentsKeep ==
  ASSUME IterationInv, TypeOK', NEW mk,
         \A k \in Kinds : \A i \in DOMAIN comments[k] :
           /\ i \in DOMAIN comments'[k]
           /\ comments'[k][i].marker = comments[k][i].marker
           /\ comments'[k][i].open => comments[k][i].open,
         \A k \in Kinds : \A i \in DOMAIN comments'[k] :
           i \notin DOMAIN comments[k] =>
             /\ \A j \in DOMAIN comments[k] : j < i
             /\ \A j \in DOMAIN comments'[k] : j <= i
             /\ comments'[k][i].marker = mk
             /\ mk # Null =>
                  /\ mk.commit \in Line(remote)
                  /\ \A j \in DOMAIN comments[k] : comments[k][j].marker # mk,
         mk # Null => pc = "reply" /\ mk \in Marker /\ mk.commit = head /\ mk.patch = patch,
         UNCHANGED <<remote, local, journal, payload>>,
         UNCHANGED <<pc, cmd, feedback, todo, patch, outcome>> \/ Left
  PROVE  IterationInv'
<1>1. \A k \in Kinds : \A i \in DOMAIN comments[k] :
        /\ i \in DOMAIN comments'[k]
        /\ comments'[k][i].marker = comments[k][i].marker
        /\ comments'[k][i].open => comments[k][i].open
  OBVIOUS
<1>2. \A k \in Kinds : \A i \in DOMAIN comments'[k] :
        i \notin DOMAIN comments[k] =>
          /\ \A j \in DOMAIN comments[k] : j < i
          /\ \A j \in DOMAIN comments'[k] : j <= i
          /\ comments'[k][i].marker = mk
          /\ mk # Null =>
               /\ mk.commit \in Line(remote)
               /\ \A j \in DOMAIN comments[k] : comments[k][j].marker # mk
  OBVIOUS
<1>3. UNCHANGED <<remote, head, work, commits, journal, payload>>
  BY DEF local
<1>4. \/ UNCHANGED <<pc, cmd, feedback, todo, patch, outcome>>
      \/ pc' = "idle" /\ feedback' = NoComments /\ todo' = {} /\ patch' = Null
  BY DEF Left
<1>5. \A k \in Kinds : /\ DOMAIN comments[k] \subseteq Nat \ {0}
                       /\ DOMAIN comments'[k] \subseteq Nat \ {0}
  <2>1. \A k \in Kinds : DOMAIN comments[k] \subseteq Nat \ {0}
    BY CommentFields DEF IterationInv
  <2>2. \A k \in Kinds : comments'[k] \in Seq(Comment)
    BY DEF TypeOK
  <2>3. \A k \in Kinds : DOMAIN comments'[k] = 1..Len(comments'[k])
    BY <2>2, LenProperties
  <2> QED BY <2>1, <2>2, <2>3
<1>6. HistoryInv' /\ CommandsInv' /\ LinesInv'
  BY <1>3 DEF IterationInv, HistoryInv, CommandsInv, LinesInv, Line
<1>7. NewestInv'
  <2> SUFFICES ASSUME NEW k \in Kinds, NEW F \in SUBSET DOMAIN comments'[k], F # {}
               PROVE  \E m \in F : \A j \in F : j <= m
    BY DEF NewestInv
  <2>1. CASE \E i \in F : i \notin DOMAIN comments[k]
    BY <1>2, <2>1
  <2>2. CASE F \subseteq DOMAIN comments[k]
    BY <2>2 DEF IterationInv, NewestInv
  <2> QED BY <2>1, <2>2
<1>8. ProcessInv'
  BY <1>3, <1>4 DEF IterationInv, ProcessInv
<1>9. FeedbackInv'
  <2>1. FeedbackInv /\ TypeOK
    BY DEF IterationInv
  <2>2. \A k \in Kinds : NoComments[k] = {}
    BY DEF NoComments
  <2>3. \A k \in Kinds : feedback'[k] \subseteq feedback[k]
    BY <1>4, <2>2
  <2>4. ASSUME NEW k \in Kinds
        PROVE  /\ feedback'[k] \subseteq DOMAIN comments'[k]
               /\ journal.cursor[k] \in DOMAIN comments'[k] \cup {0}
    BY <1>1, <2>1, <2>3 DEF FeedbackInv
  <2>5. ASSUME NEW k \in Kinds, NEW i \in DOMAIN comments'[k],
               comments'[k][i].open, i > journal.cursor[k],
               NEW j \in feedback'[k], i <= j
        PROVE  i \in feedback'[k]
    <3>1. feedback' = feedback
      BY <1>4, <2>2, <2>5
    <3>2. j \in DOMAIN comments[k]
      BY <2>1, <2>3, <2>5 DEF FeedbackInv
    <3>3. i \in DOMAIN comments[k]
      BY <1>2, <1>5, <2>5, <3>2
    <3> QED BY <1>1, <2>1, <2>5, <3>1, <3>3 DEF FeedbackInv
  <2>6. \A c \in todo' : c \in Kinds \X Nat /\ c[2] \in DOMAIN comments'[c[1]]
    <3>1. \A c \in todo : c \in Kinds \X Nat /\ c[2] \in DOMAIN comments[c[1]]
      BY <2>1 DEF FeedbackInv
    <3>2. todo' \subseteq todo
      BY <1>4
    <3> QED BY <1>1, <3>1, <3>2
  <2> QED BY <1>3, <2>4, <2>5, <2>6 DEF FeedbackInv
<1>10. WorktreeInv'
  BY <1>3, <1>4 DEF IterationInv, WorktreeInv, HeadTree, Bare
<1>11. RepairedInv'
  <2>1. CASE Left
    BY <2>1 DEF Left, RepairedInv
  <2>2. CASE UNCHANGED <<pc, cmd, feedback, todo, patch, outcome>>
    <3>1. ASSUME NEW c \in todo, Replied(c)
          PROVE  Replied(c)'
      <4>1. c[1] \in Kinds
        BY DEF IterationInv, TypeOK
      <4> QED BY <1>1, <1>3, <2>2, <3>1, <4>1 DEF Replied, MarkerOf
    <3> QED BY <1>3, <2>2, <3>1 DEF IterationInv, RepairedInv, HeadTree, Line
  <2> QED BY <2>1, <2>2
<1>12. OneReplyPerRepair'
  <2> SUFFICES ASSUME NEW k \in Kinds, NEW i \in DOMAIN comments'[k],
                      NEW j \in DOMAIN comments'[k], i < j,
                      comments'[k][i].marker # Null, comments'[k][j].marker # Null,
                      SameAnswer(comments'[k][i].marker, comments'[k][j].marker)
               PROVE  LET m == comments'[k][i].marker
                          n == comments'[k][j].marker
                      IN /\ n.patch # m.patch
                         /\ n.patch.wording \in Verbatim
                         /\ n.patch.tree = commits[n.commit].tree
    BY <1>3 DEF OneReplyPerRepair, SameAnswer
  <2>1. CASE j \in DOMAIN comments[k]
    <3>1. i \in DOMAIN comments[k]
      BY <1>2, <1>5, <2>1
    <3> QED BY <1>1, <2>1, <3>1 DEF IterationInv, OneReplyPerRepair
  <2>2. CASE j \notin DOMAIN comments[k]
    <3>1. i \in DOMAIN comments[k]
      BY <1>2, <1>5, <2>2
    <3> DEFINE m == comments[k][i].marker
    <3>2. /\ comments'[k][j].marker = mk /\ mk # Null /\ mk # m
          /\ comments'[k][i].marker = m /\ m # Null
          /\ m.kind = mk.kind /\ m.id = mk.id /\ m.commit = mk.commit
      BY <1>1, <1>2, <2>2, <3>1 DEF SameAnswer
    <3>3. pc = "reply" /\ mk \in Marker /\ mk.commit = head /\ mk.patch = patch
      BY <3>2
    <3>4. m \in Marker
      BY <3>1, <3>2, CommentFields DEF IterationInv
    <3>5. mk.patch # m.patch
      BY <3>2, <3>3, <3>4 DEF Marker
    <3>6. patch.wording \in Verbatim /\ patch.tree = HeadTree
      BY <3>1, <3>2, <3>3, <3>5 DEF IterationInv, AnsweredInv
    <3> QED BY <3>2, <3>3, <3>5, <3>6 DEF HeadTree
  <2> QED BY <2>1, <2>2
<1>13. RepliesNamePushedCommits'
  BY <1>1, <1>2, <1>3 DEF IterationInv, RepliesNamePushedCommits, Line
<1>14. NoFeedbackSkipped'
  <2> SUFFICES ASSUME NEW k \in Kinds, NEW i \in DOMAIN comments'[k],
                      i <= journal.cursor[k], comments'[k][i].open
               PROVE  i \in journal.processed[k]
    BY <1>3 DEF NoFeedbackSkipped
  <2>1. journal.cursor[k] \in DOMAIN comments[k] \cup {0}
    BY DEF IterationInv, FeedbackInv
  <2>2. i \in DOMAIN comments[k]
    BY <1>2, <1>5, <2>1
  <2> QED BY <1>1, <2>2 DEF IterationInv, NoFeedbackSkipped
<1>15. CompletionIsTrue'
  <2> SUFFICES ASSUME NEW k \in DOMAIN journal.done,
                      journal.done[k].status = "repair_approved"
               PROVE  LET d == journal.done[k]
                      IN /\ d.commit \in Line(remote)
                         /\ d.answered # {}
                         /\ \A c \in d.answered : \E i \in DOMAIN comments'[c[1]] :
                              comments'[c[1]][i].marker =
                                [kind |-> c[1], id |-> c[2], commit |-> d.commit,
                                 patch |-> d.patch]
    BY <1>3 DEF CompletionIsTrue, Line
  <2>1. journal.done[k].answered \in SUBSET (Kinds \X Nat)
    BY DEF IterationInv, TypeOK, Done
  <2>2. \A c \in journal.done[k].answered : c[1] \in Kinds
    BY <2>1
  <2> QED BY <1>1, <2>2 DEF IterationInv, CompletionIsTrue
<1>16. FirstRepairIsApproved'
  BY <1>3 DEF IterationInv, FirstRepairIsApproved
<1>17. AnsweredInv'
  <2> SUFFICES ASSUME pc' \in {"push", "reply"},
                      ~(patch.wording \in Verbatim /\ patch.tree = HeadTree)
               PROVE  /\ UNCHANGED <<pc, patch>>
                      /\ \A k \in Kinds : \A i \in DOMAIN comments'[k] :
                           LET m == comments'[k][i].marker
                           IN m # Null /\ m.commit = head => m.patch = patch
    BY <1>3, <1>4 DEF AnsweredInv, HeadTree
  <2>1. UNCHANGED <<pc, patch>>
    BY <1>4
  <2>2. \A k \in Kinds : \A i \in DOMAIN comments[k] :
          LET m == comments[k][i].marker
          IN m # Null /\ m.commit = head => m.patch = patch
    BY <2>1 DEF IterationInv, AnsweredInv
  <2> QED BY <1>1, <1>2, <2>1, <2>2
<1> QED BY <1>6, <1>7, <1>8, <1>9, <1>10, <1>11, <1>12, <1>13, <1>14, <1>15, <1>16,
           <1>17
        DEF IterationInv

(* One comment more.                                                       *)
LEMMA CommentAdded ==
  ASSUME TypeOK, NEW kind \in Kinds, NEW c \in Comment,
         comments' = [comments EXCEPT ![kind] = Append(@, c)]
  PROVE  /\ comments' \in [Kinds -> Seq(Comment)]
         /\ \A k \in Kinds : \A i \in DOMAIN comments[k] :
              i \in DOMAIN comments'[k] /\ comments'[k][i] = comments[k][i]
         /\ \A k \in Kinds : \A i \in DOMAIN comments'[k] :
              i \notin DOMAIN comments[k] =>
                /\ k = kind /\ comments'[k][i] = c
                /\ \A j \in DOMAIN comments[k] : j < i
                /\ \A j \in DOMAIN comments'[k] : j <= i
<1> DEFINE n == Len(comments[kind]) + 1
<1>1. comments[kind] \in Seq(Comment) /\ n \in Nat
  BY CommentFields
<1>2. comments' \in [Kinds -> Seq(Comment)]
  BY <1>1, AppendProperties DEF TypeOK
<1>3. /\ comments'[kind] = Append(comments[kind], c)
      /\ \A k \in Kinds : k # kind => comments'[k] = comments[k]
  BY DEF TypeOK
<1>4. DOMAIN comments[kind] = 1..Len(comments[kind])
  BY CommentFields
<1>5. /\ \A i \in DOMAIN comments[kind] : comments'[kind][i] = comments[kind][i]
      /\ comments'[kind][n] = c /\ Len(comments'[kind]) = n
  BY <1>1, <1>3, <1>4, AppendProperties
<1>6. DOMAIN comments'[kind] = 1..n
  BY <1>2, <1>5, LenProperties
<1> QED BY <1>1, <1>2, <1>3, <1>4, <1>5, <1>6

(* Users write and resolve.                                                *)
LEMMA UsersKeep ==
  ASSUME IterationInv,
         \/ AskIteration \/ \E kind \in Kinds : GiveFeedback(kind)
         \/ \E i \in DOMAIN comments["review"] : ResolveThread(i)
  PROVE  IterationInv'
<1>0. TypeOK
  BY DEF IterationInv
<1>1. ASSUME NEW kind \in Kinds, NEW what \in {"command", "feedback"},
             comments' = [comments EXCEPT ![kind] = Append(@, Said(what))],
             UNCHANGED <<remote, local, journal, payload, pc, cmd, feedback, todo,
                         patch, outcome>>
      PROVE  IterationInv'
  <2>1. Said(what) \in Comment /\ Said(what).marker = Null
    BY DEF Said, Comment
  <2>2. /\ comments' \in [Kinds -> Seq(Comment)]
        /\ \A k \in Kinds : \A i \in DOMAIN comments[k] :
             i \in DOMAIN comments'[k] /\ comments'[k][i] = comments[k][i]
        /\ \A k \in Kinds : \A i \in DOMAIN comments'[k] :
             i \notin DOMAIN comments[k] =>
               /\ k = kind /\ comments'[k][i] = Said(what)
               /\ \A j \in DOMAIN comments[k] : j < i
               /\ \A j \in DOMAIN comments'[k] : j <= i
    BY <1>0, <1>1, <2>1, CommentAdded
  <2>3. TypeOK'
    BY <1>0, <1>1, <2>2 DEF TypeOK, local
  <2>4. \A k \in Kinds : \A i \in DOMAIN comments[k] :
          /\ i \in DOMAIN comments'[k]
          /\ comments'[k][i].marker = comments[k][i].marker
          /\ comments'[k][i].open => comments[k][i].open
    BY <2>2
  <2>5. \A k \in Kinds : \A i \in DOMAIN comments'[k] :
          i \notin DOMAIN comments[k] =>
            /\ \A j \in DOMAIN comments[k] : j < i
            /\ \A j \in DOMAIN comments'[k] : j <= i
            /\ comments'[k][i].marker = Null
    BY <2>1, <2>2
  <2> QED BY <1>1, <2>3, <2>4, <2>5, CommentsKeep
<1>2. ASSUME NEW i \in DOMAIN comments["review"], ResolveThread(i)
      PROVE  IterationInv'
  <2> DEFINE old == comments["review"]
             Closed(j) == j = i \/ (old[j].what = "reply" /\ old[j].marker.id = i)
             new == [j \in DOMAIN old |->
                       IF Closed(j) THEN [old[j] EXCEPT !.open = FALSE] ELSE old[j]]
  <2>1. /\ comments' = [comments EXCEPT !["review"] = new]
        /\ UNCHANGED <<remote, local, journal, payload, pc, cmd, feedback, todo,
                       patch, outcome>>
    BY <1>2 DEF ResolveThread
  <2>2. "review" \in Kinds
    BY DEF Kinds
  <2>3. /\ old \in Seq(Comment) /\ Len(old) \in Nat /\ DOMAIN old = 1..Len(old)
        /\ \A j \in DOMAIN old : old[j] \in Comment
    BY <1>0, <2>2, CommentFields
  <2>4. \A j \in DOMAIN old :
          /\ new[j] \in Comment /\ new[j].marker = old[j].marker
          /\ new[j].open => old[j].open
    BY <2>3 DEF Comment
  <2>5. DOMAIN new = DOMAIN old
    OBVIOUS
  <2> HIDE DEF new
  <2>6. new \in [1..Len(old) -> Comment]
    <3>1. new = [j \in 1..Len(old) |-> new[j]]
      BY <2>3, <2>5 DEF new
    <3> QED BY <2>3, <2>4, <3>1
  <2>7. new \in Seq(Comment)
    BY <2>3, <2>6, SeqDef
  <2>8. comments' \in [Kinds -> Seq(Comment)]
    BY <1>0, <2>1, <2>7 DEF TypeOK
  <2>9. /\ comments'["review"] = new
        /\ \A k \in Kinds : k # "review" => comments'[k] = comments[k]
    BY <1>0, <2>1, <2>2 DEF TypeOK
  <2>10. TypeOK'
    BY <1>0, <2>1, <2>8 DEF TypeOK, local
  <2>11. \A k \in Kinds : \A j \in DOMAIN comments[k] :
           /\ j \in DOMAIN comments'[k]
           /\ comments'[k][j].marker = comments[k][j].marker
           /\ comments'[k][j].open => comments[k][j].open
    BY <2>4, <2>5, <2>9
  <2>12. \A k \in Kinds : \A j \in DOMAIN comments'[k] : j \in DOMAIN comments[k]
    BY <2>5, <2>9
  <2> QED BY <2>1, <2>10, <2>11, <2>12, CommentsKeep
<1>3. CASE AskIteration
  BY <1>1, <1>3 DEF AskIteration, Kinds
<1>4. CASE \E kind \in Kinds : GiveFeedback(kind)
  BY <1>1, <1>4 DEF GiveFeedback
<1> QED BY <1>2, <1>3, <1>4

(* A reply is posted, and its answer heard or not.                         *)
LEMMA PostKeeps ==
  ASSUME IterationInv, NEW c \in todo, PostReply(c) \/ PostUnheard(c)
  PROVE  IterationInv'
<1>0. TypeOK
  BY DEF IterationInv
<1> DEFINE reply == [what |-> "reply", open |-> comments[c[1]][c[2]].open,
                     marker |-> MarkerOf(c)]
<1>1. /\ pc = "reply" /\ NextToAnswer(c) /\ Post(c)
      /\ UNCHANGED <<remote, local, journal, payload>>
      /\ UNCHANGED <<pc, cmd, feedback, todo, patch, outcome>> \/ Leave("stopped")
  BY DEF PostReply, PostUnheard
<1>2. c \in Kinds \X Nat /\ c[1] \in Kinds /\ c[2] \in DOMAIN comments[c[1]]
  BY DEF IterationInv, FeedbackInv
<1>3. /\ MarkerOf(c) \in Marker /\ MarkerOf(c).commit = head
      /\ MarkerOf(c).patch = patch
  <2>1. patch \in Patch
    BY <1>1, IterationAssumption DEF IterationInv, ProcessInv
  <2> QED BY <1>0, <1>2, <2>1, CommitFields DEF MarkerOf, Marker
<1>4. reply \in Comment /\ reply.marker = MarkerOf(c)
  <2>1. comments[c[1]][c[2]].open \in BOOLEAN
    BY <1>0, <1>2, CommentFields
  <2> QED BY <1>3, <2>1 DEF Comment
<1>5. comments' = [comments EXCEPT ![c[1]] = Append(@, reply)]
  BY <1>1 DEF Post
<1> HIDE DEF reply
<1>6. /\ comments' \in [Kinds -> Seq(Comment)]
      /\ \A k \in Kinds : \A i \in DOMAIN comments[k] :
           i \in DOMAIN comments'[k] /\ comments'[k][i] = comments[k][i]
      /\ \A k \in Kinds : \A i \in DOMAIN comments'[k] :
           i \notin DOMAIN comments[k] =>
             /\ k = c[1] /\ comments'[k][i] = reply
             /\ \A j \in DOMAIN comments[k] : j < i
             /\ \A j \in DOMAIN comments'[k] : j <= i
  BY <1>0, <1>2, <1>4, <1>5, CommentAdded
<1>7. UNCHANGED <<pc, cmd, feedback, todo, patch, outcome>> \/ Left
  BY <1>1 DEF Leave, Left
<1>8. TypeOK'
  <2>1. NoComments \in [Kinds -> SUBSET Nat]
    BY DEF NoComments
  <2> QED BY <1>0, <1>1, <1>6, <2>1 DEF TypeOK, local, Leave, PCs
<1>9. head \in Line(remote)
  BY <1>1 DEF IterationInv, RepairedInv
<1>10. \A j \in DOMAIN comments[c[1]] : comments[c[1]][j].marker # MarkerOf(c)
  BY <1>1 DEF NextToAnswer, Unanswered, Replied
<1>11. \A k \in Kinds : \A i \in DOMAIN comments[k] :
         /\ i \in DOMAIN comments'[k]
         /\ comments'[k][i].marker = comments[k][i].marker
         /\ comments'[k][i].open => comments[k][i].open
  BY <1>6
<1>12. \A k \in Kinds : \A i \in DOMAIN comments'[k] :
         i \notin DOMAIN comments[k] =>
           /\ \A j \in DOMAIN comments[k] : j < i
           /\ \A j \in DOMAIN comments'[k] : j <= i
           /\ comments'[k][i].marker = MarkerOf(c)
           /\ MarkerOf(c) # Null =>
                /\ MarkerOf(c).commit \in Line(remote)
                /\ \A j \in DOMAIN comments[k] : comments[k][j].marker # MarkerOf(c)
  BY <1>3, <1>4, <1>6, <1>9, <1>10
<1> QED BY <1>1, <1>3, <1>7, <1>8, <1>11, <1>12, CommentsKeep

-----------------------------------------------------------------------------
(* The branch and the checkout. *)

(* Somebody else pushes.                                                   *)
LEMMA ForeignKeeps ==
  ASSUME IterationInv, NEW t \in ForeignTrees, ForeignPush(t)
  PROVE  IterationInv'
<1> DEFINE n == Len(commits) + 1
<1>0. /\ TypeOK /\ HistoryInv /\ LinesInv /\ CommandsInv /\ WorktreeInv /\ RepairedInv
      /\ AnsweredInv
      /\ remote \in DOMAIN commits /\ head \in DOMAIN commits /\ t \in Tree
  BY CommitFields, IterationAssumption DEF IterationInv
<1>1. /\ commits' = CommitOnTop(remote, t, 0)
      /\ remote' = Len(commits')
      /\ UNCHANGED <<comments, head, work, journal, payload, pc, cmd, feedback, todo,
                     patch, outcome>>
  BY DEF ForeignPush
<1>2. remote' = n
  BY <1>0, <1>1, CommitFields, AppendProperties DEF CommitOnTop, TypeOK, Commit
<1> HIDE DEF n
<1>3. /\ HistoryInv' /\ LinesInv' /\ commits' \in Seq(Commit)
      /\ Line(remote)' = Line(remote) \cup {n}
      /\ n \in DOMAIN commits'
      /\ \A i \in DOMAIN commits :
           i \in DOMAIN commits' /\ Line(i)' = Line(i) /\ commits'[i] = commits[i]
  <2>1. \A i : i = remote' => Line(i)' = Line(remote)'
    BY DEF Line
  <2> QED BY <1>0, <1>1, <1>2, <2>1, HistoryGrows DEF n
<1>4. TypeOK'
  BY <1>0, <1>1, <1>2, <1>3 DEF TypeOK
<1>5. /\ CommandsInv' /\ OneReplyPerRepair' /\ RepliesNamePushedCommits'
      /\ NoFeedbackSkipped' /\ CompletionIsTrue' /\ FirstRepairIsApproved'
  <2>1. \A i \in Line(remote) : i \in DOMAIN commits
    BY <1>0 DEF HistoryInv
  <2> QED BY <1>1, <1>3, <2>1, BranchKeeps
<1>6. NewestInv' /\ ProcessInv' /\ FeedbackInv'
  BY <1>1 DEF IterationInv, NewestInv, ProcessInv, FeedbackInv
<1>7. HeadTree' = HeadTree /\ commits'[head] = commits[head]
  BY <1>0, <1>1, <1>3 DEF HeadTree
<1>8. WorktreeInv'
  BY <1>0, <1>1, <1>7 DEF WorktreeInv, Bare
<1>9. RepairedInv' /\ AnsweredInv'
  BY <1>0, <1>1, <1>3, <1>7 DEF RepairedInv, AnsweredInv, Replied, MarkerOf
<1> QED BY <1>3, <1>4, <1>5, <1>6, <1>8, <1>9 DEF IterationInv

(* A fresh clone of the branch.                                            *)
LEMMA FreshKeeps ==
  ASSUME IterationInv, FreshCheckout
  PROVE  IterationInv'
<1>0. /\ TypeOK /\ HistoryInv /\ LinesInv /\ CommandsInv
      /\ commits \in Seq(Commit) /\ Len(commits) \in Nat
      /\ DOMAIN commits = 1..Len(commits)
      /\ remote \in DOMAIN commits /\ head \in DOMAIN commits
  <2>1. TypeOK /\ HistoryInv /\ LinesInv /\ CommandsInv
    BY DEF IterationInv
  <2> QED BY <2>1, CommitFields DEF TypeOK
<1>1. /\ pc = "idle" /\ head' = remote /\ work' = commits[remote].tree
      /\ commits' = IF head = Len(commits) /\ head \notin Line(remote)
                    THEN SubSeq(commits, 1, head - 1) ELSE commits
      /\ UNCHANGED <<comments, remote, journal, payload, pc, cmd, feedback, todo,
                     patch, outcome>>
  BY DEF FreshCheckout, github
<1>2. /\ commits' \in Seq(Commit)
      /\ DOMAIN commits' \subseteq DOMAIN commits
      /\ \A i \in DOMAIN commits' : commits'[i] = commits[i]
      /\ \A i \in DOMAIN commits' : \A j \in DOMAIN commits : j <= i => j \in DOMAIN commits'
      /\ Line(remote) \subseteq DOMAIN commits'
  <2>1. CASE commits' = commits
    BY <1>0, <2>1 DEF HistoryInv
  <2>2. CASE /\ head = Len(commits) /\ head \notin Line(remote)
             /\ commits' = SubSeq(commits, 1, head - 1)
    <3>1. head \in Nat /\ head >= 1
      BY <1>0
    <3>2. \A i \in 1..(head - 1) : commits[i] \in Commit
      BY <1>0, <2>2, <3>1, CommitFields
    <3>3. /\ commits' \in Seq(Commit) /\ Len(commits') = head - 1
          /\ \A i \in 1..(head - 1) : commits'[i] = commits[i]
      BY <2>2, <3>1, <3>2, SubSeqProperties
    <3>4. DOMAIN commits' = 1..(head - 1)
      BY <3>3, LenProperties
    <3>5. Line(remote) \subseteq 1..(head - 1)
      BY <1>0, <2>2, <3>1 DEF HistoryInv
    <3> QED BY <1>0, <2>2, <3>1, <3>3, <3>4, <3>5
  <2> QED BY <1>1, <2>1, <2>2
<1>3. remote \in Line(remote) /\ 1 \in Line(remote)
  BY <1>0 DEF HistoryInv
<1>4. HistoryInv'
  <2>1. ASSUME NEW i \in DOMAIN commits'
        PROVE  /\ i \in Line(i)' /\ 1 \in Line(i)'
               /\ \A j \in Line(i)' :
                    j \in DOMAIN commits' /\ j <= i /\ Line(j)' \subseteq Line(i)'
               /\ commits'[i].by = 0 \/ commits'[i].by \in DOMAIN payload
    BY <1>0, <1>2 DEF HistoryInv, Line
  <2>2. commits'[1].tree = Original
    BY <1>0, <1>2, <1>3 DEF HistoryInv
  <2> QED BY <1>1, <2>1, <2>2 DEF HistoryInv
<1>5. LinesInv'
  <2>1. \A c \in DOMAIN commits' : \A j \in Line(c) : j \in DOMAIN commits'
    BY <1>0, <1>2 DEF HistoryInv
  <2> QED BY <1>0, <1>2, <2>1 DEF LinesInv, Line
<1>6. /\ CommandsInv' /\ OneReplyPerRepair' /\ RepliesNamePushedCommits'
      /\ NoFeedbackSkipped' /\ CompletionIsTrue' /\ FirstRepairIsApproved'
  <2>1. Line(remote)' = Line(remote)
    BY <1>1, <1>2, <1>3 DEF Line
  <2> QED BY <1>1, <1>2, <2>1, BranchKeeps
<1>7. NewestInv' /\ ProcessInv' /\ FeedbackInv'
  BY <1>1 DEF IterationInv, NewestInv, ProcessInv, FeedbackInv
<1>8. WorktreeInv' /\ RepairedInv' /\ AnsweredInv'
  BY <1>1 DEF WorktreeInv, RepairedInv, AnsweredInv
<1>9. TypeOK'
  <2>1. \A k \in DOMAIN payload : payload[k] \in DOMAIN commits'
    BY <1>0, <1>2 DEF CommandsInv
  <2>2. commits[remote].tree \in Tree
    BY <1>0, CommitFields
  <2> QED BY <1>0, <1>1, <1>2, <1>3, <2>1, <2>2 DEF TypeOK
<1> QED BY <1>4, <1>5, <1>6, <1>7, <1>8, <1>9 DEF IterationInv

(* The repair is committed.                                                *)
LEMMA CommitKeeps ==
  ASSUME IterationInv, CommitRepair
  PROVE  IterationInv'
<1> DEFINE n == Len(commits) + 1
<1>0. /\ TypeOK /\ HistoryInv /\ LinesInv /\ CommandsInv /\ WorktreeInv /\ ProcessInv
      /\ remote \in DOMAIN commits /\ head \in DOMAIN commits /\ work \in Tree
  <2>1. TypeOK /\ HistoryInv /\ LinesInv /\ CommandsInv /\ WorktreeInv /\ ProcessInv
    BY DEF IterationInv
  <2> QED BY <2>1, CommitFields DEF TypeOK
<1>1. /\ pc = "commit" /\ pc' = "push"
      /\ commits' = CommitOnTop(head, work, cmd)
      /\ head' = Len(commits')
      /\ UNCHANGED <<comments, remote, work, journal, payload, cmd, feedback, todo,
                     patch, outcome>>
  BY DEF CommitRepair, github
<1>2. cmd \in Nat /\ cmd \in DOMAIN payload /\ head = payload[cmd]
      /\ patch \in Replacements
  BY <1>0, <1>1 DEF TypeOK, ProcessInv, WorktreeInv
<1>3. head' = n
  BY <1>0, <1>1, <1>2, CommitFields, AppendProperties DEF CommitOnTop, TypeOK, Commit
<1>4. \A i \in Line(head) : commits[i].by # cmd
  BY <1>0, <1>2 DEF CommandsInv
<1> HIDE DEF n
<1>5. /\ HistoryInv' /\ LinesInv' /\ commits' \in Seq(Commit)
      /\ n \in DOMAIN commits'
      /\ commits'[n].parent = head /\ commits'[n].tree = work
      /\ \A i \in DOMAIN commits :
           i \in DOMAIN commits' /\ Line(i)' = Line(i) /\ commits'[i] = commits[i]
  BY <1>0, <1>1, <1>2, <1>4, HistoryGrows DEF n
<1>6. TypeOK'
  BY <1>0, <1>1, <1>3, <1>5 DEF TypeOK, PCs
<1>7. /\ CommandsInv' /\ OneReplyPerRepair' /\ RepliesNamePushedCommits'
      /\ NoFeedbackSkipped' /\ CompletionIsTrue' /\ FirstRepairIsApproved'
  <2>1. \A i \in Line(remote) : i \in DOMAIN commits
    BY <1>0 DEF HistoryInv
  <2>2. Line(remote)' = Line(remote)
    BY <1>0, <1>1, <1>5 DEF Line
  <2> QED BY <1>1, <1>5, <2>1, <2>2, BranchKeeps
<1>8. NewestInv' /\ ProcessInv' /\ FeedbackInv' /\ WorktreeInv'
  BY <1>1 DEF IterationInv, NewestInv, ProcessInv, FeedbackInv, WorktreeInv
<1>9. RepairedInv'
  <2> SUFFICES ASSUME head = 1
               PROVE  work = patch.tree
    BY <1>1, <1>3, <1>5 DEF RepairedInv, HeadTree
  <2>1. HeadTree = Original
    BY <1>0 DEF HistoryInv, HeadTree
  <2>2. patch.tree \in Tree
    BY <1>2, IterationAssumption DEF Patch
  <2> QED BY <1>0, <1>1, <2>1, <2>2, ReplaceOriginal DEF WorktreeInv, Bare
<1>10. AnsweredInv'
  <2>1. n \notin Line(remote)
    BY <1>0, CommitFields DEF HistoryInv, n
  <2> QED BY <1>1, <1>3, <2>1 DEF IterationInv, RepliesNamePushedCommits, AnsweredInv
<1> QED BY <1>5, <1>6, <1>7, <1>8, <1>9, <1>10 DEF IterationInv

(* origin takes the push, and the answer is heard or not.                  *)
LEMMA PushKeeps ==
  ASSUME IterationInv, PushRepair \/ PushUnheard
  PROVE  IterationInv'
<1>0. TypeOK /\ HistoryInv /\ head \in DOMAIN commits
  BY CommitFields DEF IterationInv
<1>1. /\ pc = "push" /\ remote \in Line(head) /\ remote' = head
      /\ UNCHANGED <<comments, head, work, commits, journal, payload>>
      /\ \/ pc' = "reply" /\ UNCHANGED <<cmd, feedback, todo, patch, outcome>>
         \/ Leave("stopped")
  BY DEF PushRepair, PushUnheard, Push, FastForward, local
<1>2. Line(remote)' = Line(head) /\ Line(remote) \subseteq Line(head)
  BY <1>0, <1>1 DEF Line, HistoryInv
<1>3. HistoryInv' /\ LinesInv' /\ NewestInv'
  BY <1>1 DEF IterationInv, HistoryInv, LinesInv, NewestInv, Line
<1>4. /\ CommandsInv' /\ OneReplyPerRepair' /\ RepliesNamePushedCommits'
      /\ NoFeedbackSkipped' /\ CompletionIsTrue' /\ FirstRepairIsApproved'
  BY <1>1, <1>2, BranchKeeps
<1>5. CASE pc' = "reply" /\ UNCHANGED <<cmd, feedback, todo, patch, outcome>>
  <2>1. TypeOK'
    BY <1>0, <1>1, <1>5 DEF TypeOK, PCs
  <2>2. ProcessInv' /\ FeedbackInv' /\ WorktreeInv'
    BY <1>1, <1>5 DEF IterationInv, ProcessInv, FeedbackInv, WorktreeInv
  <2>3. head \in Line(remote)'
    BY <1>0, <1>2 DEF HistoryInv
  <2>4. RepairedInv'
    BY <1>1, <1>5, <2>3 DEF IterationInv, RepairedInv, HeadTree
  <2>5. AnsweredInv'
    BY <1>1, <1>5 DEF IterationInv, AnsweredInv, HeadTree
  <2> QED BY <1>3, <1>4, <2>1, <2>2, <2>4, <2>5 DEF IterationInv
<1>6. CASE Leave("stopped")
  <2>1. NoComments \in [Kinds -> SUBSET Nat] /\ \A k \in Kinds : NoComments[k] = {}
    BY DEF NoComments
  <2>2. TypeOK'
    BY <1>0, <1>1, <1>6, <2>1 DEF TypeOK, Leave, PCs
  <2>3. ProcessInv' /\ WorktreeInv' /\ RepairedInv' /\ AnsweredInv'
    BY <1>6 DEF Leave, ProcessInv, WorktreeInv, RepairedInv, AnsweredInv
  <2>4. FeedbackInv'
    BY <1>1, <1>6, <2>1 DEF IterationInv, FeedbackInv, Leave
  <2> QED BY <1>3, <1>4, <2>2, <2>3, <2>4 DEF IterationInv
<1> QED BY <1>1, <1>5, <1>6

-----------------------------------------------------------------------------
(* The process. *)

(* A run ends without having told anybody.                                 *)
LEMMA LeaveKeeps ==
  ASSUME IterationInv,
         UndoReverse \/ UndoUnchanged \/ RefuseRepair \/ PushRejected \/ Stop
  PROVE  IterationInv'
<1>0. TypeOK /\ HeadTree \in Tree
  BY CommitFields DEF IterationInv
<1>1. /\ UNCHANGED <<comments, remote, head, commits, journal, payload>>
      /\ \E result \in {"refused", "unchanged", "rejected", "stopped"} : Leave(result)
      /\ \/ work' = work
         \/ work' = Applied(work, Original)
         \/ pc = "commit" /\ work' = Applied(Reversed(work, patch.tree), Original)
  BY DEF UndoReverse, UndoUnchanged, RefuseRepair, PushRejected, Stop, github, local
<1>2. work' \in Tree
  <2>1. work \in Tree /\ Original \in Tree
    BY <1>0, IterationAssumption DEF TypeOK
  <2>2. pc = "commit" => patch.tree \in Tree
    BY IterationAssumption DEF IterationInv, ProcessInv, Patch
  <2> QED BY <1>1, <2>1, <2>2, TreesOfTrees
<1>3. NoComments \in [Kinds -> SUBSET Nat] /\ \A k \in Kinds : NoComments[k] = {}
  BY DEF NoComments
<1>4. TypeOK'
  BY <1>0, <1>1, <1>2, <1>3 DEF TypeOK, Leave, PCs
<1>5. ProcessInv' /\ WorktreeInv' /\ RepairedInv' /\ AnsweredInv'
  BY <1>1 DEF Leave, ProcessInv, WorktreeInv, RepairedInv, AnsweredInv
<1>6. FeedbackInv'
  BY <1>1, <1>3 DEF IterationInv, FeedbackInv, Leave
<1> QED BY <1>1, <1>4, <1>5, <1>6, QuietKeeps DEF IterationInv

(* A command is started, for the first time or again.                      *)
LEMMA StartKeeps ==
  ASSUME IterationInv, NEW k \in DOMAIN comments["issue"], Start(k) \/ StartAgain(k)
  PROVE  IterationInv'
<1>0. /\ TypeOK /\ HistoryInv /\ CommandsInv /\ remote \in DOMAIN commits
      /\ k \in Nat /\ k # 0
  <2>1. "issue" \in Kinds
    BY DEF Kinds
  <2> QED BY <2>1, CommitFields, CommentFields DEF IterationInv
<1>1. CASE StartAgain(k)
  <2>1. /\ pc = "idle" /\ outcome' = "already_processed"
        /\ UNCHANGED <<comments, remote, head, work, commits, journal, payload, pc,
                       cmd, feedback, todo, patch>>
    BY <1>1 DEF StartAgain, github, local
  <2>2. TypeOK'
    BY <1>0, <2>1 DEF TypeOK
  <2>3. ProcessInv' /\ FeedbackInv' /\ WorktreeInv' /\ RepairedInv' /\ AnsweredInv'
    BY <2>1 DEF IterationInv, ProcessInv, FeedbackInv, WorktreeInv, RepairedInv,
       AnsweredInv
  <2> QED BY <2>1, <2>2, <2>3, QuietKeeps DEF IterationInv
<1>2. CASE Start(k)
  <2>1. /\ pc = "idle" /\ pc' = "issues" /\ cmd' = k /\ outcome' = "none"
        /\ payload' = [i \in DOMAIN payload \cup {k} |->
                         IF i \in DOMAIN payload THEN payload[i] ELSE remote]
        /\ UNCHANGED <<comments, remote, head, work, commits, journal, feedback,
                       todo, patch>>
    BY <1>2 DEF Start, PayloadOf, github, local
  <2>2. /\ DOMAIN payload' = DOMAIN payload \cup {k}
        /\ \A i \in DOMAIN payload : payload'[i] = payload[i]
        /\ k \notin DOMAIN payload => payload'[k] = remote
    BY <2>1
  <2>3. TypeOK'
    BY <1>0, <2>1, <2>2 DEF TypeOK, PCs
  <2>4. HistoryInv'
    BY <1>0, <2>1, <2>2 DEF HistoryInv, Line
  <2>5. CommandsInv'
    <3> SUFFICES ASSUME NEW i \in DOMAIN payload'
                 PROVE  /\ payload'[i] \in Line(remote)
                        /\ \A j \in Line(payload'[i]) : commits[j].by # i
      BY <2>1 DEF CommandsInv, Line
    <3>1. CASE i \in DOMAIN payload
      BY <1>0, <2>2, <3>1 DEF CommandsInv
    <3>2. CASE i \notin DOMAIN payload
      <4>1. i = k /\ payload'[i] = remote
        BY <2>2, <3>2
      <4> QED BY <1>0, <3>2, <4>1 DEF HistoryInv
    <3> QED BY <3>1, <3>2
  <2>6. /\ LinesInv' /\ NewestInv' /\ OneReplyPerRepair' /\ RepliesNamePushedCommits'
        /\ NoFeedbackSkipped' /\ CompletionIsTrue' /\ FirstRepairIsApproved'
    BY <2>1 DEF IterationInv, LinesInv, NewestInv, OneReplyPerRepair,
       SameAnswer, RepliesNamePushedCommits, NoFeedbackSkipped, CompletionIsTrue,
       FirstRepairIsApproved, Line
  <2>7. ProcessInv' /\ FeedbackInv' /\ WorktreeInv' /\ RepairedInv' /\ AnsweredInv'
    BY <2>1, <2>2 DEF IterationInv, ProcessInv, FeedbackInv, WorktreeInv, RepairedInv,
       AnsweredInv
  <2> QED BY <2>3, <2>4, <2>5, <2>6, <2>7 DEF IterationInv
<1> QED BY <1>1, <1>2

(* Feedback is fetched, classified and repaired.                           *)
LEMMA ReadKeeps ==
  ASSUME IterationInv,
         \/ FetchIssueComments \/ FetchReviewComments \/ ClassifyFeedback
         \/ ApproveRepair \/ BlockRepair
  PROVE  IterationInv'
<1>0. TypeOK /\ ProcessInv /\ FeedbackInv
  BY DEF IterationInv
<1>1. UNCHANGED <<comments, remote, head, work, commits, journal, payload, cmd, outcome>>
  BY DEF FetchIssueComments, FetchReviewComments, ClassifyFeedback, ApproveRepair,
     BlockRepair, github, local
<1>2. ASSUME NEW kind \in Kinds, pc \in {"issues", "reviews"},
             feedback' = [feedback EXCEPT ![kind] = Unread(kind)],
             pc' \in {"reviews", "classify"}, UNCHANGED <<todo, patch>>
      PROVE  IterationInv'
  <2>1. Unread(kind) \subseteq DOMAIN comments[kind] /\ DOMAIN comments[kind] \subseteq Nat
    BY <1>0, CommentFields DEF Unread
  <2>2. TypeOK'
    BY <1>0, <1>1, <1>2, <2>1 DEF TypeOK, PCs
  <2>3. FeedbackInv'
    BY <1>0, <1>1, <1>2, <2>1 DEF FeedbackInv, TypeOK, Unread
  <2>4. ProcessInv' /\ WorktreeInv' /\ RepairedInv' /\ AnsweredInv'
    BY <1>0, <1>1, <1>2 DEF ProcessInv, WorktreeInv, RepairedInv, AnsweredInv
  <2> QED BY <1>1, <2>2, <2>3, <2>4, QuietKeeps DEF IterationInv
<1>3. CASE ClassifyFeedback
  <2>1. PICK A \in SUBSET Fetched :
          /\ pc = "classify" /\ todo' = A
          /\ pc' = IF A = {} THEN "complete" ELSE "repair"
          /\ UNCHANGED <<feedback, patch>>
    BY <1>3 DEF ClassifyFeedback
  <2>2. \A c \in Fetched : c \in Kinds \X Nat /\ c[2] \in DOMAIN comments[c[1]]
    <3> SUFFICES ASSUME NEW kind \in Kinds, NEW c \in {kind} \X feedback[kind]
                 PROVE  c \in Kinds \X Nat /\ c[2] \in DOMAIN comments[c[1]]
      BY DEF Fetched
    <3> QED BY <1>0 DEF FeedbackInv, TypeOK
  <2>3. TypeOK'
    BY <1>0, <1>1, <2>1, <2>2 DEF TypeOK, PCs
  <2>4. FeedbackInv'
    BY <1>0, <1>1, <2>1, <2>2 DEF FeedbackInv
  <2>5. ProcessInv' /\ WorktreeInv' /\ RepairedInv' /\ AnsweredInv'
    BY <1>0, <1>1, <2>1 DEF ProcessInv, WorktreeInv, RepairedInv, AnsweredInv
  <2> QED BY <1>1, <2>3, <2>4, <2>5, QuietKeeps DEF IterationInv
<1>4. CASE ApproveRepair \/ BlockRepair
  <2>1. /\ pc = "repair" /\ UNCHANGED <<feedback, todo>>
        /\ \/ pc' = "append" /\ patch' \in Replacements
           \/ pc' = "complete" /\ patch' = patch
    BY <1>4 DEF ApproveRepair, BlockRepair
  <2>2. TypeOK'
    BY <1>0, <1>1, <2>1, IterationAssumption DEF TypeOK, PCs
  <2>3. ProcessInv' /\ FeedbackInv' /\ WorktreeInv' /\ RepairedInv' /\ AnsweredInv'
    BY <1>0, <1>1, <2>1 DEF ProcessInv, FeedbackInv, WorktreeInv, RepairedInv,
       AnsweredInv
  <2> QED BY <1>1, <2>2, <2>3, QuietKeeps DEF IterationInv
<1> QED BY <1>2, <1>3, <1>4 DEF FetchIssueComments, FetchReviewComments, Kinds

(* The worktree is prepared, or the repair found to be there already.      *)
LEMMA AppendKeeps ==
  ASSUME IterationInv,
         ReverseCurrent \/ ApplyReplacement \/ ReconcileRepair \/ AllReplied
  PROVE  IterationInv'
<1>0. /\ TypeOK /\ ProcessInv /\ HistoryInv /\ WorktreeInv /\ RepairedInv
      /\ HeadTree \in Tree /\ work \in Tree /\ head \in DOMAIN commits
  <2>1. TypeOK /\ ProcessInv /\ HistoryInv /\ WorktreeInv /\ RepairedInv
    BY DEF IterationInv
  <2> QED BY <2>1, CommitFields DEF TypeOK
<1>1. UNCHANGED <<comments, remote, head, commits, journal, payload, cmd, feedback,
                  todo, patch, outcome>>
  BY DEF ReverseCurrent, ApplyReplacement, ReconcileRepair, AllReplied, github, local
<1>2. HeadTree' = HeadTree /\ Line(remote)' = Line(remote) /\ Bare' = Bare
  BY <1>1 DEF HeadTree, Line, Bare
<1>3. FeedbackInv'
  BY <1>1 DEF IterationInv, FeedbackInv
<1>4. ProcessInv'
  BY <1>0, <1>1 DEF ProcessInv, ReverseCurrent, ApplyReplacement, ReconcileRepair,
     AllReplied
<1>5. work' \in Tree /\ pc' \in PCs
  <2>1. pc = "apply" => patch.tree \in Tree
    BY <1>0, IterationAssumption DEF ProcessInv, Patch
  <2> QED BY <1>0, <2>1, TreesOfTrees, IterationAssumption
          DEF ReverseCurrent, ApplyReplacement, ReconcileRepair, AllReplied, local, PCs
<1>6. TypeOK'
  BY <1>0, <1>1, <1>5 DEF TypeOK
<1>7. WorktreeInv'
  <2>1. CASE ReverseCurrent
    BY <1>0, <1>1, <1>2, <2>1 DEF ReverseCurrent, WorktreeInv, AtRecordedHead,
       CanReverse, Bare
  <2>2. CASE ApplyReplacement
    BY <1>0, <1>1, <1>2, <2>2 DEF ApplyReplacement, WorktreeInv
  <2>3. CASE ReconcileRepair \/ AllReplied
    BY <1>1, <2>3 DEF ReconcileRepair, AllReplied, WorktreeInv
  <2> QED BY <2>1, <2>2, <2>3
<1>8. RepairedInv'
  <2>1. CASE ReverseCurrent \/ ApplyReplacement
    BY <2>1 DEF ReverseCurrent, ApplyReplacement, RepairedInv
  <2>2. CASE ReconcileRepair
    <3>1. remote = head => head \in Line(remote)
      BY <1>0 DEF HistoryInv
    <3> QED BY <1>1, <1>2, <2>2, <3>1 DEF ReconcileRepair, IsThisRepair, RepairedInv
  <2>3. CASE AllReplied
    <3>1. \A c \in todo : Replied(c)' <=> Replied(c)
      BY <1>1 DEF Replied, MarkerOf
    <3> QED BY <1>0, <1>1, <1>2, <2>3, <3>1 DEF AllReplied, Unanswered, RepairedInv
  <2> QED BY <2>1, <2>2, <2>3
<1>9. AnsweredInv'
  BY <1>1, <1>2 DEF ReverseCurrent, ApplyReplacement, ReconcileRepair, IsThisRepair,
     AllReplied, AnsweredInv
<1> QED BY <1>1, <1>3, <1>4, <1>6, <1>7, <1>8, <1>9, QuietKeeps DEF IterationInv

(* The new cursor is not below any comment that was fetched.               *)
LEMMA CursorAdvances ==
  ASSUME IterationInv, NEW kind \in Kinds
  PROVE  /\ NextCursor(kind) \in feedback[kind] \cup {journal.cursor[kind]}
         /\ \A j \in feedback[kind] : j <= NextCursor(kind)
<1>1. feedback[kind] \in SUBSET DOMAIN comments[kind]
  BY DEF IterationInv, FeedbackInv
<1>2. \E i \in feedback[kind] \cup {journal.cursor[kind]} :
        \A j \in feedback[kind] : j <= i
  BY <1>1 DEF IterationInv, NewestInv
<1> QED BY <1>2 DEF NextCursor

(* The command is recorded.                                                *)
LEMMA CompleteKeeps ==
  ASSUME IterationInv, CompleteIteration
  PROVE  IterationInv'
<1>0. /\ TypeOK /\ ProcessInv /\ FeedbackInv /\ RepairedInv
      /\ CompletionIsTrue /\ FirstRepairIsApproved /\ NoFeedbackSkipped
      /\ head \in Nat /\ cmd \in Nat
  <2>1. /\ TypeOK /\ ProcessInv /\ FeedbackInv /\ RepairedInv
        /\ CompletionIsTrue /\ FirstRepairIsApproved /\ NoFeedbackSkipped
    BY DEF IterationInv
  <2> QED BY <2>1, CommitFields DEF TypeOK
<1>1. /\ pc = "complete" /\ Leave("completed")
      /\ journal'.cursor = [kind \in Kinds |-> NextCursor(kind)]
      /\ journal'.processed = [kind \in Kinds |->
                                 journal.processed[kind] \cup feedback[kind]]
      /\ journal'.done = [k \in DOMAIN journal.done \cup {cmd} |->
                            IF k = cmd THEN Completion ELSE journal.done[k]]
      /\ UNCHANGED <<comments, remote, head, work, commits, payload>>
  BY DEF CompleteIteration, github, local
<1>2. /\ DOMAIN journal'.done = DOMAIN journal.done \cup {cmd}
      /\ journal'.done[cmd] = Completion
      /\ \A k \in DOMAIN journal.done : k # cmd => journal'.done[k] = journal.done[k]
  BY <1>1
<1>3. NoComments \in [Kinds -> SUBSET Nat] /\ \A k \in Kinds : NoComments[k] = {}
  BY DEF NoComments
<1>4. \A kind \in Kinds :
        /\ NextCursor(kind) \in feedback[kind] \cup {journal.cursor[kind]}
        /\ \A j \in feedback[kind] : j <= NextCursor(kind)
        /\ NextCursor(kind) \in DOMAIN comments[kind] \cup {0}
        /\ DOMAIN comments[kind] \subseteq Nat \ {0}
  BY <1>0, CursorAdvances, CommentFields DEF FeedbackInv
<1>5. /\ Completion.status = Status
      /\ Completion.commit = IF Status = "repair_approved" THEN head ELSE 0
      /\ Completion.patch = patch
      /\ Completion.answered = IF Status = "repair_approved" THEN todo ELSE {}
  BY DEF Completion
<1>6. Completion \in Done
  <2>1. todo \in SUBSET (Kinds \X Nat) /\ patch \in Patch \cup {Null}
    BY <1>0 DEF TypeOK
  <2>2. Status \in {"feedback_classified", "repair_blocked", "repair_approved"}
    BY DEF Status
  <2> QED BY <1>0, <2>1, <2>2 DEF Completion, Done
<1>7. TypeOK'
  <2>1. journal'.cursor \in [Kinds -> Nat]
    BY <1>1, <1>4
  <2>2. journal'.processed \in [Kinds -> SUBSET Nat]
    BY <1>0, <1>1 DEF TypeOK
  <2>3. /\ DOMAIN journal'.done \subseteq Nat
        /\ \A k \in DOMAIN journal'.done : journal'.done[k] \in Done
    BY <1>0, <1>2, <1>6 DEF TypeOK
  <2>4. /\ pc' = "idle" /\ cmd' = 0 /\ feedback' = NoComments /\ todo' = {}
        /\ patch' = Null /\ outcome' = "completed"
    BY <1>1 DEF Leave
  <2> QED BY <1>0, <1>1, <1>3, <2>1, <2>2, <2>3, <2>4 DEF TypeOK, PCs
<1>8. /\ HistoryInv' /\ CommandsInv' /\ LinesInv' /\ NewestInv'
      /\ OneReplyPerRepair' /\ RepliesNamePushedCommits'
  BY <1>1 DEF IterationInv, HistoryInv, CommandsInv, LinesInv, NewestInv,
     OneReplyPerRepair, SameAnswer, RepliesNamePushedCommits, Line
<1>9. ProcessInv' /\ WorktreeInv' /\ RepairedInv' /\ AnsweredInv'
  BY <1>1 DEF Leave, ProcessInv, WorktreeInv, RepairedInv, AnsweredInv
<1>10. FeedbackInv'
  BY <1>1, <1>3, <1>4 DEF FeedbackInv, Leave
<1>11. NoFeedbackSkipped'
  <2> SUFFICES ASSUME NEW kind \in Kinds, NEW i \in DOMAIN comments[kind],
                      i <= NextCursor(kind), comments[kind][i].open
               PROVE  i \in journal.processed[kind] \cup feedback[kind]
    BY <1>1 DEF NoFeedbackSkipped
  <2>1. CASE i <= journal.cursor[kind]
    BY <1>0, <2>1 DEF NoFeedbackSkipped
  <2>2. CASE i > journal.cursor[kind]
    <3>1. NextCursor(kind) \in feedback[kind]
      BY <1>4, <2>2
    <3> QED BY <1>0, <2>2, <3>1 DEF FeedbackInv
  <2>3. i \in Nat /\ journal.cursor[kind] \in Nat
    BY <1>0, <1>4 DEF TypeOK
  <2> QED BY <2>1, <2>2, <2>3
<1>12. Status = "repair_approved" => todo # {} /\ patch # Null
  BY DEF Status
<1>13. CompletionIsTrue'
  <2> SUFFICES ASSUME NEW k \in DOMAIN journal'.done,
                      journal'.done[k].status = "repair_approved"
               PROVE  LET d == journal'.done[k]
                      IN /\ d.commit \in Line(remote)
                         /\ d.answered # {}
                         /\ \A c \in d.answered : \E i \in DOMAIN comments[c[1]] :
                              comments[c[1]][i].marker =
                                [kind |-> c[1], id |-> c[2], commit |-> d.commit,
                                 patch |-> d.patch]
    BY <1>1 DEF CompletionIsTrue, Line
  <2>1. CASE k = cmd
    BY <1>0, <1>1, <1>2, <1>5, <1>12, <2>1 DEF RepairedInv, Replied, MarkerOf
  <2>2. CASE k # cmd
    BY <1>0, <1>2, <2>2 DEF CompletionIsTrue
  <2> QED BY <2>1, <2>2
<1>14. FirstRepairIsApproved'
  <2> SUFFICES ASSUME NEW k \in DOMAIN journal'.done,
                      journal'.done[k].status = "repair_approved",
                      commits[journal'.done[k].commit].parent = 1
               PROVE  commits[journal'.done[k].commit].tree = journal'.done[k].patch.tree
    BY <1>1 DEF FirstRepairIsApproved
  <2>1. CASE k = cmd
    BY <1>0, <1>1, <1>2, <1>5, <1>12, <2>1 DEF RepairedInv, HeadTree
  <2>2. CASE k # cmd
    BY <1>0, <1>2, <2>2 DEF FirstRepairIsApproved
  <2> QED BY <2>1, <2>2
<1> QED BY <1>7, <1>8, <1>9, <1>10, <1>11, <1>13, <1>14 DEF IterationInv

(* At first the pull request is as publish left it.                        *)
LEMMA IterationInit == Init => IterationInv
<1> SUFFICES ASSUME Init
             PROVE  IterationInv
  OBVIOUS
<1> DEFINE first == [parent |-> 0, tree |-> Original, by |-> 0, line |-> {1}]
<1>1. /\ comments = [kind \in Kinds |-> <<>>] /\ commits = <<first>>
      /\ remote = 1 /\ head = 1 /\ work = Original
      /\ journal.cursor = [kind \in Kinds |-> 0]
      /\ journal.processed = NoComments /\ journal.done = <<>>
      /\ payload = <<>> /\ pc = "idle" /\ cmd = 0
      /\ feedback = NoComments /\ todo = {} /\ patch = Null /\ outcome = "none"
  BY DEF Init
<1>2. /\ first \in Commit /\ first.line = {1} /\ first.tree = Original
      /\ first.by = 0
  BY IterationAssumption DEF Commit
<1> HIDE DEF first
<1>3. commits \in Seq(Commit) /\ DOMAIN commits = {1} /\ commits[1] = first
  BY <1>1, <1>2
<1>4. \A k \in Kinds : comments[k] = <<>> /\ DOMAIN comments[k] = {}
  BY <1>1
<1>5. NoComments \in [Kinds -> SUBSET Nat] /\ \A k \in Kinds : NoComments[k] = {}
  BY DEF NoComments
<1>6. DOMAIN journal.done = {} /\ DOMAIN payload = {}
  BY <1>1
<1>7. TypeOK
  <2>1. comments \in [Kinds -> Seq(Comment)]
    BY <1>1
  <2> QED BY <1>1, <1>3, <1>5, <1>6, <2>1, IterationAssumption DEF TypeOK, PCs
<1>8. HistoryInv /\ CommandsInv /\ LinesInv
  BY <1>2, <1>3, <1>6 DEF HistoryInv, CommandsInv, LinesInv, Line
<1>9. /\ NewestInv /\ OneReplyPerRepair /\ RepliesNamePushedCommits
      /\ NoFeedbackSkipped /\ CompletionIsTrue /\ FirstRepairIsApproved
  BY <1>4, <1>6 DEF NewestInv, OneReplyPerRepair, RepliesNamePushedCommits,
     NoFeedbackSkipped, CompletionIsTrue, FirstRepairIsApproved
<1>10. ProcessInv /\ FeedbackInv /\ WorktreeInv /\ RepairedInv /\ AnsweredInv
  BY <1>1, <1>4, <1>5 DEF ProcessInv, FeedbackInv, WorktreeInv, RepairedInv, AnsweredInv
<1> QED BY <1>7, <1>8, <1>9, <1>10 DEF IterationInv

-----------------------------------------------------------------------------
(* Theorems. *)

(* The invariant holds through every interruption, foreign push and retry. *)
THEOREM IterationInvariant == Spec => []IterationInv
<1>1. IterationInv /\ [Next]_vars => IterationInv'
  <2> SUFFICES ASSUME IterationInv, [Next]_vars
               PROVE  IterationInv'
    OBVIOUS
  <2>1. CASE \/ AskIteration \/ \E kind \in Kinds : GiveFeedback(kind)
             \/ \E i \in DOMAIN comments["review"] : ResolveThread(i)
    BY <2>1, UsersKeep
  <2>2. CASE \E t \in ForeignTrees : ForeignPush(t)
    BY <2>2, ForeignKeeps
  <2>3. CASE FreshCheckout
    BY <2>3, FreshKeeps
  <2>4. CASE \E k \in DOMAIN comments["issue"] : Start(k) \/ StartAgain(k)
    BY <2>4, StartKeeps
  <2>5. CASE \/ FetchIssueComments \/ FetchReviewComments \/ ClassifyFeedback
             \/ ApproveRepair \/ BlockRepair
    BY <2>5, ReadKeeps
  <2>6. CASE ReverseCurrent \/ ApplyReplacement \/ ReconcileRepair \/ AllReplied
    BY <2>6, AppendKeeps
  <2>7. CASE UndoReverse \/ UndoUnchanged \/ RefuseRepair \/ PushRejected \/ Stop
    BY <2>7, LeaveKeeps
  <2>8. CASE CommitRepair
    BY <2>8, CommitKeeps
  <2>9. CASE PushRepair \/ PushUnheard
    BY <2>9, PushKeeps
  <2>10. CASE \E c \in todo : PostReply(c) \/ PostUnheard(c)
    BY <2>10, PostKeeps
  <2>11. CASE CompleteIteration
    BY <2>11, CompleteKeeps
  <2>12. CASE UNCHANGED vars
    <3>1. UNCHANGED <<comments, commits, remote, head, work, journal, payload,
                      pc, cmd, feedback, todo, patch, outcome>>
      BY <2>12 DEF vars
    <3>2. /\ TypeOK' /\ ProcessInv' /\ FeedbackInv' /\ WorktreeInv' /\ RepairedInv'
          /\ AnsweredInv'
      BY <3>1 DEF IterationInv, TypeOK, ProcessInv, FeedbackInv, WorktreeInv,
         RepairedInv, AnsweredInv, HeadTree, Bare, Line, Replied, MarkerOf
    <3> QED BY <3>1, <3>2, QuietKeeps DEF IterationInv
  <2> QED BY <2>1, <2>2, <2>3, <2>4, <2>5, <2>6, <2>7, <2>8, <2>9, <2>10, <2>11,
             <2>12 DEF Next, Run, Interrupted
<1> QED BY <1>1, IterationInit, PTL DEF Spec

(* The pull request, the journal and the process keep their types.         *)
THEOREM TypeCorrect == Spec => []TypeOK
<1>1. IterationInv => TypeOK
  BY DEF IterationInv
<1> QED BY <1>1, IterationInvariant, PTL

(* A command puts one commit on the branch at most: append_repair_commit   *)
(* makes it on top of the head the input file names, and only there.       *)
THEOREM CommitsOnce == Spec => []OneCommitPerCommand
<1>1. IterationInv => OneCommitPerCommand
  BY CommitFields DEF IterationInv, LinesInv, OneCommitPerCommand
<1> QED BY <1>1, IterationInvariant, PTL

(* A comment gets one reply about a commit for one patch, and a further    *)
(* one only for a patch in other words that _reconcile_repair_commit found *)
(* to be the commit's: the marker _find_existing_feedback_reply looks for  *)
(* hashes the words of the patch.                                          *)
THEOREM RepliesOnce == Spec => []OneReplyPerRepair
<1>1. IterationInv => OneReplyPerRepair
  BY DEF IterationInv
<1> QED BY <1>1, IterationInvariant, PTL

(* A reply names a commit that is on the branch and stays there.           *)
THEOREM RepliesArePushed == Spec => []RepliesNamePushedCommits
<1>1. IterationInv => RepliesNamePushedCommits
  BY DEF IterationInv
<1> QED BY <1>1, IterationInvariant, PTL

(* What complete_iteration_state records is so, then and later.            *)
THEOREM CompletionsAreTrue == Spec => []CompletionIsTrue
<1>1. IterationInv => CompletionIsTrue
  BY DEF IterationInv
<1> QED BY <1>1, IterationInvariant, PTL

(* The cursors of fetch_incremental_feedback pass no open comment by.      *)
THEOREM NothingIsSkipped == Spec => []NoFeedbackSkipped
<1>1. IterationInv => NoFeedbackSkipped
  BY DEF IterationInv
<1> QED BY <1>1, IterationInvariant, PTL

(* The first repair on the branch is the patch its reviewer approved; of   *)
(* a second one this is false.                                             *)
THEOREM FirstIsApproved == Spec => []FirstRepairIsApproved
<1>1. IterationInv => FirstRepairIsApproved
  BY DEF IterationInv
<1> QED BY <1>1, IterationInvariant, PTL

(* A refused repair leaves the worktree as it was: git apply undoes what   *)
(* git apply --reverse did, and the other way round.                       *)
THEOREM RefusalsLeaveClean == Spec => RefusalLeavesClean
<1> DEFINE A == outcome' \in {"refused", "unchanged"} /\ pc \in {"apply", "commit"}
                  => work' = HeadTree
<1>1. IterationInv /\ [Next]_vars => [A]_vars
  <2> SUFFICES ASSUME IterationInv, Next,
                      outcome' \in {"refused", "unchanged"}, pc \in {"apply", "commit"}
               PROVE  work' = HeadTree
    OBVIOUS
  <2>1. /\ WorktreeInv /\ outcome = "none" /\ patch.tree \in Tree
        /\ HeadTree \in Tree /\ Bare \in Tree /\ Reverses(HeadTree, Original)
    BY CommitFields, TreesOfTrees, IterationAssumption
       DEF IterationInv, ProcessInv, WorktreeInv, Bare, Patch
  <2>2. Applied(Bare, Original) = HeadTree
    BY <2>1, ReverseThenApply DEF Bare
  <2>3. CASE UndoReverse
    BY <2>1, <2>2, <2>3 DEF UndoReverse, WorktreeInv
  <2>4. CASE UndoUnchanged
    BY <2>1, <2>2, <2>4, ApplyThenReverse DEF UndoUnchanged, WorktreeInv
  <2> QED
    BY <2>1, <2>3, <2>4
       DEF Next, Run, Interrupted, AskIteration, GiveFeedback, ResolveThread,
       ForeignPush, FreshCheckout, StartAgain, Start, FetchIssueComments,
       FetchReviewComments, ClassifyFeedback, ApproveRepair, BlockRepair,
       ReverseCurrent, ApplyReplacement, CommitRepair, ReconcileRepair, RefuseRepair,
       PushRepair, PushRejected, PostReply, AllReplied, CompleteIteration, Stop,
       PushUnheard, PostUnheard, Leave
<1>2. Spec => [][A]_vars
  BY <1>1, IterationInvariant, PTL DEF Spec
<1> QED BY <1>2 DEF RefusalLeavesClean
-----------------------------------------------------------------------------
(* Convergence. *)

(* The models repeat themselves: every repair is the one patch p, in the   *)
(* words git prints it in, blanks aside, and nobody else pushes.           *)
Repeating(p) ==
  /\ ForeignTrees = {} /\ p \in Patch
  /\ Replacements \subseteq {p} /\ p.wording \in Verbatim

(* Then there is one repair commit at most: a fresh clone drops one that   *)
(* was never pushed, and p cannot be put on top of p.                      *)
RepeatInv(p) ==
  /\ IterationInv
  /\ head = Len(commits) /\ commits[1].by = 0
  /\ \A i \in DOMAIN commits :
       i = 1 \/ /\ i = 2 /\ commits[i].parent = 1
                /\ commits[i].tree = p.tree /\ p.tree # Original

(* A patch takes its own place on the branch only if it is the original.   *)
LEMMA OnTopOfItself ==
  ASSUME NEW t \in Tree, Reverses(t, Original), Applies(Reversed(t, Original), t)
  PROVE  t = Original
<1>1. \A f \in Files : t[f] = Original[f]
  BY IterationAssumption DEF Tree, Reverses, Applies, Reversed, Touches
<1> QED BY <1>1, IterationAssumption DEF Tree

(* So the repair is committed on the published tree, and changes it.       *)
LEMMA CommitRepeats ==
  ASSUME NEW p, Repeating(p), RepeatInv(p), CommitRepair
  PROVE  head = 1 /\ work = p.tree /\ p.tree # Original
<1>1. /\ TypeOK /\ HistoryInv /\ WorktreeInv /\ pc = "commit" /\ ~DiffQuiet
      /\ patch = p /\ p.tree \in Tree /\ head \in DOMAIN commits /\ HeadTree \in Tree
  BY CommitFields DEF RepeatInv, Repeating, IterationInv, ProcessInv, CommitRepair, Patch
<1>2. /\ Reverses(HeadTree, Original) /\ Applies(Bare, p.tree)
      /\ work = Applied(Bare, p.tree)
  BY <1>1 DEF WorktreeInv
<1>3. head = 1
  <2> SUFFICES ASSUME head # 1
               PROVE  FALSE
    OBVIOUS
  <2>1. HeadTree = p.tree /\ p.tree # Original
    BY <1>1 DEF RepeatInv, HeadTree
  <2> QED BY <1>1, <1>2, <2>1, OnTopOfItself DEF Bare
<1>4. HeadTree = Original
  BY <1>1, <1>3 DEF HistoryInv, HeadTree
<1>5. work = p.tree
  BY <1>1, <1>2, <1>4, ReplaceOriginal DEF Bare
<1>6. work # HeadTree
  BY <1>1 DEF DiffQuiet
<1> QED BY <1>3, <1>4, <1>5, <1>6

(* Every step keeps it.                                                    *)
LEMMA RepeatKeeps ==
  ASSUME NEW p, Repeating(p), RepeatInv(p), [Next]_vars, IterationInv'
  PROVE  RepeatInv(p)'
<1>0. /\ TypeOK /\ HistoryInv /\ commits \in Seq(Commit) /\ Len(commits) \in Nat
      /\ DOMAIN commits = 1..Len(commits)
      /\ remote \in DOMAIN commits /\ head \in DOMAIN commits /\ head = Len(commits)
  BY CommitFields DEF RepeatInv, IterationInv, TypeOK
<1>1. CASE UNCHANGED <<head, commits>>
  BY <1>1 DEF RepeatInv
<1>2. CASE FreshCheckout
  <2>1. CASE head = remote
    <3>1. UNCHANGED <<head, commits>>
      BY <1>0, <1>2, <2>1 DEF FreshCheckout, HistoryInv
    <3> QED BY <1>1, <3>1
  <2>2. CASE head # remote
    <3>1. head = 2 /\ remote = 1
      BY <1>0, <2>2 DEF RepeatInv
    <3>2. head \notin Line(remote)
      BY <1>0, <3>1 DEF HistoryInv
    <3>3. head' = 1 /\ commits' = SubSeq(commits, 1, 1)
      BY <1>0, <1>2, <3>1, <3>2 DEF FreshCheckout
    <3>4. Len(commits') = 1 /\ commits'[1] = commits[1]
      BY <1>0, <3>1, <3>3, SubSeqProperties
    <3>5. DOMAIN commits' = 1..1
      BY <3>4, CommitFields DEF IterationInv
    <3> QED BY <3>3, <3>4, <3>5 DEF RepeatInv
  <2> QED BY <2>1, <2>2
<1>3. CASE CommitRepair
  <2>1. head = 1 /\ work = p.tree /\ p.tree # Original
    BY <1>3, CommitRepeats
  <2> DEFINE c == [parent |-> head, tree |-> work, by |-> cmd,
                   line |-> Line(head) \cup {2}]
  <2>2. commits' = Append(commits, c) /\ head' = Len(commits')
    BY <1>0, <1>3, <2>1 DEF CommitRepair, CommitOnTop, Line
  <2>3. c \in Commit /\ c.parent = 1 /\ c.tree = p.tree
    BY <1>0, <2>1, CommitFields DEF TypeOK, Commit, Line
  <2> HIDE DEF c
  <2>4. Len(commits) = 1 /\ Len(commits) + 1 = 2
    BY <1>0, <2>1
  <2>5. Len(commits') = 2 /\ commits'[2] = c /\ commits'[1] = commits[1]
    <3>1. /\ Len(Append(commits, c)) = 2 /\ Append(commits, c)[2] = c
          /\ Append(commits, c)[1] = commits[1]
      <4>1. 2 = Len(commits) + 1 /\ 1 \in 1..Len(commits) /\ 1 \in DOMAIN commits
        BY <1>0, <2>4
      <4>2. Append(commits, c)[1] = commits[1] /\ Append(commits, c)[2] = c
        BY <1>0, <2>3, <4>1, OneMore
      <4>3. Len(Append(commits, c)) = Len(commits) + 1
        BY <1>0, <2>3, AppendProperties
      <4> QED BY <4>1, <4>2, <4>3
    <3> QED BY <2>2, <3>1
  <2>6. DOMAIN commits' = 1..2
    BY <2>5, CommitFields DEF IterationInv
  <2> QED BY <2>1, <2>2, <2>3, <2>5, <2>6 DEF RepeatInv
<1> QED
  BY <1>1, <1>2, <1>3
     DEF Next, Run, Interrupted, AskIteration, GiveFeedback, ResolveThread,
     ForeignPush, Repeating, StartAgain, Start, FetchIssueComments,
     FetchReviewComments, ClassifyFeedback, ApproveRepair, BlockRepair,
     ReverseCurrent, ApplyReplacement, UndoReverse, UndoUnchanged, ReconcileRepair,
     RefuseRepair, PushRepair, PushRejected, PostReply, AllReplied,
     CompleteIteration, Stop, PushUnheard, PostUnheard, local, vars

(* When the models give the same patch again and nobody else pushes, a     *)
(* command whose commit has reached the branch is never refused:           *)
(* _reconcile_repair_commit finds the commit at HEAD, whatever the earlier *)
(* runs were interrupted at.                                               *)
THEOREM RerunsConverge ==
  ASSUME NEW p, Repeating(p)
  PROVE  Spec => PushedConverges
<1> DEFINE A == pc = "append" /\ outcome' = "refused" =>
                  \A i \in Line(remote) : commits[i].by # cmd
<1>1. Init => RepeatInv(p)
  <2> SUFFICES ASSUME Init
               PROVE  RepeatInv(p)
    OBVIOUS
  <2>1. IterationInv
    BY IterationInit
  <2> DEFINE first == [parent |-> 0, tree |-> Original, by |-> 0, line |-> {1}]
  <2>2. commits = <<first>> /\ first.by = 0 /\ head = 1
    BY DEF Init
  <2> HIDE DEF first
  <2>3. Len(commits) = 1 /\ DOMAIN commits = {1} /\ commits[1] = first
    BY <2>2
  <2> QED BY <2>1, <2>2, <2>3 DEF RepeatInv
<1>2. RepeatInv(p) /\ [Next]_vars /\ IterationInv' => RepeatInv(p)'
  BY RepeatKeeps
<1>3. RepeatInv(p) /\ [Next]_vars => [A]_vars
  <2> SUFFICES ASSUME RepeatInv(p), Next, pc = "append", outcome' = "refused",
                      NEW i \in Line(remote), commits[i].by = cmd
               PROVE  FALSE
    OBVIOUS
  <2>1. /\ TypeOK /\ HistoryInv /\ CommandsInv /\ patch = p
        /\ cmd \in DOMAIN payload /\ outcome = "none"
    BY DEF RepeatInv, IterationInv, ProcessInv, Repeating
  <2>2. RefuseRepair
    BY <2>1
       DEF Next, Run, Interrupted, AskIteration, GiveFeedback, ResolveThread,
       ForeignPush, FreshCheckout, StartAgain, Start, FetchIssueComments,
       FetchReviewComments, ClassifyFeedback, ApproveRepair, BlockRepair,
       ReverseCurrent, ApplyReplacement, UndoReverse, UndoUnchanged, CommitRepair,
       ReconcileRepair, PushRepair, PushRejected, PostReply, AllReplied,
       CompleteIteration, Stop, PushUnheard, PostUnheard, Leave
  <2>3. payload[cmd] \in Line(remote) /\ \A j \in Line(payload[cmd]) : commits[j].by # cmd
    BY <2>1 DEF CommandsInv
  <2>4. remote \in DOMAIN commits /\ DOMAIN commits = 1..Len(commits) /\ Len(commits) \in Nat
    BY <2>1, CommitFields
  <2>5. \A j \in Line(remote) : j = 1 \/ (j = 2 /\ j \in DOMAIN commits)
    BY <2>1, <2>4 DEF HistoryInv, RepeatInv
  <2>6. payload[cmd] # i /\ i # 1
    BY <2>1, <2>3, <2>4 DEF HistoryInv
  <2>7. i = 2 /\ payload[cmd] = 1 /\ 2 \in DOMAIN commits
    BY <2>3, <2>5, <2>6
  <2>8. head = 2
    BY <2>4, <2>7 DEF RepeatInv
  <2>9. commits[head].parent = payload[cmd] /\ HeadTree = patch.tree /\ patch.wording \in Verbatim
    BY <2>1, <2>7, <2>8 DEF RepeatInv, HeadTree, Repeating
  <2> QED BY <2>2, <2>7, <2>8, <2>9 DEF RefuseRepair, AtRecordedHead, IsThisRepair
<1>4. Spec => [][A]_vars
  BY <1>1, <1>2, <1>3, IterationInvariant, PTL DEF Spec
<1> QED BY <1>4 DEF PushedConverges
-----------------------------------------------------------------------------
(* Refinement. *)

(* A commit's line is its parent's and itself; the commit to push is made  *)
(* on top of the head its command started from; a command that runs has    *)
(* not been recorded; a reply stands among the comments of the kind its    *)
(* marker names.                                                           *)
EffectsInv ==
  /\ Line(1) = {1} /\ commits[1].parent = 0
  /\ \A i \in DOMAIN commits :
       i # 1 => /\ commits[i].parent \in DOMAIN commits /\ commits[i].parent < i
                /\ Line(i) = Line(commits[i].parent) \cup {i}
  /\ pc = "push" => head # 1 /\ commits[head].parent = payload[cmd]
  /\ pc # "idle" => cmd \notin DOMAIN journal.done
  /\ \A kind \in Kinds : \A i \in DOMAIN comments[kind] :
       LET m == comments[kind][i].marker IN m # Null => m.kind = kind

(* A commit on top of p has p for its parent and p's line behind it.       *)
LEMMA LinesGrow ==
  ASSUME TypeOK, HistoryInv, EffectsInv,
         NEW p \in DOMAIN commits, NEW t \in Tree, NEW k \in Nat,
         commits' = CommitOnTop(p, t, k), NEW n, n = Len(commits) + 1
  PROVE  /\ commits'[1].parent = 0 /\ commits'[1].line = {1}
         /\ n \notin DOMAIN commits /\ n # 1 /\ n \in DOMAIN commits'
         /\ commits'[n].parent = p /\ commits'[n].by = k
         /\ commits'[n].line = Line(p) \cup {n}
         /\ \A i \in DOMAIN commits : commits'[i] = commits[i]
         /\ \A i \in DOMAIN commits' :
              i # 1 => /\ commits'[i].parent \in DOMAIN commits'
                       /\ commits'[i].parent < i
                       /\ commits'[i].line = commits'[commits'[i].parent].line \cup {i}
<1> DEFINE new == [parent |-> p, tree |-> t, by |-> k, line |-> Line(p) \cup {n}]
<1>1. /\ commits \in Seq(Commit) /\ DOMAIN commits = 1..Len(commits)
      /\ Len(commits) \in Nat /\ n \in Nat /\ n \notin DOMAIN commits
  BY CommitFields DEF TypeOK
<1>2. new \in Commit
  BY <1>1, CommitFields DEF Commit, Line
<1>3. commits' = Append(commits, new)
  BY DEF CommitOnTop, Line
<1>4. new.parent = p /\ new.by = k /\ new.line = Line(p) \cup {n}
  OBVIOUS
<1> HIDE DEF new
<1>5. /\ DOMAIN commits' = DOMAIN commits \cup {n}
      /\ \A i \in DOMAIN commits : i < n /\ commits'[i] = commits[i]
      /\ commits'[n] = new
  BY <1>1, <1>2, <1>3, OneMore
<1>6. 1 \in DOMAIN commits
  BY <1>1
<1>7. ASSUME NEW i \in DOMAIN commits', i # 1
      PROVE  /\ commits'[i].parent \in DOMAIN commits'
             /\ commits'[i].parent < i
             /\ commits'[i].line = commits'[commits'[i].parent].line \cup {i}
  <2>1. CASE i = n
    BY <1>4, <1>5, <2>1 DEF Line
  <2>2. CASE i \in DOMAIN commits
    BY <1>5, <1>7, <2>2 DEF EffectsInv, Line
  <2> QED BY <1>5, <2>1, <2>2
<1>8. commits'[1].parent = 0 /\ commits'[1].line = {1}
  BY <1>5, <1>6 DEF EffectsInv, Line
<1> QED BY <1>1, <1>4, <1>5, <1>6, <1>7, <1>8

(* The branch changes only with its head or with its commits.              *)
LEMMA BranchStays ==
  ASSUME UNCHANGED remote, remote \in Line(remote),
         \A i \in Line(remote) : commits'[i] = commits[i]
  PROVE  UNCHANGED [i \in Line(remote) |-> commits[i].by]
BY DEF Line

(* The replies are the comments that have a marker.                        *)
LEMMA RepliesAre ==
  ASSUME NEW cs
  PROVE  /\ \A k \in Kinds : \A i \in DOMAIN cs[k] :
              cs[k][i].marker # Null =>
                /\ <<k, i>> \in DOMAIN RepliesAmong(cs)
                /\ RepliesAmong(cs)[<<k, i>>] = cs[k][i].marker
         /\ \A r \in DOMAIN RepliesAmong(cs) :
              \E k \in Kinds : \E i \in DOMAIN cs[k] :
                /\ r = <<k, i>> /\ cs[k][i].marker # Null
                /\ RepliesAmong(cs)[r] = cs[k][i].marker
         /\ RepliesAmong(cs) = [r \in DOMAIN RepliesAmong(cs) |-> RepliesAmong(cs)[r]]
BY DEF RepliesAmong

(* They change only with the comments.                                     *)
LEMMA RepliesStay ==
  ASSUME UNCHANGED comments
  PROVE  UNCHANGED Replies
BY DEF Replies

(* What changes neither GitHub nor the journal is not seen.                *)
LEMMA Unseen ==
  ASSUME IterationInv, UNCHANGED <<comments, remote, journal>>,
         \A i \in Line(remote) : commits'[i] = commits[i]
  PROVE  UNCHANGED Effects!evars
<1>1. remote \in Line(remote)
  BY CommitFields DEF IterationInv, HistoryInv
<1> QED BY <1>1, BranchStays, RepliesStay DEF Effects!evars

(* Somebody's own commit.                                                  *)
LEMMA ForeignPublishes ==
  ASSUME IterationInv, EffectsInv, NEW t \in ForeignTrees, ForeignPush(t)
  PROVE  EffectsInv' /\ Effects!Publish
<1> DEFINE n == Len(commits) + 1
<1>0. /\ TypeOK /\ HistoryInv /\ CommandsInv /\ remote \in DOMAIN commits
      /\ head \in DOMAIN commits /\ t \in Tree
  BY CommitFields, IterationAssumption DEF IterationInv
<1>1. /\ commits' = CommitOnTop(remote, t, 0) /\ remote' = n
      /\ UNCHANGED <<comments, head, journal, payload, pc, cmd>>
  BY <1>0, CommitFields, AppendProperties DEF ForeignPush, CommitOnTop, TypeOK, Commit
<1> HIDE DEF n
<1>2. /\ commits'[1].parent = 0 /\ commits'[1].line = {1}
      /\ n \notin DOMAIN commits
      /\ commits'[n].by = 0 /\ commits'[n].line = Line(remote) \cup {n}
      /\ \A i \in DOMAIN commits : commits'[i] = commits[i]
      /\ \A i \in DOMAIN commits' :
           i # 1 => /\ commits'[i].parent \in DOMAIN commits'
                    /\ commits'[i].parent < i
                    /\ commits'[i].line = commits'[commits'[i].parent].line \cup {i}
  BY <1>0, <1>1, LinesGrow DEF n
<1>3. EffectsInv'
  BY <1>0, <1>1, <1>2 DEF EffectsInv, Line
<1>4. Effects!Publish
  <2> DEFINE b == [i \in Line(remote) |-> commits[i].by]
  <2>1. \A i \in Line(remote) : i \in DOMAIN commits
    BY <1>0 DEF HistoryInv
  <2>2. Line(remote)' = Line(remote) \cup {n}
    BY <1>1, <1>2 DEF Line
  <2>3. b' = [i \in Line(remote) \cup {n} |-> commits'[i].by]
    BY <2>2
  <2>4. n \in DOMAIN b' \ DOMAIN b /\ b'[n] = 0
    BY <1>2, <2>1, <2>3
  <2>5. b' = [y \in DOMAIN b \cup {n} |-> IF y = n THEN b'[n] ELSE b[y]]
    BY <1>2, <2>1, <2>3
  <2>6. UNCHANGED <<Replies, journal.done>>
    BY <1>1, RepliesStay
  <2> HIDE DEF b
  <2> QED BY <2>4, <2>5, <2>6 DEF Effects!Publish, Effects!Adds, b
<1> QED BY <1>3, <1>4

(* The repair: the branch has not moved since its command started, or has  *)
(* the commit already.                                                     *)
LEMMA PushPublishes ==
  ASSUME IterationInv, EffectsInv, PushRepair \/ PushUnheard
  PROVE  EffectsInv' /\ (Effects!Publish \/ UNCHANGED Effects!evars)
<1>0. /\ TypeOK /\ HistoryInv /\ CommandsInv /\ LinesInv /\ ProcessInv
      /\ remote \in DOMAIN commits /\ head \in DOMAIN commits
      /\ DOMAIN commits \subseteq Nat
  BY CommitFields DEF IterationInv
<1>1. /\ pc = "push" /\ remote \in Line(head) /\ remote' = head
      /\ UNCHANGED <<comments, head, commits, journal, payload>>
      /\ (pc' = "reply" /\ cmd' = cmd) \/ pc' = "idle"
  BY DEF PushRepair, PushUnheard, Push, FastForward, Leave, local
<1>2. EffectsInv'
  BY <1>1 DEF EffectsInv, Line
<1>3. CASE remote = head
  <2>1. remote' = remote
    BY <1>1, <1>3
  <2> QED BY <1>1, <1>2, <2>1, Unseen
<1>4. CASE remote # head
  <2> DEFINE b == [i \in Line(remote) |-> commits[i].by]
             p == payload[cmd]
  <2>1. /\ head # 1 /\ commits[head].parent = p /\ p \in DOMAIN commits
        /\ p < head /\ Line(head) = Line(p) \cup {head} /\ p \in Line(remote)
    BY <1>0, <1>1 DEF EffectsInv, ProcessInv, CommandsInv
  <2>2. remote \in Line(p) /\ remote <= p /\ p <= remote
    BY <1>0, <1>1, <1>4, <2>1 DEF HistoryInv
  <2>3. remote = p
    BY <1>0, <2>1, <2>2
  <2>4. Line(remote)' = Line(remote) \cup {head}
    BY <1>1, <2>1, <2>3 DEF Line
  <2>5. head \notin Line(remote) /\ head \in Line(head)
    BY <1>0, <2>1, <2>3 DEF HistoryInv
  <2>6. b' = [i \in Line(remote) \cup {head} |-> commits[i].by]
    BY <1>1, <2>4
  <2>7. head \in DOMAIN b' \ DOMAIN b /\ b'[head] = commits[head].by
    BY <2>5, <2>6
  <2>8. b' = [y \in DOMAIN b \cup {head} |-> IF y = head THEN b'[head] ELSE b[y]]
    BY <2>5, <2>6
  <2>9. commits[head].by = 0 \/ \A j \in DOMAIN b : b[j] # commits[head].by
    BY <1>0, <2>1, <2>3, <2>5 DEF LinesInv
  <2>10. UNCHANGED <<Replies, journal.done>>
    BY <1>1, RepliesStay
  <2> HIDE DEF b
  <2>11. Effects!Publish
    BY <2>7, <2>8, <2>9, <2>10 DEF Effects!Publish, Effects!Adds, b
  <2> QED BY <1>2, <2>11
<1> QED BY <1>3, <1>4

(* A reply is the first of its comment about a commit of the branch.       *)
LEMMA PostAnswers ==
  ASSUME IterationInv, EffectsInv, NEW c \in todo, PostReply(c) \/ PostUnheard(c)
  PROVE  EffectsInv' /\ Effects!Answer
<1> DEFINE m == MarkerOf(c)
           reply == [what |-> "reply", open |-> comments[c[1]][c[2]].open,
                     marker |-> m]
<1>0. TypeOK /\ HistoryInv /\ RepairedInv /\ FeedbackInv
  BY DEF IterationInv
<1>1. /\ pc = "reply" /\ NextToAnswer(c) /\ Post(c)
      /\ UNCHANGED <<remote, head, commits, journal, payload>>
      /\ (pc' = "reply" /\ cmd' = cmd) \/ pc' = "idle"
  BY DEF PostReply, PostUnheard, Leave, local
<1>3. c[1] \in Kinds /\ c[2] \in Nat /\ c[2] \in DOMAIN comments[c[1]]
  BY <1>0 DEF FeedbackInv
<1>4. m \in Marker /\ m.kind = c[1] /\ m.commit = head /\ m # Null
  <2>1. patch \in Patch
    BY <1>1, IterationAssumption DEF IterationInv, ProcessInv
  <2> QED BY <1>0, <1>3, <2>1, CommitFields, NullAssumption DEF MarkerOf, Marker
<1> HIDE DEF m
<1>5. reply \in Comment /\ reply.marker = m
  <2>1. comments[c[1]][c[2]].open \in BOOLEAN
    BY <1>0, <1>3, CommentFields
  <2> QED BY <1>4, <2>1 DEF Comment
<1>6. comments' = [comments EXCEPT ![c[1]] = Append(@, reply)]
  BY <1>1 DEF Post, m
<1> DEFINE n == Len(comments[c[1]]) + 1
           q == <<c[1], n>>
<1>7. /\ DOMAIN comments'[c[1]] = DOMAIN comments[c[1]] \cup {n}
      /\ n \notin DOMAIN comments[c[1]]
  <2>1. /\ comments[c[1]] \in Seq(Comment) /\ Len(comments[c[1]]) \in Nat
        /\ DOMAIN comments[c[1]] = 1..Len(comments[c[1]])
    BY <1>0, <1>3, CommentFields
  <2>2. comments'[c[1]] = Append(comments[c[1]], reply)
    BY <1>0, <1>3, <1>6 DEF TypeOK
  <2>3. /\ Append(comments[c[1]], reply) \in Seq(Comment)
        /\ Len(Append(comments[c[1]], reply)) = Len(comments[c[1]]) + 1
    BY <1>5, <2>1, AppendProperties
  <2>4. DOMAIN comments'[c[1]] = 1..n
    BY <2>2, <2>3, LenProperties
  <2> QED BY <2>1, <2>4
<1> HIDE DEF n
<1> HIDE DEF reply
<1>9. /\ \A k \in Kinds : \A i \in DOMAIN comments[k] :
           i \in DOMAIN comments'[k] /\ comments'[k][i] = comments[k][i]
      /\ \A k \in Kinds : \A i \in DOMAIN comments'[k] :
           i \notin DOMAIN comments[k] => k = c[1] /\ comments'[k][i] = reply
  BY <1>0, <1>3, <1>5, <1>6, CommentAdded
<1>10. \A r \in DOMAIN Replies : Replies[r] # m
  <2> SUFFICES ASSUME NEW k \in Kinds, NEW i \in DOMAIN comments[k],
                      comments[k][i].marker = m
               PROVE  FALSE
    BY RepliesAre DEF Replies
  <2>1. \A j \in DOMAIN comments[c[1]] : comments[c[1]][j].marker # m
    BY <1>1 DEF NextToAnswer, Unanswered, Replied, m
  <2> QED BY <1>4, <2>1 DEF EffectsInv
<1>11. /\ q \notin DOMAIN Replies /\ q \in DOMAIN Replies' /\ Replies'[q] = m
       /\ Replies' = [r \in DOMAIN Replies \cup {q} |-> IF r = q THEN Replies'[q] ELSE Replies[r]]
  <2> DEFINE new == comments'
  <2>0. Replies' = RepliesAmong(new)
    BY DEF Replies
  <2>1. q \notin DOMAIN Replies
    <3> SUFFICES ASSUME NEW k \in Kinds, NEW i \in DOMAIN comments[k], q = <<k, i>>
                 PROVE  FALSE
      BY RepliesAre DEF Replies
    <3> QED BY <1>7
  <2>2. new[c[1]][n].marker = m /\ n \in DOMAIN new[c[1]]
    BY <1>3, <1>5, <1>7, <1>9
  <2>3. q \in DOMAIN Replies' /\ Replies'[q] = m
    BY <1>3, <1>4, <2>0, <2>2, RepliesAre
  <2>4. ASSUME NEW r \in DOMAIN Replies
        PROVE  r \in DOMAIN Replies' /\ Replies'[r] = Replies[r]
    <3>1. PICK k \in Kinds : \E i \in DOMAIN comments[k] :
            /\ r = <<k, i>> /\ comments[k][i].marker # Null
            /\ Replies[r] = comments[k][i].marker
      BY RepliesAre DEF Replies
    <3>2. PICK i \in DOMAIN comments[k] :
            /\ r = <<k, i>> /\ comments[k][i].marker # Null
            /\ Replies[r] = comments[k][i].marker
      BY <3>1
    <3>3. i \in DOMAIN new[k] /\ new[k][i].marker = comments[k][i].marker
      BY <1>9
    <3> QED BY <2>0, <3>2, <3>3, RepliesAre
  <2>5. ASSUME NEW r \in DOMAIN Replies', r # q
        PROVE  r \in DOMAIN Replies
    <3>1. PICK k \in Kinds : \E i \in DOMAIN new[k] :
            r = <<k, i>> /\ new[k][i].marker # Null
      BY <2>0, RepliesAre
    <3>2. PICK i \in DOMAIN new[k] : r = <<k, i>> /\ new[k][i].marker # Null
      BY <3>1
    <3>3. i \in DOMAIN comments[k]
      <4> SUFFICES ASSUME i \notin DOMAIN comments[k]
                   PROVE  FALSE
        OBVIOUS
      <4>1. k = c[1]
        BY <1>9
      <4> QED BY <1>7, <2>5, <3>2, <4>1
    <3>4. new[k][i] = comments[k][i]
      BY <1>9, <3>3
    <3> QED BY <3>2, <3>3, <3>4, RepliesAre DEF Replies
  <2>6. DOMAIN Replies' = DOMAIN Replies \cup {q}
    BY <2>3, <2>4, <2>5
  <2>7. Replies' = [r \in DOMAIN Replies' |-> Replies'[r]]
    BY <2>0, RepliesAre
  <2> HIDE DEF q
  <2> QED BY <2>1, <2>3, <2>4, <2>6, <2>7
<1>12. UNCHANGED <<[i \in Line(remote) |-> commits[i].by], journal.done>>
  BY <1>1 DEF Line
<1>13. m.commit \in DOMAIN [i \in Line(remote) |-> commits[i].by]
  BY <1>0, <1>1, <1>4 DEF RepairedInv
<1> HIDE DEF q
<1>14. Effects!Answer
  BY <1>10, <1>11, <1>12, <1>13 DEF Effects!Answer, Effects!Adds
<1>15. EffectsInv'
  <2>1. ASSUME NEW k \in Kinds, NEW i \in DOMAIN comments'[k],
               comments'[k][i].marker # Null
        PROVE  comments'[k][i].marker.kind = k
    BY <1>4, <1>5, <1>9, <2>1 DEF EffectsInv
  <2> QED BY <1>1, <2>1 DEF EffectsInv, Line
<1> QED BY <1>14, <1>15

(* What users write and resolve is no reply.                               *)
LEMMA UsersUnseen ==
  ASSUME IterationInv, EffectsInv,
         \/ AskIteration \/ \E kind \in Kinds : GiveFeedback(kind)
         \/ \E i \in DOMAIN comments["review"] : ResolveThread(i)
  PROVE  EffectsInv' /\ UNCHANGED Effects!evars
<1>0. TypeOK /\ "issue" \in Kinds /\ "review" \in Kinds
  BY DEF IterationInv, Kinds
<1>1. UNCHANGED <<remote, head, commits, journal, payload, pc, cmd>>
  BY DEF AskIteration, GiveFeedback, ResolveThread, local
<1>2. \A k \in Kinds :
        /\ \A i \in DOMAIN comments[k] :
             i \in DOMAIN comments'[k] /\ comments'[k][i].marker = comments[k][i].marker
        /\ \A i \in DOMAIN comments'[k] :
             i \in DOMAIN comments[k] \/ comments'[k][i].marker = Null
  <2>1. ASSUME NEW kind \in Kinds, NEW what \in {"command", "feedback"},
               comments' = [comments EXCEPT ![kind] = Append(@, Said(what))]
        PROVE  \A k \in Kinds :
                 /\ \A i \in DOMAIN comments[k] :
                      /\ i \in DOMAIN comments'[k]
                      /\ comments'[k][i].marker = comments[k][i].marker
                 /\ \A i \in DOMAIN comments'[k] :
                      i \in DOMAIN comments[k] \/ comments'[k][i].marker = Null
    <3> DEFINE c == Said(what)
    <3>1. c \in Comment /\ c.marker = Null
      BY DEF Said, Comment
    <3> HIDE DEF c
    <3>2. comments' = [comments EXCEPT ![kind] = Append(@, c)]
      BY <2>1 DEF c
    <3> QED BY <1>0, <3>1, <3>2, CommentAdded
  <2>2. CASE AskIteration
    BY <1>0, <2>1, <2>2 DEF AskIteration
  <2>3. CASE \E kind \in Kinds : GiveFeedback(kind)
    BY <2>1, <2>3 DEF GiveFeedback
  <2>4. CASE \E i \in DOMAIN comments["review"] : ResolveThread(i)
    <3>1. PICK i \in DOMAIN comments["review"] : ResolveThread(i)
      BY <2>4
    <3>2. /\ \A k \in Kinds : k # "review" => comments'[k] = comments[k]
          /\ comments'["review"] =
               [j \in DOMAIN comments["review"] |->
                  IF j = i \/ (/\ comments["review"][j].what = "reply"
                               /\ comments["review"][j].marker.id = i)
                  THEN [comments["review"][j] EXCEPT !.open = FALSE]
                  ELSE comments["review"][j]]
      BY <1>0, <3>1 DEF ResolveThread, TypeOK
    <3>3. \A j \in DOMAIN comments["review"] : comments["review"][j] \in Comment
      BY <1>0, CommentFields
    <3>4. \A r \in Comment : [r EXCEPT !.open = FALSE].marker = r.marker
      BY DEF Comment
    <3>5. /\ DOMAIN comments'["review"] = DOMAIN comments["review"]
          /\ \A j \in DOMAIN comments["review"] :
               comments'["review"][j].marker = comments["review"][j].marker
      BY <3>2, <3>3, <3>4
    <3> QED BY <3>2, <3>5
  <2> QED BY <2>2, <2>3, <2>4
<1>3. UNCHANGED Replies
  <2> DEFINE old == comments
             new == comments'
  <2>0. Replies' = RepliesAmong(new) /\ Replies = RepliesAmong(old)
    BY DEF Replies
  <2>1. ASSUME NEW k \in Kinds, NEW i
        PROVE  /\ i \in DOMAIN new[k] /\ new[k][i].marker # Null
                    <=> i \in DOMAIN old[k] /\ old[k][i].marker # Null
               /\ i \in DOMAIN old[k] => new[k][i].marker = old[k][i].marker
    BY <1>2
  <2> HIDE DEF old, new
  <2>2. ASSUME NEW r \in DOMAIN Replies'
        PROVE  r \in DOMAIN Replies
    BY <2>0, <2>1, RepliesAre
  <2>3. ASSUME NEW r \in DOMAIN Replies
        PROVE  r \in DOMAIN Replies' /\ Replies'[r] = Replies[r]
    BY <2>0, <2>1, RepliesAre
  <2> QED BY <2>0, <2>2, <2>3, RepliesAre
<1>4. EffectsInv'
  <2>1. ASSUME NEW k \in Kinds, NEW i \in DOMAIN comments'[k],
               comments'[k][i].marker # Null
        PROVE  comments'[k][i].marker.kind = k
    BY <1>2, <2>1 DEF EffectsInv
  <2> QED BY <1>1, <2>1 DEF EffectsInv, Line
<1> QED BY <1>1, <1>3, <1>4 DEF Effects!evars, Line

(* A record speaks of what is on the branch and among the comments.        *)
LEMMA CompleteRecords ==
  ASSUME IterationInv, EffectsInv, CompleteIteration
  PROVE  EffectsInv' /\ Effects!Record
<1>0. RepairedInv
  BY DEF IterationInv
<1>1. /\ pc = "complete" /\ pc' = "idle"
      /\ journal'.done = [k \in DOMAIN journal.done \cup {cmd} |->
                            IF k = cmd THEN Completion ELSE journal.done[k]]
      /\ UNCHANGED <<comments, remote, head, commits, payload>>
  BY DEF CompleteIteration, Leave, github, local
<1>2. EffectsInv'
  BY <1>1 DEF EffectsInv, Line
<1>3. cmd \notin DOMAIN journal.done
  BY <1>1 DEF EffectsInv
<1>4. /\ cmd \in DOMAIN journal'.done \ DOMAIN journal.done
      /\ journal'.done[cmd] = Completion
      /\ journal'.done = [y \in DOMAIN journal.done \cup {cmd} |->
                            IF y = cmd THEN journal'.done[cmd] ELSE journal.done[y]]
  BY <1>1, <1>3
<1>5. ASSUME Completion.status = "repair_approved"
      PROVE  /\ Completion.commit \in Line(remote)
             /\ \A c \in Completion.answered : \E r \in DOMAIN Replies :
                  Replies[r] = [kind |-> c[1], id |-> c[2], commit |-> Completion.commit,
                                patch |-> Completion.patch]
  <2>1. /\ Status = "repair_approved" /\ Completion.patch = patch
        /\ Completion.commit = head /\ Completion.answered = todo
    BY <1>5 DEF Completion
  <2>2. patch # Null
    BY <2>1 DEF Status
  <2>3. head \in Line(remote) /\ \A c \in todo : Replied(c)
    BY <1>0, <1>1, <2>2 DEF RepairedInv
  <2>4. ASSUME NEW c \in todo
        PROVE  \E r \in DOMAIN Replies :
                 Replies[r] = [kind |-> c[1], id |-> c[2], commit |-> head, patch |-> patch]
    <3> DEFINE m == MarkerOf(c)
    <3>1. PICK i \in DOMAIN comments[c[1]] : comments[c[1]][i].marker = m
      BY <2>3 DEF Replied
    <3>2. c[1] \in Kinds /\ c[2] \in Nat /\ head \in Nat /\ patch \in Patch
      BY <2>2, CommitFields DEF IterationInv, FeedbackInv, TypeOK
    <3>3. m \in Marker
      BY <3>2 DEF MarkerOf, Marker
    <3>4. m # Null
      BY <3>3, NullAssumption
    <3>5. m = [kind |-> c[1], id |-> c[2], commit |-> head, patch |-> patch]
      BY DEF MarkerOf
    <3> HIDE DEF m
    <3>6. <<c[1], i>> \in DOMAIN Replies /\ Replies[<<c[1], i>>] = m
      BY <3>1, <3>2, <3>4, RepliesAre DEF Replies
    <3> QED BY <3>5, <3>6
  <2> QED BY <2>1, <2>3, <2>4
<1>6. Effects!AllDone(Completion)
  BY <1>5 DEF Effects!AllDone
<1>7. UNCHANGED <<[i \in Line(remote) |-> commits[i].by], Replies>>
  BY <1>1, RepliesStay DEF Line
<1>8. Effects!Record
  BY <1>4, <1>6, <1>7 DEF Effects!Record, Effects!Adds
<1> QED BY <1>2, <1>8

(* Commits that are only in the worktree, and their loss.                  *)
LEMMA LocalUnseen ==
  ASSUME IterationInv, IterationInv', EffectsInv, CommitRepair \/ FreshCheckout
  PROVE  EffectsInv' /\ UNCHANGED Effects!evars
<1>0. /\ TypeOK /\ HistoryInv /\ WorktreeInv /\ ProcessInv /\ RepairedInv
      /\ commits \in Seq(Commit) /\ Len(commits) \in Nat
      /\ DOMAIN commits = 1..Len(commits)
      /\ remote \in DOMAIN commits /\ head \in DOMAIN commits /\ work \in Tree
  <2>1. TypeOK /\ HistoryInv /\ WorktreeInv /\ ProcessInv /\ RepairedInv
    BY DEF IterationInv
  <2> QED BY <2>1, CommitFields DEF TypeOK
<1>1. \A i \in Line(remote) : i \in DOMAIN commits /\ i <= remote
  BY <1>0 DEF HistoryInv
<1>2. CASE CommitRepair
  <2> DEFINE n == Len(commits) + 1
  <2>1. /\ pc = "commit" /\ pc' = "push" /\ head = payload[cmd] /\ cmd \in Nat
        /\ commits' = CommitOnTop(head, work, cmd) /\ head' = n
        /\ UNCHANGED <<comments, remote, journal, payload, cmd>>
    BY <1>0, <1>2, CommitFields, AppendProperties
       DEF CommitRepair, CommitOnTop, TypeOK, Commit, WorktreeInv, github
  <2> HIDE DEF n
  <2>2. /\ commits'[1].parent = 0 /\ commits'[1].line = {1}
        /\ n # 1 /\ commits'[n].parent = head
        /\ \A i \in DOMAIN commits : commits'[i] = commits[i]
        /\ \A i \in DOMAIN commits' :
             i # 1 => /\ commits'[i].parent \in DOMAIN commits'
                      /\ commits'[i].parent < i
                      /\ commits'[i].line = commits'[commits'[i].parent].line \cup {i}
    BY <1>0, <2>1, LinesGrow DEF n
  <2>3. EffectsInv'
    BY <2>1, <2>2 DEF EffectsInv, Line
  <2> QED BY <1>1, <2>1, <2>2, <2>3, Unseen
<1>3. CASE FreshCheckout
  <2>1. /\ pc = "idle" /\ pc' = "idle"
        /\ UNCHANGED <<comments, remote, journal, payload, cmd>>
    BY <1>3 DEF FreshCheckout, github
  <2>2. /\ \A i \in DOMAIN commits' : i \in DOMAIN commits /\ commits'[i] = commits[i]
        /\ \A i \in DOMAIN commits' : \A j \in DOMAIN commits : j < i => j \in DOMAIN commits'
        /\ Line(remote) \subseteq DOMAIN commits'
    <3>1. CASE commits' = commits
      BY <1>1, <3>1
    <3>2. CASE /\ head = Len(commits) /\ head \notin Line(remote)
               /\ commits' = SubSeq(commits, 1, head - 1)
      <4>1. \A i \in 1..(head - 1) : commits[i] \in Commit
        BY <1>0, CommitFields
      <4>2. /\ commits' \in Seq(Commit) /\ Len(commits') = head - 1
            /\ \A i \in 1..(head - 1) : commits'[i] = commits[i]
        BY <1>0, <3>2, <4>1, SubSeqProperties
      <4>3. DOMAIN commits' = 1..(head - 1)
        BY <4>2, LenProperties
      <4> QED BY <1>0, <1>1, <3>2, <4>2, <4>3
    <3> QED BY <1>3, <3>1, <3>2 DEF FreshCheckout
  <2>3. 1 \in Line(remote)
    BY <1>0 DEF HistoryInv
  <2>4. EffectsInv'
    BY <1>0, <2>1, <2>2, <2>3 DEF EffectsInv, Line
  <2> QED BY <2>1, <2>2, <2>4, Unseen
<1> QED BY <1>2, <1>3

(* The steps of the process in between, and its ends.                      *)
LEMMA RestUnseen ==
  ASSUME IterationInv, EffectsInv,
         \/ \E k \in DOMAIN comments["issue"] : Start(k) \/ StartAgain(k)
         \/ FetchIssueComments \/ FetchReviewComments \/ ClassifyFeedback
         \/ ApproveRepair \/ BlockRepair
         \/ ReverseCurrent \/ ApplyReplacement \/ ReconcileRepair \/ AllReplied
         \/ UndoReverse \/ UndoUnchanged \/ RefuseRepair \/ PushRejected \/ Stop
  PROVE  EffectsInv' /\ UNCHANGED Effects!evars
<1>0. TypeOK /\ ProcessInv /\ DOMAIN commits \subseteq Nat \ {0}
  BY CommitFields DEF IterationInv
<1>1. UNCHANGED <<comments, remote, head, commits, journal>>
  BY DEF Start, StartAgain, FetchIssueComments, FetchReviewComments, ClassifyFeedback,
     ApproveRepair, BlockRepair, ReverseCurrent, ApplyReplacement, ReconcileRepair,
     AllReplied, UndoReverse, UndoUnchanged, RefuseRepair, PushRejected, Stop, github,
     local
<1>2. \/ pc' = "idle"
      \/ pc' = "issues" /\ cmd' \notin DOMAIN journal.done
      \/ /\ pc # "idle" /\ UNCHANGED <<cmd, payload>>
         /\ pc' = "push" => pc = "append" /\ ~AtRecordedHead /\ IsThisRepair
  BY DEF Start, StartAgain, FetchIssueComments, FetchReviewComments, ClassifyFeedback,
     ApproveRepair, BlockRepair, ReverseCurrent, ApplyReplacement, ReconcileRepair,
     AllReplied, UndoReverse, UndoUnchanged, RefuseRepair, PushRejected, Stop, Leave
<1>3. ASSUME pc = "append", IsThisRepair
      PROVE  head # 1 /\ commits[head].parent = payload[cmd]
  BY <1>0, <1>3 DEF IsThisRepair, EffectsInv, ProcessInv, TypeOK
<1>4. EffectsInv'
  BY <1>1, <1>2, <1>3 DEF EffectsInv, Line
<1> QED BY <1>1, <1>4, Unseen

(* What the runs of iterate-pr leave behind, however they are interrupted  *)
(* and repeated, comes one by one, each in its order, and stays.           *)
THEOREM IterationRefinesEffects == Spec => ImplementsEffects
<1>1. Init => EffectsInv /\ Effects!Init
  <2> SUFFICES ASSUME Init
               PROVE  EffectsInv /\ Effects!Init
    OBVIOUS
  <2> DEFINE first == [parent |-> 0, tree |-> Original, by |-> 0, line |-> {1}]
  <2>1. /\ commits = <<first>> /\ remote = 1 /\ pc = "idle"
        /\ comments = [kind \in Kinds |-> <<>>] /\ journal.done = <<>>
    BY DEF Init
  <2>2. first.parent = 0 /\ first.by = 0 /\ first.line = {1}
    OBVIOUS
  <2> HIDE DEF first
  <2>3. DOMAIN commits = {1} /\ commits[1] = first
    BY <2>1
  <2>4. \A k \in Kinds : DOMAIN comments[k] = {}
    BY <2>1
  <2>5. EffectsInv
    BY <2>1, <2>2, <2>3, <2>4 DEF EffectsInv, Line
  <2>6. [i \in Line(remote) |-> commits[i].by] = [i \in {1} |-> 0]
    BY <2>1, <2>2, <2>3 DEF Line
  <2>7. Replies = <<>>
    <3>1. DOMAIN Replies = {}
      BY <2>4, RepliesAre DEF Replies
    <3> QED BY <3>1, RepliesAre DEF Replies
  <2> QED BY <2>1, <2>5, <2>6, <2>7 DEF Effects!Init
<1>2. IterationInv /\ IterationInv' /\ EffectsInv /\ [Next]_vars
        => EffectsInv' /\ [Effects!Next]_(Effects!evars)
  <2> SUFFICES ASSUME IterationInv, IterationInv', EffectsInv, [Next]_vars
               PROVE  EffectsInv' /\ [Effects!Next]_(Effects!evars)
    OBVIOUS
  <2>1. CASE \/ AskIteration \/ \E kind \in Kinds : GiveFeedback(kind)
             \/ \E i \in DOMAIN comments["review"] : ResolveThread(i)
    BY <2>1, UsersUnseen
  <2>2. CASE \E t \in ForeignTrees : ForeignPush(t)
    BY <2>2, ForeignPublishes DEF Effects!Next
  <2>3. CASE CommitRepair \/ FreshCheckout
    BY <2>3, LocalUnseen
  <2>4. CASE PushRepair \/ PushUnheard
    BY <2>4, PushPublishes DEF Effects!Next
  <2>5. CASE \E c \in todo : PostReply(c) \/ PostUnheard(c)
    BY <2>5, PostAnswers DEF Effects!Next
  <2>6. CASE CompleteIteration
    BY <2>6, CompleteRecords DEF Effects!Next
  <2>7. CASE \/ \E k \in DOMAIN comments["issue"] : Start(k) \/ StartAgain(k)
             \/ FetchIssueComments \/ FetchReviewComments \/ ClassifyFeedback
             \/ ApproveRepair \/ BlockRepair
             \/ ReverseCurrent \/ ApplyReplacement \/ ReconcileRepair \/ AllReplied
             \/ UndoReverse \/ UndoUnchanged \/ RefuseRepair \/ PushRejected \/ Stop
    BY <2>7, RestUnseen
  <2>8. CASE UNCHANGED vars
    <3>1. UNCHANGED <<comments, commits, remote, head, journal, payload, pc, cmd>>
      BY <2>8 DEF vars
    <3>2. EffectsInv'
      BY <3>1 DEF EffectsInv, Line
    <3> QED BY <3>1, <3>2, Unseen
  <2> QED BY <2>1, <2>2, <2>3, <2>4, <2>5, <2>6, <2>7, <2>8
          DEF Next, Run, Interrupted
<1>3. Spec => [][Effects!Next]_(Effects!evars) /\ Effects!Init
  BY <1>1, <1>2, IterationInvariant, PTL DEF Spec
<1> QED BY <1>3 DEF ImplementsEffects, Effects!Spec

(* What is on the branch, said or recorded stays: the ancestry that        *)
(* verify_append_only_history checks at publication is kept by every run.  *)
NothingTakenBack ==
  [][/\ Line(remote) \subseteq Line(remote)'
     /\ \A i \in Line(remote) : commits'[i].by = commits[i].by
     /\ \A q \in DOMAIN Replies :
          q \in DOMAIN Replies' /\ Replies'[q] = Replies[q]
     /\ \A k \in DOMAIN journal.done :
          k \in DOMAIN journal'.done /\ journal'.done[k] = journal.done[k]]_vars

(* It is what CommandEffects promises, and so what its implementation does.*)
THEOREM AppendOnly == Spec => NothingTakenBack
<1> DEFINE A == /\ Line(remote) \subseteq Line(remote)'
                /\ \A i \in Line(remote) : commits'[i].by = commits[i].by
                /\ \A q \in DOMAIN Replies :
                     q \in DOMAIN Replies' /\ Replies'[q] = Replies[q]
                /\ \A k \in DOMAIN journal.done :
                     k \in DOMAIN journal'.done /\ journal'.done[k] = journal.done[k]
<1>1. [Effects!Next]_(Effects!evars) => A
  <2> DEFINE b == [i \in Line(remote) |-> commits[i].by]
             r == journal.done
  <2> SUFFICES ASSUME [Effects!Next]_(Effects!evars)
               PROVE  A
    OBVIOUS
  <2>1. /\ DOMAIN b = Line(remote) /\ DOMAIN b' = Line(remote)'
        /\ \A i \in DOMAIN b : b[i] = commits[i].by
        /\ \A i \in DOMAIN b' : b'[i] = commits'[i].by
    OBVIOUS
  <2>2. \/ UNCHANGED <<b, Replies, r>>
        \/ \E i : b' = [y \in DOMAIN b \cup {i} |-> IF y = i THEN b'[i] ELSE b[y]]
                  /\ i \notin DOMAIN b /\ UNCHANGED <<Replies, r>>
        \/ \E q : Replies' = [y \in DOMAIN Replies \cup {q} |->
                                  IF y = q THEN Replies'[q] ELSE Replies[y]]
                  /\ q \notin DOMAIN Replies /\ UNCHANGED <<b, r>>
        \/ \E k : r' = [y \in DOMAIN r \cup {k} |-> IF y = k THEN r'[k] ELSE r[y]]
                  /\ k \notin DOMAIN r /\ UNCHANGED <<b, Replies>>
    BY DEF Effects!Next, Effects!evars, Effects!Publish, Effects!Answer,
           Effects!Record, Effects!Adds
  <2> HIDE DEF b, r
  <2>3. /\ \A i \in DOMAIN b : i \in DOMAIN b' /\ b'[i] = b[i]
        /\ \A q \in DOMAIN Replies : q \in DOMAIN Replies' /\ Replies'[q] = Replies[q]
        /\ \A k \in DOMAIN r : k \in DOMAIN r' /\ r'[k] = r[k]
    BY <2>2
  <2> QED BY <2>1, <2>3 DEF r
<1>2. Spec => [][Effects!Next]_(Effects!evars)
  BY IterationRefinesEffects, PTL DEF ImplementsEffects, Effects!Spec
<1>3. Spec => [][A]_vars
  BY <1>1, <1>2, PTL
<1> QED BY <1>3 DEF NothingTakenBack
=============================================================================
