--------------------------- MODULE CommandEffects ---------------------------
(***************************************************************************)
(* What iterate-pr leaves behind: commits on the branch, replies to        *)
(* comments and the journal's records.  Each appears in one step, after    *)
(* what it speaks of, and stays: a commit once for its command, a record   *)
(* once for its command, a reply once for its comment, commit and patch.   *)
(* The process, its worktree and its interruptions are not seen.           *)
(* PRIteration implements this specification.                              *)
(***************************************************************************)
EXTENDS Integers

VARIABLES
  branch,   \* the commits of the branch, and the command each was made for
  replies,  \* the marker of each reply, at its place among the comments
  records   \* what the journal says of each command it has

evars == <<branch, replies, records>>

Init ==
  /\ branch = [i \in {1} |-> 0]
  /\ replies = <<>>
  /\ records = <<>>

Adds(f, x) == [y \in DOMAIN f \cup {x} |-> IF y = x THEN f'[x] ELSE f[y]]

(* One commit more, somebody's own or the first of its command. *)
Publish ==
  /\ \E i \in DOMAIN branch' \ DOMAIN branch :
       /\ branch' = Adds(branch, i)
       /\ branch'[i] = 0 \/ \A j \in DOMAIN branch : branch[j] # branch'[i]
  /\ UNCHANGED <<replies, records>>

(* One reply more, about a commit that is on the branch, and the first of  *)
(* its comment for that commit and the patch it names.                     *)
Answer ==
  /\ \E r \in DOMAIN replies' \ DOMAIN replies :
       /\ replies' = Adds(replies, r)
       /\ replies'[r].commit \in DOMAIN branch
       /\ \A q \in DOMAIN replies : replies[q] # replies'[r]
  /\ UNCHANGED <<branch, records>>

(* The commit and the replies a record speaks of. *)
AllDone(d) ==
  d.status = "repair_approved" =>
    /\ d.commit \in DOMAIN branch
    /\ \A c \in d.answered : \E r \in DOMAIN replies :
         replies[r] = [kind |-> c[1], id |-> c[2], commit |-> d.commit,
                       patch |-> d.patch]

(* A command is recorded, when all it did is there to see. *)
Record ==
  /\ \E k \in DOMAIN records' \ DOMAIN records :
       records' = Adds(records, k) /\ AllDone(records'[k])
  /\ UNCHANGED <<branch, replies>>

Next == Publish \/ Answer \/ Record

Spec == Init /\ [][Next]_evars
=============================================================================
