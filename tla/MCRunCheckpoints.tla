-------------------------- MODULE MCRunCheckpoints --------------------------
(***************************************************************************)
(* Bounds for RunCheckpoints: two stages, two transitions, as many         *)
(* recordings as it takes for an attempt to be recorded again out of its   *)
(* turn, and any number of migrations.                                     *)
(***************************************************************************)
EXTENDS RunCheckpoints, TLC

CONSTANTS k1, k2, b1, p1

(* A stage at its second attempt, and the last stage at its first. *)
MCAttempts == {<<"implement", 2>>, <<"publish", 1>>}

(* A run with its branch. *)
MCCreations == {[named |-> TRUE, branch |-> b1]}

(* Verified with or without a branch revision, and not verified. *)
MCRecordings ==
  {[verified |-> TRUE, branch |-> b1], [verified |-> TRUE, branch |-> Null],
   [verified |-> FALSE, branch |-> Null]}

(* What a migration over a database in use leaves is not followed. *)
InUse == ~overtaken

Symmetry == Permutations({k1, k2})
=============================================================================
