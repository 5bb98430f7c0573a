--------------------------- MODULE MCPublication ---------------------------
(***************************************************************************)
(* Bounds for Publication: two candidates that pass at once and can be     *)
(* told apart, and evidence that is written again while it is published    *)
(* and while the pull request is iterated.                                 *)
(***************************************************************************)
EXTENDS Publication, TLC

CONSTANTS a, b

MCAssessments ==
  {[decision |-> "pass", mean |-> 90, least |-> 80]}

Symmetry == Permutations({a, b})
=============================================================================
