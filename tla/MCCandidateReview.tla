------------------------- MODULE MCCandidateReview -------------------------
(***************************************************************************)
(* Bounds for CandidateReview: two candidates that can be exchanged and one *)
(* out of scope, answers of the evaluator on both sides of the limits,     *)
(* answers of which three cheap ones fit a budget or one dear one does, and *)
(* a repair within and one outside the allow-list.                         *)
(***************************************************************************)
EXTENDS CandidateReview, TLC

CONSTANTS a, b, x

Answer(d, m, l) == [decision |-> d, mean |-> m, least |-> l]

MCAssessments ==
  {Answer("revise", 80, 70), Answer("pass", 90, 70), Answer("pass", 90, 80)}

MCProposals == {{a, b}, {a, b, Pin}}

Symmetry == Permutations({a, b})
=============================================================================
