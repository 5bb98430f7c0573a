-------------------------- MODULE MCRunTransition --------------------------
(***************************************************************************)
(* Bounds for RunTransition.  The calls are chosen so that the cases meet: *)
(* a first transition, a rival under another key with the same expected    *)
(* version, that rival's retry with the version refreshed, a key reused    *)
(* with another intent, a key reused for another run, and a key reused     *)
(* with its own intent but another expected version.                       *)
(***************************************************************************)
EXTENDS RunTransitionProps

CONSTANTS c1, c2, k1, k2, r1, r2, i1, i2, s1, s2, b1

MCCall(k, r, i, e, s, b) ==
  [key |-> k, run |-> r, intent |-> i, expected |-> e, status |-> s,
   branch |-> b]

MCCalls ==
  {MCCall(k1, r1, i1, 0, s1, b1),
   MCCall(k2, r1, i2, 0, s2, Null),
   MCCall(k2, r1, i2, 1, s2, Null),
   MCCall(k1, r1, i2, 0, s2, Null),
   MCCall(k1, r2, i1, 0, s1, b1),
   MCCall(k1, r1, i1, 1, s1, b1)}

(* A contest, the retry of its loser, and a key reused for another run. *)
MCContest ==
  {MCCall(k1, r1, i1, 0, s1, b1),
   MCCall(k2, r1, i2, 0, s2, Null),
   MCCall(k2, r1, i2, 1, s2, Null),
   MCCall(k1, r2, i1, 0, s1, b1)}
=============================================================================
