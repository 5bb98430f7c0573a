--------------------------- MODULE MCPRIteration ---------------------------
(***************************************************************************)
(* Bounds for PRIteration: a file x the published patch edits, a file y it *)
(* leaves alone, and a file n that the base does not have.                 *)
(***************************************************************************)
EXTENDS PRIteration

CONSTANTS x, y, n, base, v, w, git, own

MCTree(cx, cy, cn) == [f \in Files |-> IF f = x THEN cx ELSE IF f = y THEN cy ELSE cn]

MCPatch(t, wording) == [tree |-> t, wording |-> wording]

MCOriginal == MCTree(v, base, base)

MCNone == [kind \in Kinds |-> 0]
MCOneIssue == [kind \in Kinds |-> IF kind = "issue" THEN 1 ELSE 0]
MCOneEach == [kind \in Kinds |-> 1]

(* One repair, word for word as git prints it. *)
MCSure == {MCPatch(MCTree(w, base, base), git)}

(* Two repairs: the edit of x made over, and an edit of y added to it. *)
MCChoice == {MCPatch(MCTree(w, base, base), git), MCPatch(MCTree(v, w, base), git)}

(* As above, with the second in the model's own words too, and the         *)
(* published patch with a new file.                                        *)
MCWorded ==
  MCChoice \cup {MCPatch(MCTree(v, w, base), own), MCPatch(MCTree(v, base, w), git)}

MCForeign == {MCTree(v, v, base)}
=============================================================================
