----------------------------- MODULE MCPRWorkflow -----------------------------
(* Small instances of PRWorkflow for TLC: the first pull request affects an application *)
(* with several sources and one that it adds, with its second commit only the former,   *)
(* which the second pull request removes.                                               *)
EXTENDS PRWorkflow, TLC

CONSTANTS p1, p2, multi, fresh

\* What the application that does not track the base branch tracks.
MCTag == [pr |-> NoPR, n |-> 1]
MCKind == [a \in Apps |-> IF a = multi THEN "multi" ELSE "single"]
MCTracks == [a \in Apps |-> IF a = multi THEN MCTag ELSE Base]
MCManages == [a \in Apps |-> {}]
MCAffects == [p \in PRs |-> IF p = p1 THEN <<Apps, {multi} \intersect Apps>> ELSE <<{multi}>>]
MCNew == [p \in PRs |-> IF p = p1 THEN Apps \intersect {fresh} ELSE {}]
MCDeleted == [p \in PRs |-> IF p = p2 THEN {multi} ELSE {}]
MCChanged == [p \in PRs |-> {}]

MCSymmetry == Permutations(Workers)
==============================================================================
