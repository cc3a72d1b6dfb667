------------------------------ MODULE MCAutoSync ------------------------------
(* Small instances of AutoSync for TLC. *)
EXTENDS AutoSync, TLC

CONSTANTS child, plain, parent, set

\* The parent manages every other application; an ApplicationSet generates the child.
MCFamily == {child, parent}
MCLarge == {child, plain, parent}
MCOwner == [a \in Apps |-> IF a = child THEN set ELSE NoSet]
MCParents == [a \in Apps |-> IF a = parent THEN {} ELSE {parent}]
MCAutomated == Apps \union AppSets

MCSymmetry == Permutations(Workers) \union Permutations(PRs)
==============================================================================
