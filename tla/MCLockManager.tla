---------------------------- MODULE MCLockManager ----------------------------
(* Small instances of LockManager for TLC. *)
EXTENDS LockManager, TLC

\* Every pull request has a number of its own.
MCDistinct == [p \in PRs |-> p]

\* Neither workers nor pull requests with numbers of their own are told apart.
MCSymmetry == Permutations(Workers) \union Permutations(PRs)
==============================================================================
