----------------------------- MODULE MCWorktree -----------------------------
(* Sessions and commits are interchangeable. *)
EXTENDS Worktree, TLC

Symmetry == Permutations(Sessions) \cup Permutations(Commits)
=============================================================================
