----------------------------- MODULE MCFinishRun -----------------------------
(* Small instances of FinishRun: one check of each kind. *)
EXTENDS FinishRun, TLC

\* task_diff, ruff, code_start
ThreeCommands == {2}
ThreeSkippable == {2, 3}

\* task_diff, ruff
TwoSkippable == {2}

Symmetry == Permutations(Invocations) \cup Permutations(Queries)
=============================================================================
