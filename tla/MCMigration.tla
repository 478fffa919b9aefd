----------------------------- MODULE MCMigration -----------------------------
(* Processes are interchangeable. *)
EXTENDS Migration, TLC

Symmetry == Permutations(Processes)
=============================================================================
