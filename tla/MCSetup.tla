------------------------------- MODULE MCSetup -------------------------------
(***************************************************************************)
(* Three files: project.yaml, a document and input/.gitkeep.  While a call  *)
(* of initialize is under way the database has no rows, is nobody else's,   *)
(* and no predecessor is replaced explicitly: initialize never asks for     *)
(* that, and the migrations that run without it see every case, beside the  *)
(* files of one project.  Two calls at once have project.yaml and           *)
(* input/.gitkeep to write, one alone the document too; a damaged database  *)
(* is met by one call of initialize, or by any migrations without it.       *)
(***************************************************************************)
EXTENDS ProjectSetup, TLC

CONSTANTS yaml, document, gitkeep

ThreeFiles == <<yaml, document, gitkeep>>

Setting == \E p \in Processes : stage[p] # "out"
Idle(p) == stage[p] = "out" /\ pc[p] = "idle"
Alone == \A p, q \in Processes : p = q \/ Idle(p) \/ Idle(q)

Plain == /\ rows = {} /\ backups = {} /\ schema # "foreign"
         /\ \A p \in Processes : ~allowLegacy[p]
         /\ schema = "damaged" => Alone
Bare == /\ ~Setting /\ ~input
        /\ files = [f \in Files |-> IF f = gitkeep THEN Absent ELSE NoOne]

Narrow == /\ files[document] = NoOne \/ (files[gitkeep] = NoOne /\ Alone)
          /\ Plain \/ Bare

\* During a call users take files away only; others that appear are of the other call.
Patient ==
    stage' = stage /\ Setting =>
      /\ \A f \in Files : files'[f] \in {files[f], Absent}
      /\ files' = files /\ input' = input => touched' = touched

MCInit == SetupInit /\ Narrow

MCSpec == MCInit /\ [][SetupNext /\ Narrow' /\ Patient]_allVars

Symmetry == Permutations(Processes)
=============================================================================
