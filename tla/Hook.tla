-------------------------------- MODULE Hook --------------------------------
(***************************************************************************)
(* What a hook call may ask, side by side: the rules for a place, with the  *)
(* worktrees they are about (HookGate), and the check of what a deletion    *)
(* would take with it (CleanupCheck).  A call is about one or the other.    *)
(***************************************************************************)
EXTENDS HookGate, CleanupCheck

GateTypeOK == TypeOK /\ HookTypeOK /\ CleanupTypeOK
=============================================================================
