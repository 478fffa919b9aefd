-------------------------------- MODULE Gates --------------------------------
(***************************************************************************)
(* The two gates of core/gates.py that keep something from one call to the  *)
(* next, side by side: the Code Start record (CodeStart) and the approval   *)
(* of a frontend design (FrontendApproval).  They share no file, so that    *)
(* together they do whatever each of them does by itself.                   *)
(***************************************************************************)
EXTENDS CodeStart, FrontendApproval

GatesTypeOK == StartTypeOK /\ FrontendTypeOK
=============================================================================
