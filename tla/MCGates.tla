------------------------------- MODULE MCGates -------------------------------
(***************************************************************************)
(* Small instances of the two gates with a state of their own, in one run.  *)
(* They share no file and no call: while one goes on, the other is in an    *)
(* initial state.                                                           *)
(***************************************************************************)
EXTENDS Gates, TLC

CONSTANTS origin, fork, r1, r2

\* Two remotes and none preferred, with a local upstream; a fork to push to and an upstream
\* to pull from.
Config(push, upstream) ==
    [pushRemote |-> push, pushDefault |-> None, upstream |-> upstream, remotes |-> Remotes]
TwoConfigs == {Config(None, "local"), Config(fork, origin)}

\* Research for the requirement in hand, and for an earlier one.
TwoDocuments == {[requirement |-> r, complete |-> TRUE] : r \in {r1, r2}}

ThreeRequests ==
    {[class |-> "major_feature", requirement |-> r1, remote |-> None],
     [class |-> "bugfix", requirement |-> None, remote |-> fork],
     [class |-> None, requirement |-> None, remote |-> None]}

StartRests == request = NoRequest /\ ~fresh /\ config.pushRemote # None /\ research.requirement = r1 /\ StartInit
FrontendRests == spec = Missing /\ prototype = Missing /\ FrontendInit

GatesInit == StartInit /\ FrontendInit /\ (StartRests \/ FrontendRests)
GatesNext ==
    \/ FrontendRests /\ StartNext /\ UNCHANGED frontendVars
    \/ StartRests /\ FrontendNext /\ UNCHANGED startVars
GatesSpec == GatesInit /\ [][GatesNext]_<<startVars, frontendVars>>

Symmetry == Permutations(Approvers) \cup Permutations(Prototypes)
=============================================================================
