------------------------------- MODULE MCHook -------------------------------
(***************************************************************************)
(* Two sessions and one worktree; a tree of three paths for the deletions   *)
(* the hook checks. Another branch of the main checkout has commits only    *)
(* while one session at most is under way. The same holds while a hook call *)
(* is under way, and nothing is committed or changed in the worktree then:  *)
(* the hook does not look at it. Where no call may begin there are only     *)
(* worktrees; facts change during calls, and after the first call there are *)
(* only calls. The check of a deletion looks at neither, so it is made while*)
(* there is nothing else.                                                   *)
(***************************************************************************)
EXTENDS Hook, TLC

CONSTANTS a, root, git, sub, yaml

Operation(cwd, discards, at, targets) ==
    [cwd |-> cwd, discards |-> discards, at |-> at, targets |-> targets]
In(p, kind) == [in |-> p, kind |-> kind]

SevenOperations == {
    Operation(a, "work", a, <<>>),
    Operation(a, "work", Main, <<>>),
    Operation(Main, "nothing", Main, <<In(Main, "formal"), In(a, "formal")>>),
    Operation(Main, "nothing", Main, <<In(Main, "memory"), In(Outside, "protected")>>),
    Operation(a, "nothing", a, <<In(a, "formal"), In(Main, "plain")>>),
    Operation(a, "nothing", a, <<>>),
    Operation(a, "volumes", a, <<>>) }

ThreePaths == {git, sub, yaml}
TwoLevels == [p \in ThreePaths |-> IF p = yaml THEN sub ELSE root]

Alone == Cardinality({s \in Sessions : pc[s] # "idle"}) <= 1
Quiet == /\ Alone
         /\ target = {} /\ other = {} /\ onTarget
         /\ \A n \in Names : dir[n] # "dirty" /\ tip[n] \in {{}, NoBranch}

Bounded ==
    /\ other' # {} => Alone'
    /\ stage' # "idle" => Quiet'
    /\ stage = "idle" => blocked' = blocked /\ (verdict = "none" \/ stage' # "idle")

Nothing == HookInit /\ blocked = {}

MCInit == Nothing /\ CleanupInit

MCNext ==
    \/ phase = "idle" /\ UNCHANGED cleanupVars /\ (stage = "idle" => Quiet) /\ GateNext /\ Bounded
    \/ phase = "idle" /\ UNCHANGED cleanupVars /\ ~Quiet /\ stage = "idle" /\ WorktreeStep /\ Observe
          /\ Bounded
    \/ Nothing /\ UNCHANGED gateVars /\ CleanupNext

MCSpec == MCInit /\ [][MCNext]_<<gateVars, cleanupVars>>

Symmetry == Permutations(Sessions) \cup Permutations(Commits)
=============================================================================
