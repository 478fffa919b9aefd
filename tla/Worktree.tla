------------------------------- MODULE Worktree -------------------------------
(***************************************************************************)
(* core/worktree.py: prepare, finish and cleanup of disposable worktrees.   *)
(* Each is a sequence of git commands and database statements; no lock      *)
(* covers it, sessions of several processes may be in the middle of theirs, *)
(* and the subagent goes on working in the worktree meanwhile.  Any step    *)
(* may fail and any session may die between two steps.                      *)
(*                                                                          *)
(* Git is modelled by what its commands refuse: "worktree remove" without   *)
(* --force keeps a dirty worktree, "branch -d" keeps a branch that HEAD     *)
(* does not contain.  A branch is the set of commits it contains.  The main *)
(* checkout, which is HEAD and base_ref, is on the target branch or on      *)
(* another one; either may contain what the other lacks.  Symbolic links    *)
(* and directories removed by hand are left out.                            *)
(***************************************************************************)
CONSTANTS
    Sessions,   \* callers of the worktree commands
    Names,      \* the slugs; a slug fixes path and branch
    Commits,    \* the commits subagents may make
    NoOne

ASSUME ConstantsAssumption == NoOne \notin Sessions /\ NoOne \notin Commits

NoBranch == {NoOne}

VARIABLES
    row,     \* the registration of each name in table worktrees
    dir,     \* its working copy
    tip,     \* the commits on its branch
    target, other, \* the commits on the target branch and on another one
    onTarget, \* HEAD of the main checkout is the target branch, or else the other one
    pc, name, seen, existed,  \* a session's place, worktree, tip read and path_exists
    standing \* the working copies a prepare has returned (observed, not in the code)

mainVars == <<target, other, onTarget>>
gitVars == <<dir, tip, mainVars, standing>>
vars == <<row, gitVars, pc, name, seen, existed>>

Preparing == {"adding", "verifying", "registering", "undoing", "reverting", "retracting"}
Cleaning == {"resolving", "inspecting", "comparing", "removing", "deleting", "unregistering"}

TypeOK ==
    /\ row \in [Names -> {"none", "active", "ready"}]
    /\ dir \in [Names -> {"none", "clean", "dirty"}]
    /\ tip \in [Names -> (SUBSET Commits) \cup {NoBranch}]
    /\ target \subseteq Commits /\ other \subseteq Commits
    /\ onTarget \in BOOLEAN
    /\ pc \in [Sessions -> {"idle", "marking"} \cup Preparing \cup Cleaning]
    /\ name \in [Sessions -> Names]
    /\ seen \in [Sessions -> (SUBSET Commits) \cup {NoBranch}]
    /\ existed \in [Sessions -> BOOLEAN]
    /\ standing \subseteq Names

Init ==
    /\ row = [n \in Names |-> "none"]
    /\ dir = [n \in Names |-> "none"]
    /\ tip = [n \in Names |-> NoBranch]
    /\ target = {} /\ other = {} /\ onTarget = TRUE
    /\ pc = [s \in Sessions |-> "idle"]
    /\ name \in [Sessions -> Names]
    /\ seen = [s \in Sessions |-> NoBranch]
    /\ existed = [s \in Sessions |-> FALSE]
    /\ standing = {}

HeadCommits == IF onTarget THEN target ELSE other

Goto(s, from, to) == pc[s] = from /\ pc' = [pc EXCEPT ![s] = to]
\* The call returns or raises.
Return(s) ==
    /\ pc' = [pc EXCEPT ![s] = "idle"]
    /\ seen' = [seen EXCEPT ![s] = NoBranch]
    /\ existed' = [existed EXCEPT ![s] = FALSE]
    /\ UNCHANGED name
Continue(s, to) ==
    /\ pc' = [pc EXCEPT ![s] = to]
    /\ UNCHANGED <<name, seen, existed>>

-----------------------------------------------------------------------------
(***************************************************************************)
(* The git commands.                                                        *)
(***************************************************************************)

\* git worktree add -b: a new branch at HEAD, checked out in a new directory.
CanAdd(n) == tip[n] = NoBranch /\ dir[n] = "none"
AddWorktree(n) ==
    /\ tip' = [tip EXCEPT ![n] = HeadCommits]
    /\ dir' = [dir EXCEPT ![n] = "clean"]
    /\ UNCHANGED <<mainVars, standing>>

CanRemove(n) == dir[n] = "clean"
RemoveWorktree(n) ==
    /\ dir' = [dir EXCEPT ![n] = "none"]
    /\ standing' = standing \ {n}
    /\ UNCHANGED <<tip, mainVars>>

\* Mutant: git branch -D.
CanForceDelete(n) == dir[n] = "none"
CanDelete(n) == dir[n] = "none" /\ tip[n] \subseteq HeadCommits
DeleteBranch(n) ==
    /\ tip' = [tip EXCEPT ![n] = NoBranch]
    /\ UNCHANGED <<dir, mainVars, standing>>

-----------------------------------------------------------------------------
(***************************************************************************)
(* prepare                                                                  *)
(***************************************************************************)
Prepare(s) ==
    \E n \in Names :
      /\ dir[n] = "none"
      /\ Goto(s, "idle", "adding")
      /\ name' = [name EXCEPT ![s] = n]
      /\ UNCHANGED <<row, gitVars, seen, existed>>

Add(s) ==
    /\ pc[s] = "adding"
    /\ \/ CanAdd(name[s]) /\ AddWorktree(name[s]) /\ Continue(s, "verifying")
       \/ ~CanAdd(name[s]) /\ Return(s) /\ UNCHANGED gitVars
    /\ UNCHANGED row

\* git makes the branch before the directory and may stop in between.
AddHalfway(s) ==
    /\ pc[s] = "adding" /\ CanAdd(name[s])
    /\ tip' = [tip EXCEPT ![name[s]] = HeadCommits]
    /\ Return(s)
    /\ UNCHANGED <<row, dir, mainVars, standing>>

Verify(s) ==
    /\ Goto(s, "verifying", IF tip[name[s]] = NoBranch THEN "undoing" ELSE "registering")
    /\ seen' = [seen EXCEPT ![s] = tip[name[s]]]
    /\ UNCHANGED <<row, gitVars, name, existed>>

\* The name is unique in the table; a stale row makes the INSERT fail.
Register(s) ==
    /\ pc[s] = "registering"
    /\ \/ /\ row[name[s]] = "none"
          /\ row' = [row EXCEPT ![name[s]] = "active"]
          /\ standing' = standing \cup ({name[s]} \cap {n \in Names : dir[n] # "none"})
          /\ Return(s)
       \/ /\ row[name[s]] # "none"
          /\ Continue(s, "undoing")
          /\ UNCHANGED <<row, standing>>
    /\ UNCHANGED <<dir, tip, mainVars>>

NotPrepared(s) ==
    /\ pc[s] \in {"verifying", "registering"}
    /\ Continue(s, "undoing")
    /\ UNCHANGED <<row, gitVars>>

\* Only what is still as it was created is taken back.
Undo(s) ==
    /\ pc[s] = "undoing"
    /\ LET n == name[s] IN
       IF seen[s] # NoBranch /\ dir[n] = "clean" /\ tip[n] = seen[s]
       THEN Continue(s, "reverting") ELSE Return(s)
    /\ UNCHANGED <<row, gitVars>>

Revert(s) ==
    /\ pc[s] = "reverting"
    /\ \/ CanRemove(name[s]) /\ RemoveWorktree(name[s]) /\ Continue(s, "retracting")
       \/ ~CanRemove(name[s]) /\ Return(s) /\ UNCHANGED gitVars
    /\ UNCHANGED row

Retract(s) ==
    /\ pc[s] = "retracting"
    /\ IF tip[name[s]] # NoBranch /\ CanDelete(name[s])
       THEN DeleteBranch(name[s]) ELSE UNCHANGED gitVars
    /\ Return(s)
    /\ UNCHANGED row

-----------------------------------------------------------------------------
(***************************************************************************)
(* finish                                                                   *)
(***************************************************************************)
FinishCheck(s) ==
    \E n \in Names :
      /\ row[n] # "none" /\ dir[n] = "clean"
      /\ Goto(s, "idle", "marking")
      /\ name' = [name EXCEPT ![s] = n]
      /\ UNCHANGED <<row, gitVars, seen, existed>>

\* Mutant: finish records the merge that is still to be made.
MarkMerged(s) ==
    /\ pc[s] = "marking"
    /\ row' = [row EXCEPT ![name[s]] = IF @ = "none" THEN @ ELSE "merged"]
    /\ Return(s)
    /\ UNCHANGED gitVars

\* The UPDATE names the slug: it marks whatever is registered under it by then.
Mark(s) ==
    /\ pc[s] = "marking"
    /\ row' = [row EXCEPT ![name[s]] = IF @ = "none" THEN @ ELSE "ready"]
    /\ Return(s)
    /\ UNCHANGED gitVars

-----------------------------------------------------------------------------
(***************************************************************************)
(* cleanup                                                                  *)
(***************************************************************************)
Cleanup(s) ==
    \E n \in Names :
      /\ row[n] # "none"
      /\ Goto(s, "idle", "resolving")
      /\ name' = [name EXCEPT ![s] = n]
      /\ existed' = [existed EXCEPT ![s] = dir[n] # "none"]
      /\ UNCHANGED <<row, gitVars, seen>>

\* Mutant: no branch is taken for unverifiable work although no worktree is left.
ResolveStrictly(s) ==
    LET branch == tip[name[s]] IN
    /\ pc[s] = "resolving"
    /\ \/ branch = NoBranch /\ Return(s)
       \/ /\ branch # NoBranch
          /\ seen' = [seen EXCEPT ![s] = branch]
          /\ pc' = [pc EXCEPT ![s] = IF existed[s] THEN "inspecting" ELSE "comparing"]
          /\ UNCHANGED <<name, existed>>
    /\ UNCHANGED <<row, gitVars>>

Resolve(s) ==
    LET branch == tip[name[s]] IN
    /\ pc[s] = "resolving"
    /\ \/ branch = NoBranch /\ existed[s] /\ Return(s)
       \/ /\ branch # NoBranch \/ ~existed[s]
          /\ seen' = [seen EXCEPT ![s] = branch]
          /\ pc' = [pc EXCEPT ![s] = IF existed[s] THEN "inspecting" ELSE "comparing"]
          /\ UNCHANGED <<name, existed>>
    /\ UNCHANGED <<row, gitVars>>

Inspect(s) ==
    /\ pc[s] = "inspecting"
    /\ IF dir[name[s]] = "clean" THEN Continue(s, "comparing") ELSE Return(s)
    /\ UNCHANGED <<row, gitVars>>

\* merge-base --is-ancestor, with the tip that was read before.
Merged(s) == seen[s] = NoBranch \/ seen[s] \subseteq target

Compare(s) ==
    /\ pc[s] = "comparing"
    /\ IF Merged(s) THEN Continue(s, IF existed[s] THEN "removing" ELSE "deleting") ELSE Return(s)
    /\ UNCHANGED <<row, gitVars>>

Remove(s) ==
    /\ pc[s] = "removing"
    /\ \/ CanRemove(name[s]) /\ RemoveWorktree(name[s]) /\ Continue(s, "deleting")
       \/ ~CanRemove(name[s]) /\ Return(s) /\ UNCHANGED gitVars
    /\ UNCHANGED row

\* A branch that is gone already is as good as deleted.
Delete(s) ==
    LET n == name[s] IN
    /\ pc[s] = "deleting"
    /\ \/ /\ seen[s] = NoBranch \/ tip[n] = NoBranch
          /\ Continue(s, "unregistering")
          /\ UNCHANGED gitVars
       \/ /\ seen[s] # NoBranch /\ tip[n] # NoBranch
          /\ IF CanDelete(n) THEN DeleteBranch(n) /\ Continue(s, "unregistering")
             ELSE Return(s) /\ UNCHANGED gitVars
    /\ UNCHANGED row

Unregister(s) ==
    /\ pc[s] = "unregistering"
    /\ row' = [row EXCEPT ![name[s]] = "none"]
    /\ Return(s)
    /\ UNCHANGED gitVars

-----------------------------------------------------------------------------
(***************************************************************************)
(* The environment.                                                         *)
(***************************************************************************)

\* A git command or the database fails, or the process dies.
Stops(s) ==
    /\ pc[s] # "idle"
    /\ Return(s)
    /\ UNCHANGED <<row, gitVars>>

\* Commits nobody has made yet.
New == {c \in Commits \ (target \cup other) : \A n \in Names : tip[n] = NoBranch \/ c \notin tip[n]}

Work(n) ==
    /\ \/ dir[n] = "clean" /\ dir' = [dir EXCEPT ![n] = "dirty"] /\ UNCHANGED tip
       \/ /\ dir[n] = "dirty" /\ tip[n] # NoBranch
          /\ \E c \in New : tip' = [tip EXCEPT ![n] = @ \cup {c}]
          /\ dir' = [dir EXCEPT ![n] = "clean"]
    /\ UNCHANGED <<row, mainVars, standing, pc, name, seen, existed>>

\* The branch that the main checkout is on takes commits in.
TakeIn(commits) ==
    /\ ~(commits \subseteq HeadCommits)
    /\ target' = IF onTarget THEN target \cup commits ELSE target
    /\ other' = IF onTarget THEN other ELSE other \cup commits
    /\ UNCHANGED <<row, dir, tip, onTarget, standing, pc, name, seen, existed>>

\* A worktree's branch is merged, the target and the other branch are, or the main session
\* commits work of its own.
Merge(n) == tip[n] # NoBranch /\ TakeIn(tip[n])
Join == TakeIn(target \cup other)
Commit == \E c \in New : TakeIn({c})

Switch ==
    /\ onTarget' = ~onTarget
    /\ UNCHANGED <<row, dir, tip, target, other, standing, pc, name, seen, existed>>

-----------------------------------------------------------------------------
CleanupStep(s) == Resolve(s) \/ Inspect(s) \/ Compare(s) \/ Remove(s) \/ Delete(s) \/ Unregister(s)
Step(s) == \/ Add(s) \/ AddHalfway(s) \/ Verify(s) \/ Register(s) \/ NotPrepared(s)
           \/ Undo(s) \/ Revert(s) \/ Retract(s) \/ Mark(s) \/ CleanupStep(s)

Next ==
    \/ \E s \in Sessions : Prepare(s) \/ FinishCheck(s) \/ Cleanup(s) \/ Step(s) \/ Stops(s)
    \/ \E n \in Names : Work(n) \/ Merge(n)
    \/ Join \/ Commit \/ Switch

Spec == Init /\ [][Next]_vars

\* The caller's part, not the code's: a main session repeats its cleanup, and none of
\* its commands fails for ever.
Fairness ==
    \A s \in Sessions :
      /\ WF_vars(Step(s))
      /\ SF_vars(Cleanup(s)) /\ SF_vars(Resolve(s)) /\ SF_vars(Inspect(s))
      /\ SF_vars(Compare(s)) /\ SF_vars(Remove(s)) /\ SF_vars(Delete(s)) /\ SF_vars(Unregister(s))
FairSpec == Spec /\ Fairness

-----------------------------------------------------------------------------
(***************************************************************************)
(* Properties.                                                              *)
(***************************************************************************)

\* "Subagent work must not be lost" (worktree.py:179): whoever prepares, finishes or cleans
\* up, in any order and with any failure, a dirty working copy stays, and a commit stays on
\* its branch unless the target or the branch the main checkout is on contains it.  "The
\* branch tip must already be contained in the recorded target branch before anything is
\* deleted" (worktree.py:186-189) is more than the code does: git branch -d (:136, :232)
\* asks HEAD only, for work that came after the comparison or is taken back by prepare.
WorkSurvives ==
    [][\A n \in Names :
         /\ dir[n] = "dirty" => dir'[n] # "none"
         /\ tip[n] # NoBranch =>
              tip[n] \subseteq target' \/ tip[n] \subseteq other' \/ tip'[n] # NoBranch]_gitVars

\* A worktree that a prepare has returned keeps its registration while it exists:
\* without one nobody can finish or clean it up.
NoOrphanMade ==
    [][\A n \in Names : row[n] # "none" /\ row'[n] = "none" => n \notin standing]_row

\* Cleanup of what is registered can be repeated until it is done: if from some time on the
\* worktree is not dirty and both the target branch and HEAD contain its work, its row goes
\* again and again, wherever an earlier prepare or cleanup has stopped.  Both are needed:
\* merge-base asks the target and branch -d asks HEAD, so a branch made on another HEAD
\* stays refused until that is on the target too.  And a row is needed: what a prepare
\* leaves that dies between git worktree add (:81) and INSERT no command of the product
\* takes away, cleanup answers WORKTREE_UNKNOWN and prepare WORKTREE_EXISTS.
Mergeable(n) ==
    dir[n] # "dirty" /\ (tip[n] = NoBranch \/ tip[n] \subseteq target \cap HeadCommits)
CleanupSucceeds == \A n \in Names : <>[]Mergeable(n) => []<>(row[n] = "none")
=============================================================================
