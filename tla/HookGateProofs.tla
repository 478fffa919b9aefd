------------------------------- MODULE HookGateProofs -------------------------------
(***************************************************************************)
(* What holds of HookGate, Worktree and CleanupCheck, for any sessions,     *)
(* names, commits, operations and trees, from ConstantsAssumption,          *)
(* HookAssumption and CleanupAssumption.                                    *)
(*                                                                          *)
(* Worktree: a branch is deleted only when HEAD contains its commits, and a *)
(* working copy removed only when it is clean; types are all the proof      *)
(* needs beside that.  HookGate adds only observers to Worktree.  The       *)
(* reasons that have stood since a call began can only become fewer, so     *)
(* what a step has refuted once stays refuted: the invariant says, for each *)
(* place of the evaluation, which reasons have been.                        *)
(* CleanupCheck: whatever has stood since the check began lies below a      *)
(* directory that is to be opened, or is listed.                            *)
(***************************************************************************)
EXTENDS Hook, SequenceTheorems, TLAPS

-----------------------------------------------------------------------------
(***************************************************************************)
(* The worktrees.                                                           *)
(***************************************************************************)

LEMMA InitTypes == Init => TypeOK
BY DEF Init, TypeOK, NoBranch

LEMMA HeadIsTyped ==
    ASSUME TypeOK
    PROVE  HeadCommits \in SUBSET Commits /\ (HeadCommits = target \/ HeadCommits = other)
BY DEF TypeOK, HeadCommits

\* The types of what a session keeps, and of what all share.
CallTypes ==
    /\ pc \in [Sessions -> {"idle", "marking"} \cup Preparing \cup Cleaning]
    /\ name \in [Sessions -> Names]
    /\ seen \in [Sessions -> (SUBSET Commits) \cup {NoBranch}]
    /\ existed \in [Sessions -> BOOLEAN]
SharedTypes ==
    /\ row \in [Names -> {"none", "active", "ready"}]
    /\ dir \in [Names -> {"none", "clean", "dirty"}]
    /\ tip \in [Names -> (SUBSET Commits) \cup {NoBranch}]
    /\ target \subseteq Commits /\ other \subseteq Commits
    /\ onTarget \in BOOLEAN
    /\ standing \subseteq Names

LEMMA TypesSplit == TypeOK <=> CallTypes /\ SharedTypes
BY DEF TypeOK, CallTypes, SharedTypes

LEMMA ReturnTypes == ASSUME CallTypes, NEW s \in Sessions, Return(s) PROVE CallTypes'
BY DEF CallTypes, Return, NoBranch

LEMMA ContinueTypes ==
    ASSUME CallTypes, NEW s \in Sessions, NEW to \in Preparing \cup Cleaning, Continue(s, to)
    PROVE  CallTypes'
BY DEF CallTypes, Continue

\* The steps by which a session goes on, whatever they do to what is shared.
LEMMA SessionTypes ==
    ASSUME TypeOK, NEW s \in Sessions, Prepare(s) \/ FinishCheck(s) \/ Cleanup(s) \/ Step(s) \/ Stops(s)
    PROVE  CallTypes'
<1>0. CallTypes /\ SharedTypes
  BY TypesSplit
<1>1. ASSUME Prepare(s) \/ FinishCheck(s) \/ Cleanup(s) PROVE CallTypes'
  <2>1. CASE Prepare(s) \/ FinishCheck(s)
    BY <1>0, <2>1 DEF Prepare, FinishCheck, Goto, CallTypes, Preparing, gitVars
  <2>2. CASE Cleanup(s)
    BY <1>0, <2>2 DEF Cleanup, Goto, CallTypes, Cleaning, gitVars
  <2> QED
    BY <1>1, <2>1, <2>2
<1>2. CASE Verify(s)
  BY <1>0, <1>2 DEF Verify, Goto, CallTypes, SharedTypes, Preparing, Cleaning
<1>3. CASE Resolve(s)
  <2>1. CASE Return(s)
    BY <1>0, <2>1, ReturnTypes
  <2> QED
    BY <1>0, <1>3, <2>1 DEF Resolve, CallTypes, SharedTypes, Cleaning
<1>4. ASSUME \/ Add(s) \/ AddHalfway(s) \/ Register(s) \/ NotPrepared(s) \/ Undo(s) \/ Revert(s)
             \/ Retract(s) \/ Mark(s) \/ Inspect(s) \/ Compare(s) \/ Remove(s) \/ Delete(s)
             \/ Unregister(s) \/ Stops(s)
      PROVE Return(s) \/ \E to \in Preparing \cup Cleaning : Continue(s, to)
  BY <1>4 DEF Add, AddHalfway, Register, NotPrepared, Undo, Revert, Retract, Mark, Inspect,
              Compare, Remove, Delete, Unregister, Stops, Preparing, Cleaning
<1> QED
  BY <1>0, <1>1, <1>2, <1>3, <1>4, ReturnTypes, ContinueTypes DEF Step, CleanupStep

\* What they do to what is shared.
LEMMA StepSharedTypes ==
    ASSUME SharedTypes, CallTypes, HeadCommits \in SUBSET Commits, NEW s \in Sessions, Step(s)
    PROVE  SharedTypes'
<1> USE DEF SharedTypes, NoBranch, mainVars
<1>0. name[s] \in Names
  BY DEF CallTypes
<1>1. CASE Add(s) \/ AddHalfway(s)
  BY <1>0, <1>1 DEF Add, AddHalfway, AddWorktree, gitVars
<1>2. CASE Register(s)
  BY <1>0, <1>2 DEF Register
<1>3. CASE Revert(s) \/ Remove(s)
  BY <1>0, <1>3 DEF Revert, Remove, RemoveWorktree, gitVars
<1>4. CASE Retract(s) \/ Delete(s)
  BY <1>0, <1>4 DEF Retract, Delete, DeleteBranch, gitVars
<1>5. CASE Mark(s) \/ Unregister(s)
  BY <1>0, <1>5 DEF Mark, Unregister, gitVars
<1>6. CASE Verify(s) \/ NotPrepared(s) \/ Undo(s) \/ Resolve(s) \/ Inspect(s) \/ Compare(s)
  BY <1>6 DEF Verify, NotPrepared, Undo, Resolve, Inspect, Compare, gitVars
<1> QED
  BY <1>1, <1>2, <1>3, <1>4, <1>5, <1>6 DEF Step, CleanupStep

\* The main session's part: a branch takes commits in.
TakenIn == (\E n \in Names : Merge(n)) \/ Join \/ Commit

LEMMA EveryStep ==
    ASSUME [Next]_vars
    PROVE  \/ \E s \in Sessions : Prepare(s) \/ FinishCheck(s) \/ Cleanup(s) \/ Step(s) \/ Stops(s)
           \/ \E n \in Names : Work(n)
           \/ TakenIn
           \/ Switch \/ UNCHANGED vars
BY DEF Next, TakenIn

\* It leaves the worktrees and the sessions alone, and so does a switch.
LEMMA MainSessionIsAside ==
    ASSUME TakenIn \/ Switch \/ UNCHANGED vars
    PROVE  UNCHANGED <<row, dir, tip, pc, name, seen, existed>>
BY DEF TakenIn, Merge, Join, Commit, TakeIn, Switch, vars, gitVars

LEMMA NextTypes == ASSUME TypeOK, [Next]_vars PROVE TypeOK'
<1>0. CallTypes /\ SharedTypes /\ HeadCommits \in SUBSET Commits
  BY TypesSplit, HeadIsTyped
<1>1. ASSUME NEW s \in Sessions, Step(s) PROVE TypeOK'
  BY <1>0, <1>1, SessionTypes, StepSharedTypes, TypesSplit, PTL
<1>2. ASSUME NEW s \in Sessions, Prepare(s) \/ FinishCheck(s) \/ Cleanup(s) \/ Stops(s)
      PROVE TypeOK'
  <2>1. UNCHANGED <<row, gitVars>>
    BY <1>2 DEF Prepare, FinishCheck, Cleanup, Stops, gitVars
  <2>2. SharedTypes'
    BY <1>0, <2>1 DEF SharedTypes, gitVars, mainVars
  <2> QED
    BY <1>2, <2>2, SessionTypes, TypesSplit, PTL
<1>3. ASSUME NEW n \in Names, Work(n) PROVE TypeOK'
  <2>1. CallTypes'
    BY <1>0, <1>3 DEF Work, CallTypes
  <2>2. SharedTypes'
    BY <1>0, <1>3 DEF Work, New, SharedTypes, NoBranch, mainVars
  <2> QED
    BY <2>1, <2>2, TypesSplit, PTL
<1>4. ASSUME NEW commits \in SUBSET Commits, TakeIn(commits) PROVE TypeOK'
  BY <1>4 DEF TakeIn, TypeOK
<1>5. ASSUME TakenIn PROVE TypeOK'
  BY <1>0, <1>4, <1>5 DEF TakenIn, Merge, Join, Commit, New, SharedTypes
<1>6. CASE Switch \/ UNCHANGED vars
  BY <1>6 DEF Switch, vars, gitVars, mainVars, TypeOK
<1> QED
  BY <1>1, <1>2, <1>3, <1>5, <1>6, EveryStep

\* What worktree.py relies on throughout: rows, working copies, branches and the places of
\* its calls stay in their ranges.
THEOREM WorktreeTypes == Spec => []TypeOK
<1> QED
  BY InitTypes, NextTypes, PTL DEF Spec

\* What no step takes away.
Survives ==
    \A n \in Names :
      /\ dir[n] = "dirty" => dir'[n] # "none"
      /\ tip[n] # NoBranch =>
           tip[n] \subseteq target' \/ tip[n] \subseteq other' \/ tip'[n] # NoBranch

LEMMA NothingTouched == ASSUME UNCHANGED <<dir, tip>> PROVE Survives
BY DEF Survives

\* The commands of git that take something away.
LEMMA RemovalIsSafe ==
    ASSUME TypeOK, NEW n \in Names, CanRemove(n), RemoveWorktree(n) PROVE Survives
BY DEF Survives, CanRemove, RemoveWorktree, TypeOK

LEMMA DeletionIsSafe ==
    ASSUME TypeOK, NEW n \in Names, CanDelete(n), DeleteBranch(n) PROVE Survives
<1>1. tip[n] \subseteq target' \/ tip[n] \subseteq other'
  BY HeadIsTyped DEF CanDelete, DeleteBranch, mainVars
<1> QED
  BY <1>1 DEF Survives, DeleteBranch, TypeOK

LEMMA NextSurvives == ASSUME TypeOK, [Next]_vars PROVE Survives
<1> USE DEF TypeOK
<1>1. ASSUME NEW s \in Sessions, Add(s) PROVE Survives
  <2>1. CASE CanAdd(name[s]) /\ AddWorktree(name[s])
    BY <2>1 DEF CanAdd, AddWorktree, Survives
  <2> QED
    BY <1>1, <2>1, NothingTouched DEF Add, gitVars
<1>2. ASSUME NEW s \in Sessions, AddHalfway(s) PROVE Survives
  BY <1>2 DEF AddHalfway, CanAdd, Survives
<1>3. ASSUME NEW s \in Sessions, Revert(s) \/ Remove(s) PROVE Survives
  <2>1. CASE CanRemove(name[s]) /\ RemoveWorktree(name[s])
    BY <2>1, RemovalIsSafe
  <2> QED
    BY <1>3, <2>1, NothingTouched DEF Revert, Remove, gitVars
<1>4. ASSUME NEW s \in Sessions, Retract(s) \/ Delete(s) PROVE Survives
  <2>1. CASE CanDelete(name[s]) /\ DeleteBranch(name[s])
    BY <2>1, DeletionIsSafe
  <2> QED
    BY <1>4, <2>1, NothingTouched DEF Retract, Delete, gitVars
<1>5. ASSUME NEW n \in Names, Work(n) PROVE Survives
  BY <1>5, ConstantsAssumption DEF Work, New, Survives, NoBranch
<1>6. CASE UNCHANGED <<dir, tip>>
  BY <1>6, NothingTouched
<1>7. ASSUME NEW s \in Sessions,
             \/ Prepare(s) \/ FinishCheck(s) \/ Cleanup(s) \/ Stops(s)
             \/ Verify(s) \/ Register(s) \/ NotPrepared(s) \/ Undo(s)
             \/ Mark(s) \/ Resolve(s) \/ Inspect(s) \/ Compare(s) \/ Unregister(s)
      PROVE UNCHANGED <<dir, tip>>
  BY <1>7 DEF Prepare, FinishCheck, Cleanup, Stops, Verify, Register, NotPrepared, Undo,
              Mark, Resolve, Inspect, Compare, Unregister, gitVars
<1>8. CASE TakenIn \/ Switch \/ UNCHANGED vars
  BY <1>6, <1>8, MainSessionIsAside
<1> QED
  BY <1>1, <1>2, <1>3, <1>4, <1>5, <1>6, <1>7, <1>8, EveryStep DEF Step, CleanupStep

\* "Subagent work must not be lost", for any number of sessions and worktrees: whoever
\* prepares, finishes or cleans up, in any order and with any failure, and whatever branch
\* the main checkout is on, what is not committed stays and what is stays on a branch.
THEOREM WorkIsKept == Spec => WorkSurvives
<1>1. TypeOK /\ [Next]_vars => [Survives]_gitVars
  BY NextSurvives
<1>2. [Survives]_gitVars =>
      [\A n \in Names :
         /\ dir[n] = "dirty" => dir'[n] # "none"
         /\ tip[n] # NoBranch =>
              tip[n] \subseteq target' \/ tip[n] \subseteq other' \/ tip'[n] # NoBranch]_gitVars
  BY DEF Survives
<1> QED
  BY <1>1, <1>2, WorktreeTypes, PTL DEF Spec, WorkSurvives

(***************************************************************************)
(* Why a cleanup may refuse.                                                *)
(***************************************************************************)

\* Whether this cleanup has met a working copy and not removed it yet; and whether somebody
\* else has removed or made one meanwhile, or has taken away the branch whose tip it read.
Left(s) == existed[s] /\ pc[s] \notin {"deleting", "unregistering"}
Replaced(s) ==
    /\ pc[s] \in {"inspecting", "comparing"} /\ seen[s] # NoBranch
    /\ tip[name[s]] = NoBranch \/ ~(seen[s] \subseteq tip[name[s]])
Displaced(s) == ((dir[name[s]] # "none") # Left(s)) \/ Replaced(s)

\* A cleanup raises instead of going on to take the registration away.
Refuses(s) == CleanupStep(s) /\ pc[s] # "unregistering" /\ pc'[s] = "idle"

\* A working copy has its branch; a copy is inspected and removed only if there was one.
Branched == \A n \in Names : dir[n] # "none" => tip[n] # NoBranch
Inspected(s) == pc[s] \in {"inspecting", "removing"} => existed[s]
RefusalInv == TypeOK /\ Branched /\ \A s \in Sessions : Inspected(s)

LEMMA InitRefusal == Init => RefusalInv
BY InitTypes DEF RefusalInv, Init, Branched, Inspected

\* A branch goes only with the working copy gone, and a copy comes only with its branch.
LEMMA NextBranched == ASSUME TypeOK, Branched, [Next]_vars PROVE Branched'
<1> USE DEF TypeOK, Branched
<1>0. HeadCommits # NoBranch
  BY HeadIsTyped, ConstantsAssumption DEF NoBranch
<1>1. ASSUME NEW s \in Sessions, Add(s) \/ AddHalfway(s) PROVE Branched'
  BY <1>0, <1>1 DEF Add, AddHalfway, CanAdd, AddWorktree, gitVars
<1>2. ASSUME NEW s \in Sessions, Revert(s) \/ Remove(s) PROVE Branched'
  BY <1>2 DEF Revert, Remove, RemoveWorktree, gitVars
<1>3. ASSUME NEW s \in Sessions, Retract(s) \/ Delete(s) PROVE Branched'
  BY <1>3 DEF Retract, Delete, CanDelete, DeleteBranch, gitVars
<1>4. ASSUME NEW n \in Names, Work(n) PROVE Branched'
  BY <1>4, ConstantsAssumption DEF Work, New, NoBranch
<1>5. CASE UNCHANGED <<dir, tip>>
  BY <1>5
<1>6. ASSUME NEW s \in Sessions,
             \/ Prepare(s) \/ FinishCheck(s) \/ Cleanup(s) \/ Stops(s)
             \/ Verify(s) \/ Register(s) \/ NotPrepared(s) \/ Undo(s)
             \/ Mark(s) \/ Resolve(s) \/ Inspect(s) \/ Compare(s) \/ Unregister(s)
      PROVE UNCHANGED <<dir, tip>>
  BY <1>6 DEF Prepare, FinishCheck, Cleanup, Stops, Verify, Register, NotPrepared, Undo,
              Mark, Resolve, Inspect, Compare, Unregister, gitVars
<1>7. CASE TakenIn \/ Switch \/ UNCHANGED vars
  BY <1>5, <1>7, MainSessionIsAside
<1> QED
  BY <1>1, <1>2, <1>3, <1>4, <1>5, <1>6, <1>7, EveryStep DEF Step, CleanupStep

\* What a session remembers changes by its own steps only.
Remembers(s) == UNCHANGED <<pc[s], name[s], seen[s], existed[s]>>
LEMMA OthersRemember ==
    ASSUME TypeOK, NEW q \in Sessions,
           Prepare(q) \/ FinishCheck(q) \/ Cleanup(q) \/ Step(q) \/ Stops(q),
           NEW s \in Sessions, s # q
    PROVE  Remembers(s)
<1> USE DEF TypeOK, Remembers
<1>1. CASE Prepare(q) \/ FinishCheck(q) \/ Cleanup(q) \/ Verify(q) \/ Resolve(q)
  BY <1>1 DEF Prepare, FinishCheck, Cleanup, Verify, Resolve, Goto, Return
<1>2. CASE \/ Add(q) \/ AddHalfway(q) \/ Register(q) \/ NotPrepared(q) \/ Undo(q) \/ Revert(q)
           \/ Retract(q) \/ Mark(q) \/ Inspect(q) \/ Compare(q) \/ Remove(q) \/ Delete(q)
           \/ Unregister(q) \/ Stops(q)
  <2>1. Return(q) \/ \E to \in Preparing \cup Cleaning : Continue(q, to)
    BY <1>2 DEF Add, AddHalfway, Register, NotPrepared, Undo, Revert, Retract, Mark, Inspect,
                Compare, Remove, Delete, Unregister, Stops, Preparing, Cleaning
  <2> QED
    BY <2>1 DEF Return, Continue
<1> QED
  BY <1>1, <1>2 DEF Step, CleanupStep

LEMMA EnvironmentRemembers ==
    ASSUME NEW s \in Sessions, (\E n \in Names : Work(n)) \/ TakenIn \/ Switch \/ UNCHANGED vars
    PROVE  Remembers(s)
BY MainSessionIsAside DEF Work, Remembers

\* Its own steps: only a working copy that was there is inspected and removed.
LEMMA OwnIsGood ==
    ASSUME RefusalInv, NEW s \in Sessions,
           Prepare(s) \/ FinishCheck(s) \/ Cleanup(s) \/ Step(s) \/ Stops(s)
    PROVE  Inspected(s)'
<1> USE DEF TypeOK, Inspected
<1>0. Inspected(s) /\ TypeOK
  BY DEF RefusalInv
<1>1. CASE Prepare(s) \/ FinishCheck(s) \/ Cleanup(s)
  BY <1>0, <1>1 DEF Prepare, FinishCheck, Cleanup, Goto
<1>2. CASE \/ Add(s) \/ AddHalfway(s) \/ Verify(s) \/ Register(s) \/ NotPrepared(s) \/ Undo(s)
           \/ Revert(s) \/ Retract(s) \/ Mark(s) \/ Delete(s) \/ Remove(s) \/ Unregister(s)
           \/ Stops(s)
  <2>1. pc'[s] \notin {"inspecting", "removing", "comparing"}
    BY <1>0, <1>2 DEF Add, AddHalfway, Verify, Register, NotPrepared, Undo, Revert, Retract, Mark,
       Delete, Remove, Unregister, Stops, Goto, Return, Continue
  <2> QED
    BY <2>1
<1>3. CASE Resolve(s)
  BY <1>0, <1>3 DEF Resolve, Return, gitVars
<1>4. CASE Inspect(s)
  BY <1>0, <1>4 DEF Inspect, Return, Continue, gitVars
<1>5. CASE Compare(s)
  BY <1>0, <1>5 DEF Compare, Return, Continue, gitVars
<1> QED
  BY <1>1, <1>2, <1>3, <1>4, <1>5 DEF Step, CleanupStep

LEMMA NextRefusal == RefusalInv /\ [Next]_vars => RefusalInv'
<1> SUFFICES ASSUME RefusalInv, [Next]_vars PROVE RefusalInv'
  OBVIOUS
<1>1. TypeOK' /\ Branched'
  BY NextTypes, NextBranched DEF RefusalInv
<1>2. ASSUME NEW s \in Sessions PROVE Inspected(s)'
  <2>1. ASSUME NEW q \in Sessions,
               Prepare(q) \/ FinishCheck(q) \/ Cleanup(q) \/ Step(q) \/ Stops(q)
        PROVE  Inspected(s)'
    BY <2>1, OwnIsGood, OthersRemember DEF RefusalInv, Inspected, Remembers
  <2>2. CASE (\E n \in Names : Work(n)) \/ TakenIn \/ Switch \/ UNCHANGED vars
    BY <2>2, EnvironmentRemembers DEF RefusalInv, Inspected, Remembers
  <2> QED
    BY <2>1, <2>2, EveryStep
<1> QED
  BY <1>1, <1>2 DEF RefusalInv

\* A cleanup that refuses met a dirty copy or a commit that the target or HEAD lacks, or
\* somebody else has removed or made the working copy or the branch under it.
LEMMA RefusalsSpeak ==
    ASSUME RefusalInv, NEW s \in Sessions, Refuses(s)
    PROVE  ~Mergeable(name[s]) \/ Displaced(s)
<1> USE DEF Displaced, Left, Mergeable
<1>0. TypeOK /\ Branched /\ Inspected(s) /\ name[s] \in Names
  BY DEF RefusalInv, TypeOK
<1>1. CASE Resolve(s)
  BY <1>0, <1>1 DEF Refuses, Resolve, TypeOK, Branched
<1>2. CASE Inspect(s)
  BY <1>0, <1>2 DEF Refuses, Inspect, Continue, Inspected, TypeOK
<1>3. CASE Compare(s)
  <2>1. pc[s] = "comparing" /\ ~Merged(s)
    BY <1>0, <1>3 DEF Refuses, Compare, Continue, TypeOK
  <2>2. seen[s] # NoBranch /\ ~(seen[s] \subseteq target)
    BY <2>1 DEF Merged
  <2> QED
    BY <2>1, <2>2 DEF Replaced
<1>4. CASE Remove(s)
  BY <1>0, <1>4 DEF Refuses, Remove, CanRemove, Continue, Inspected, TypeOK
<1>5. CASE Delete(s)
  BY <1>0, <1>5 DEF Refuses, Delete, CanDelete, Continue, TypeOK
<1> QED
  BY <1>1, <1>2, <1>3, <1>4, <1>5 DEF Refuses, CleanupStep, Unregister

\* Cleanup refuses only what the target or HEAD lacks, or what another session has changed
\* under it.
RefusalsAreDue == [][\A s \in Sessions : Refuses(s) => ~Mergeable(name[s]) \/ Displaced(s)]_vars

\* For any number of sessions and worktrees, and whatever branch the main checkout is on: a
\* cleanup of a registered worktree refuses for a dirty copy, for commits that the target
\* (merge-base) or HEAD (branch -d) lacks at that moment, or for another session's steps.
\* A tip that was read before the work was merged is no reason, nor is what an earlier
\* prepare or cleanup has left half done.
THEOREM RefusalsHaveReasons == Spec => RefusalsAreDue
<1>1. RefusalInv /\ [Next]_vars =>
        [\A s \in Sessions : Refuses(s) => ~Mergeable(name[s]) \/ Displaced(s)]_vars
  BY RefusalsSpeak
<1> QED
  BY <1>1, InitRefusal, NextRefusal, PTL DEF Spec, RefusalsAreDue

\* Alone, a cleanup finds the working copy as it has left it, whatever the subagent does.
LEMMA AloneUndisturbed ==
    ASSUME NEW s, Sessions = {s}, TypeOK, [Next]_vars, pc[s] \in Cleaning => ~Displaced(s)
    PROVE  pc'[s] \in Cleaning => ~Displaced(s)'
<1> USE DEF TypeOK, Displaced, Left, Replaced, Cleaning
<1>1. CASE Prepare(s) \/ FinishCheck(s) \/ Cleanup(s)
  BY <1>1 DEF Prepare, FinishCheck, Cleanup, Goto, gitVars
<1>2. CASE \/ Add(s) \/ AddHalfway(s) \/ Verify(s) \/ Register(s) \/ NotPrepared(s) \/ Undo(s)
           \/ Revert(s) \/ Retract(s) \/ Mark(s) \/ Unregister(s) \/ Stops(s)
  <2>1. pc'[s] \notin Cleaning
    BY <1>2 DEF Add, AddHalfway, Verify, Register, NotPrepared, Undo, Revert, Retract, Mark,
       Unregister, Stops, Goto, Return, Continue
  <2> QED
    BY <2>1
<1>3. CASE Resolve(s)
  BY <1>3 DEF Resolve, Return, gitVars
<1>4. CASE Inspect(s) \/ Compare(s)
  BY <1>4 DEF Inspect, Compare, Return, Continue, gitVars
<1>5. CASE Remove(s)
  BY <1>5 DEF Remove, RemoveWorktree, Return, Continue
<1>6. CASE Delete(s)
  BY <1>6 DEF Delete, DeleteBranch, Return, Continue, gitVars
<1>7. ASSUME NEW n \in Names, Work(n) PROVE pc'[s] \in Cleaning => ~Displaced(s)'
  BY <1>7, ConstantsAssumption DEF Work, New, NoBranch
<1>8. CASE TakenIn \/ Switch \/ UNCHANGED vars
  BY <1>8, MainSessionIsAside
<1> QED
  BY <1>1, <1>2, <1>3, <1>4, <1>5, <1>6, <1>7, <1>8, EveryStep DEF Step, CleanupStep

\* Cleanup refuses only what is dirty or what the target or HEAD lacks.
OnlyForWork(s) == [][Refuses(s) => ~Mergeable(name[s])]_vars

\* With one session at work, wherever an earlier prepare or cleanup has stopped, cleanup of
\* a registered worktree refuses nothing but a dirty copy, or a branch with commits that the
\* target or HEAD lacks at that moment.  A branch whose base only another HEAD contains is
\* such a branch: it is refused until the target contains that too.
THEOREM LoneCleanupRefusesWork ==
    ASSUME NEW s, Sessions = {s} PROVE Spec => OnlyForWork(s)
<1> DEFINE LoneInv == RefusalInv /\ (pc[s] \in Cleaning => ~Displaced(s))
<1>1. Init => LoneInv
  BY InitRefusal DEF Init, Cleaning
<1>2. LoneInv /\ [Next]_vars => LoneInv'
  BY NextRefusal, AloneUndisturbed DEF RefusalInv
<1>3. LoneInv /\ [Next]_vars => [Refuses(s) => ~Mergeable(name[s])]_vars
  <2> SUFFICES ASSUME LoneInv, Refuses(s) PROVE ~Mergeable(name[s])
    OBVIOUS
  <2>1. pc[s] \in Cleaning
    BY DEF Refuses, CleanupStep, Resolve, Inspect, Compare, Remove, Delete, Unregister, Goto,
       Cleaning
  <2> QED
    BY <2>1, RefusalsSpeak
<1> QED
  BY <1>1, <1>2, <1>3, PTL DEF Spec, OnlyForWork

-----------------------------------------------------------------------------
(***************************************************************************)
(* The hook call.                                                           *)
(***************************************************************************)

\* The evaluation only reads: beside it the worktrees keep all their theorems.
THEOREM HookOnlyReads == GateSpec => Spec
<1>1. HookInit => Init
  BY DEF HookInit
<1>2. [GateNext]_gateVars => [Next]_vars
  BY DEF GateNext, HookStep, Facts, WorktreeStep, Ask, Answer, SelectRuntime, StandIn, Deliver,
         Locate, ReadRows, ListCheckouts, JudgeCommand, CheckTarget, AskBoundary,
         EvaluationFails, gateVars
<1> QED
  BY <1>1, <1>2, PTL DEF GateSpec, Spec

\* Where the call stands in its operation.
Standing ==
    /\ stage = "idle" <=> call = NoCall
    /\ call = NoCall => against = {} /\ boundaries = {} /\ item = 0
    /\ call # NoCall =>
         /\ call \in Operations
         /\ item \in 0..Len(call.targets)
         /\ stage \in {"selecting", "judging"} => item = 0
         /\ stage \in {"checking", "asking"} => item # 0
         /\ stage = "permitting" => item = Len(call.targets)
    /\ stage \in {"idle", "selecting", "permitting", "refusing"} \cup Evaluating

\* What has been observed, and what a refusal rests on.
Observed ==
    /\ call # NoCall => against \subseteq Reasons(call) /\ Reasons(call) \subseteq ever
    /\ stage = "refusing" => ever # {}

\* The place of the call and that of each target.
PlaceOf(i) == IF i = 0 THEN call.cwd ELSE call.targets[i].in

Refuted(why, p) == <<why, p>> \notin against

\* The rules permit a target, and what its boundary is for has been asked.
Fine(i) ==
    LET t == call.targets[i] IN
    t.in = Outside \/
      /\ call.cwd \in Names => t.in = call.cwd
      /\ ~(t.kind = "memory" /\ t.in \in Names) /\ t.kind # "protected"
      /\ t.kind = "formal" => t.in \in boundaries

\* The places that are located, and the targets that are checked, at each stage.
LocatedNow(i) == i < item \/ (i = item /\ stage \in {"judging", "checking", "asking", "permitting"})
CheckedNow(i) == i < item \/ (i = item /\ stage = "permitting")

Established ==
    call # NoCall /\ stage \notin {"selecting", "refusing"} =>
      /\ \A i \in 0..Len(call.targets) :
           LocatedNow(i) => Refuted("unregistered", PlaceOf(i)) /\ Refuted("absent", PlaceOf(i))
      /\ \A i \in 1..Len(call.targets) : CheckedNow(i) => Fine(i)
      /\ item # 0 \/ stage = "permitting" => ~(call.discards # "nothing" /\ ~MayDiscard(call))
      /\ stage \in {"reading", "listing"} => PlaceOf(item) \in Names
      /\ stage = "listing" => Refuted("unregistered", PlaceOf(item))
      /\ stage = "asking" => Target.kind = "formal" /\ Target.in # Outside /\ ~Denies

Opened == \A p \in boundaries : Refuted("blocked", p)

GateInv == Standing /\ Observed /\ Opened /\ Established

LEMMA InitGate == HookInit => GateInv
BY DEF HookInit, GateInv, Standing, Observed, Opened, Established, Evaluating

\* What an operation consists of.
LEMMA OperationTypes ==
    ASSUME NEW o \in Operations
    PROVE  /\ o.cwd \in Places /\ o.discards \in {"nothing", "work", "volumes"} /\ o.at \in Places
           /\ o.targets \in Seq([in : Places, kind : Kinds])
           /\ Len(o.targets) \in Nat /\ DOMAIN o.targets = 1..Len(o.targets)
           /\ \A i \in 1..Len(o.targets) :
                o.targets[i] \in [in : Places, kind : Kinds]
<1>1. o \in [cwd : Places, discards : {"nothing", "work", "volumes"}, at : Places,
             targets : Seq([in : Places, kind : Kinds])]
  BY HookAssumption
<1> DEFINE S == [in : Places, kind : Kinds]
<1>2. o.targets \in Seq(S)
  BY <1>1
<1> HIDE DEF S
<1>3. /\ Len(o.targets) \in Nat /\ DOMAIN o.targets = 1..Len(o.targets)
      /\ \A i \in 1..Len(o.targets) : o.targets[i] \in S
  BY <1>2
<1> QED
  BY <1>1, <1>2, <1>3 DEF S

\* A reason there is now has stood at some time.
LEMMA ReasonIsKept ==
    ASSUME GateInv, call # NoCall, NEW why \in Whys, NEW p \in Places, Speaks(call, why, p)
    PROVE  ever # {}
<1>1. ASSUME NEW kind, Targets(call, p, kind) PROVE p \in PlacesOf(call)
  <2>1. PICK i \in DOMAIN call.targets : call.targets[i] = [in |-> p, kind |-> kind]
    BY <1>1 DEF Targets
  <2>2. call.targets[i].in = p
    BY <2>1
  <2> QED
    BY <2>2 DEF PlacesOf
<1>2. p \in PlacesOf(call) \cup {call.at}
  BY <1>1 DEF Speaks
<1>3. <<why, p>> \in Reasons(call)
  BY <1>2 DEF Reasons
<1> QED
  BY <1>3 DEF GateInv, Observed

\* A reason there is not now does not stand.
LEMMA NoReasonStands ==
    ASSUME GateInv, call # NoCall, NEW why, NEW p, ~Speaks(call, why, p)
    PROVE  Refuted(why, p)
BY DEF GateInv, Observed, Reasons, Refuted

\* Within a call what has been refuted stays refuted.
LEMMA OnlyFewer ==
    ASSUME GateInv, Observe, call # NoCall, call' = call
    PROVE  /\ against' \subseteq against
           /\ against' \subseteq Reasons(call)' /\ Reasons(call)' \subseteq ever'
           /\ ever \subseteq ever'
BY DEF Observe, GateInv, Standing

\* A place that is none of a worktree is always registered and there.
LEMMA MainIsLocated ==
    ASSUME GateInv, call # NoCall, NEW p, p \notin Names
    PROVE  Refuted("unregistered", p) /\ Refuted("absent", p)
BY NoReasonStands DEF Speaks

\* Steps that leave the call where it is.
LEMMA OthersKeep == ASSUME GateInv, Observe, UNCHANGED hookVars PROVE GateInv'
<1> USE DEF hookVars
<1>1. CASE call = NoCall
  BY <1>1 DEF GateInv, Standing, Observed, Opened, Established, Observe
<1>2. CASE call # NoCall
  <2>0. against' \subseteq against /\ against' \subseteq Reasons(call)'
        /\ Reasons(call)' \subseteq ever' /\ ever \subseteq ever'
    BY <1>2, OnlyFewer
  <2>1. Standing'
    BY <1>2 DEF GateInv, Standing
  <2>2. Observed'
    BY <1>2, <2>0 DEF GateInv, Observed
  <2>3. Opened'
    BY <2>0 DEF GateInv, Opened, Refuted
  <2>4. Established'
    BY <2>0 DEF GateInv, Established, LocatedNow, CheckedNow, Fine, PlaceOf, Refuted, MayDiscard,
                Target, Denies
  <2> QED
    BY <2>1, <2>2, <2>3, <2>4 DEF GateInv
<1> QED
  BY <1>1, <1>2

\* A call begins, and is answered.
LEMMA AskKeeps == ASSUME GateInv, Observe, Ask PROVE GateInv'
<1>1. call = NoCall /\ call' \in Operations /\ call' # NoCall /\ boundaries' = {} /\ item' = 0
  BY HookAssumption DEF Ask, GateInv, Standing
<1>2. against' = Reasons(call)' /\ Reasons(call)' \subseteq ever'
  BY <1>1 DEF Observe
<1>3. Len(call'.targets) \in Nat
  BY <1>1, OperationTypes
<1> QED
  BY <1>1, <1>2, <1>3 DEF Ask, To, GateInv, Standing, Observed, Opened, Established

LEMMA AnswerKeeps == ASSUME GateInv, Observe, NEW v, Answer(v) PROVE GateInv'
BY DEF Answer, To, Observe, GateInv, Standing, Observed, Opened, Established

\* A step inside the evaluation.
Within ==
    /\ call # NoCall /\ call' = call
    /\ stage \in Evaluating \cup {"selecting"}
    /\ UNCHANGED <<vars, blocked>>

LEMMA WithinFacts ==
    ASSUME GateInv, Observe, Within
    PROVE  /\ call \in Operations /\ item \in 0..Len(call.targets) /\ Len(call.targets) \in Nat
           /\ against' \subseteq against
           /\ Observed' <=> (stage' = "refusing" => ever' # {})
           /\ ever \subseteq ever'
           /\ call.cwd \in Places /\ call.at \in Places
           /\ item # 0 => Target \in [in : Places, kind : Kinds]
           /\ PlaceOf(item) = Place
<1>1. call \in Operations /\ item \in 0..Len(call.targets)
  BY DEF Within, GateInv, Standing
<1>2. /\ against' \subseteq against
      /\ against' \subseteq Reasons(call)' /\ Reasons(call)' \subseteq ever'
      /\ ever \subseteq ever'
  BY OnlyFewer DEF Within
<1> QED
  BY <1>1, <1>2, OperationTypes DEF Within, Observed, Place, PlaceOf, Target

\* On to the refusal, for a reason.
LEMMA RefusalKeeps ==
    ASSUME GateInv, Observe, Within, stage' = "refusing", UNCHANGED <<item, boundaries>>,
           NEW why \in Whys, NEW p \in Places, Speaks(call, why, p)
    PROVE  GateInv'
<1>1. ever # {}
  BY ReasonIsKept DEF Within
<1>2. Observed'
  BY <1>1, WithinFacts
<1>3. Standing'
  BY DEF GateInv, Standing, Within, Evaluating
<1>4. Opened'
  BY WithinFacts DEF GateInv, Opened, Refuted
<1>5. Established'
  BY DEF Established
<1> QED
  BY <1>2, <1>3, <1>4, <1>5 DEF GateInv

\* On within the same target.
LEMMA StayKeeps ==
    ASSUME GateInv, Observe, Within, UNCHANGED <<item, boundaries>>, Established',
           stage' \in Evaluating,
           stage' = "judging" => item = 0, stage' \in {"checking", "asking"} => item # 0
    PROVE  GateInv'
<1>1. Observed'
  BY WithinFacts DEF Evaluating
<1>2. Standing'
  BY DEF GateInv, Standing, Within, Evaluating
<1>3. Opened'
  BY WithinFacts DEF GateInv, Opened, Refuted
<1> QED
  BY <1>1, <1>2, <1>3 DEF GateInv

\* What has been established about the earlier targets stays.
LEMMA EarlierKeep ==
    ASSUME GateInv, Observe, Within, boundaries \subseteq boundaries', stage # "selecting"
    PROVE  /\ \A i \in 0..Len(call.targets) : i < item =>
                Refuted("unregistered", PlaceOf(i))' /\ Refuted("absent", PlaceOf(i))'
           /\ \A i \in 1..Len(call.targets) : i < item => Fine(i)'
           /\ item # 0 => ~(call'.discards # "nothing" /\ ~MayDiscard(call'))
<1>1. /\ \A i \in 0..Len(call.targets) : i < item =>
           Refuted("unregistered", PlaceOf(i)) /\ Refuted("absent", PlaceOf(i))
      /\ \A i \in 1..Len(call.targets) : i < item => Fine(i)
      /\ item # 0 => ~(call.discards # "nothing" /\ ~MayDiscard(call))
  BY DEF GateInv, Established, Within, Evaluating, LocatedNow, CheckedNow
<1>2. against' \subseteq against /\ call' = call
  BY WithinFacts DEF Within
<1>3. \A i \in 0..Len(call.targets) : i < item =>
        Refuted("unregistered", PlaceOf(i))' /\ Refuted("absent", PlaceOf(i))'
  BY <1>1, <1>2 DEF Refuted, PlaceOf
<1>4. \A i \in 1..Len(call.targets) : i < item => Fine(i)'
  BY <1>1, <1>2 DEF Fine
<1>5. item # 0 => ~(call'.discards # "nothing" /\ ~MayDiscard(call'))
  BY <1>1, <1>2
<1> QED
  BY <1>3, <1>4, <1>5

\* From one target to the next.
LEMMA NextTargetKeeps ==
    ASSUME GateInv, Observe, Within, NextTarget, boundaries \subseteq boundaries', Opened',
           stage # "selecting",
           Refuted("unregistered", Place), Refuted("absent", Place),
           \A i \in 1..Len(call.targets) : i = item => Fine(i)',
           ~(call.discards # "nothing" /\ ~MayDiscard(call))
    PROVE  GateInv'
<1>0. /\ call \in Operations /\ item \in 0..Len(call.targets) /\ Len(call.targets) \in Nat
      /\ against' \subseteq against /\ call' = call /\ PlaceOf(item) = Place
      /\ stage' # "refusing" => Observed'
  BY WithinFacts DEF Within
<1>1. \/ item < Len(call.targets) /\ item' = item + 1 /\ stage' = "locating"
      \/ item = Len(call.targets) /\ item' = item /\ stage' = "permitting"
  BY <1>0 DEF NextTarget, To
<1>2. Observed'
  BY <1>0, <1>1
<1>3. Standing'
  BY <1>0, <1>1 DEF GateInv, Standing, Evaluating, Within
<1>4. \A i \in 0..Len(call.targets) : i <= item =>
        Refuted("unregistered", PlaceOf(i))' /\ Refuted("absent", PlaceOf(i))'
  <2>1. \A i \in 0..Len(call.targets) : i = item =>
          Refuted("unregistered", PlaceOf(i))' /\ Refuted("absent", PlaceOf(i))'
    BY <1>0 DEF Refuted, PlaceOf, Place
  <2>2. \A i \in 0..Len(call.targets) : i < item =>
          Refuted("unregistered", PlaceOf(i))' /\ Refuted("absent", PlaceOf(i))'
    BY EarlierKeep
  <2>3. \A i \in 0..Len(call.targets) : i <= item => i < item \/ i = item
    BY <1>0
  <2> QED
    BY <2>1, <2>2, <2>3 DEF Refuted, PlaceOf
<1>5. \A i \in 1..Len(call.targets) : i <= item => Fine(i)'
  <2>1. \A i \in 1..Len(call.targets) : i < item => Fine(i)'
    BY EarlierKeep
  <2>2. \A i \in 1..Len(call.targets) : i <= item => i < item \/ i = item
    BY <1>0
  <2> QED
    BY <2>1, <2>2 DEF Fine
<1>6. Established'
  <2>1. \A i \in 0..Len(call'.targets) : LocatedNow(i)' => i <= item
    BY <1>0, <1>1 DEF LocatedNow
  <2>2. \A i \in 1..Len(call'.targets) : CheckedNow(i)' => i <= item
    BY <1>0, <1>1 DEF CheckedNow
  <2>3. ~(call'.discards # "nothing" /\ ~MayDiscard(call'))
    BY <1>0
  <2>4. stage' \notin {"reading", "listing", "asking"}
    BY <1>1
  <2> QED
    BY <1>0, <1>4, <1>5, <2>1, <2>2, <2>3, <2>4 DEF Established
<1> QED
  BY <1>2, <1>3, <1>6 DEF GateInv

\* The resolution of a place.
LEMMA SelectKeeps == ASSUME GateInv, Observe, SelectRuntime PROVE GateInv'
<1>1. Within /\ item = 0 /\ UNCHANGED <<item, boundaries>> /\ stage' = "locating"
  BY DEF SelectRuntime, To, Within, GateInv, Standing, Evaluating
<1>2. Established'
  BY <1>1 DEF Established, LocatedNow, CheckedNow
<1> QED
  BY <1>1, <1>2, StayKeeps DEF Evaluating

\* A place that is located has been found registered and there.
LEMMA ResolvedKeeps ==
    ASSUME GateInv, Observe, Within, Resolved, UNCHANGED <<item, boundaries>>,
           stage # "selecting", stage \notin {"checking", "asking"},
           Refuted("unregistered", Place), Refuted("absent", Place)
    PROVE  GateInv'
<1>0. /\ call \in Operations /\ item \in 0..Len(call.targets) /\ Len(call.targets) \in Nat
      /\ against' \subseteq against /\ call' = call /\ PlaceOf(item) = Place
  BY WithinFacts DEF Within
<1>1. stage' = IF item = 0 THEN "judging" ELSE "checking"
  BY DEF Resolved, To
<1>2. \A i \in 0..Len(call'.targets) :
        i <= item => Refuted("unregistered", PlaceOf(i))' /\ Refuted("absent", PlaceOf(i))'
  <2>1. \A i \in 0..Len(call.targets) : i = item =>
          Refuted("unregistered", PlaceOf(i))' /\ Refuted("absent", PlaceOf(i))'
    BY <1>0 DEF Refuted, PlaceOf, Place
  <2> QED
    BY <1>0, <2>1, EarlierKeep DEF Refuted, PlaceOf
<1>3. Established'
  BY <1>0, <1>1, <1>2, EarlierKeep DEF Established, LocatedNow, CheckedNow, Fine
<1> QED
  BY <1>1, <1>3, StayKeeps DEF Evaluating

\* From one question about a place to the next.
LEMMA QuestionKeeps ==
    ASSUME GateInv, Observe, Within, UNCHANGED <<item, boundaries>>, stage # "selecting",
           stage' \in {"reading", "listing"}, Place \in Names,
           stage' = "listing" => Refuted("unregistered", Place)
    PROVE  GateInv'
<1>0. /\ call \in Operations /\ item \in 0..Len(call.targets) /\ Len(call.targets) \in Nat
      /\ against' \subseteq against /\ call' = call /\ PlaceOf(item) = Place
  BY WithinFacts DEF Within
<1>1. PlaceOf(item)' \in Names /\ (stage' = "listing" => Refuted("unregistered", PlaceOf(item))')
  BY <1>0 DEF Refuted, PlaceOf, Place
<1>2. Established'
  BY <1>0, <1>1, EarlierKeep DEF Established, LocatedNow, CheckedNow, Refuted, Fine
<1> QED
  BY <1>2, StayKeeps DEF Evaluating

LEMMA LocateKeeps == ASSUME GateInv, Observe, Locate \/ ReadRows \/ ListCheckouts PROVE GateInv'
<1>1. Within /\ UNCHANGED <<item, boundaries>> /\ stage \in {"locating", "reading", "listing"}
  BY DEF Locate, ReadRows, ListCheckouts, To, Resolved, Within, GateInv, Standing, Evaluating
<1>2. call \in Operations /\ PlaceOf(item) = Place /\ Place \in Places
  <2>1. call \in Operations /\ PlaceOf(item) = Place /\ call.cwd \in Places
        /\ (item # 0 => Target \in [in : Places, kind : Kinds])
    BY <1>1, WithinFacts
  <2> QED
    BY <2>1 DEF Place, Target
<1>3. Place \in PlacesOf(call)
  BY <1>1, <1>2, WithinFacts, OperationTypes DEF PlacesOf, Place
<1>4. CASE stage' = "refusing"
  <2>1. Place \in Names
        /\ (dir[Place] = "none" \/ tip[Place] = NoBranch \/ row[Place] \notin {"active", "ready"})
    BY <1>1, <1>2, <1>4 DEF Locate, ReadRows, ListCheckouts, To, Resolved, GateInv, Established, Within
  <2>2. Speaks(call, "unregistered", Place) \/ Speaks(call, "absent", Place)
    BY <2>1, <1>3 DEF Speaks
  <2> QED
    BY <1>1, <1>2, <1>4, <2>2, RefusalKeeps DEF Whys
<1>5. CASE stage' \in {"reading", "listing"}
  <2>1. Place \in Names
    BY <1>1, <1>2, <1>5 DEF Locate, ReadRows, ListCheckouts, To, Resolved, GateInv, Established, Within
  <2>2. stage' = "listing" => row[Place] \in {"active", "ready"}
    BY <1>1, <1>5 DEF Locate, ReadRows, ListCheckouts, To, Resolved
  <2>3. stage' = "listing" => Refuted("unregistered", Place)
    BY <1>1, <2>2, NoReasonStands DEF Speaks, Within
  <2> QED
    BY <1>1, <1>5, <2>1, <2>3, QuestionKeeps
<1>6. CASE Resolved /\ stage = "locating" /\ Place \notin Names
  BY <1>1, <1>6, MainIsLocated, ResolvedKeeps DEF Within
<1>7. CASE Resolved /\ stage = "listing" /\ dir[Place] # "none" /\ tip[Place] # NoBranch
  <2>1. Refuted("absent", Place)
    BY <1>1, <1>7, NoReasonStands DEF Speaks, Within
  <2>2. Refuted("unregistered", Place)
    BY <1>1, <1>2, <1>7 DEF GateInv, Established, Within
  <2> QED
    BY <1>1, <1>7, <2>1, <2>2, ResolvedKeeps
<1> QED
  BY <1>4, <1>5, <1>6, <1>7 DEF Locate, ReadRows, ListCheckouts, To

\* A place that was located before it is judged.
LEMMA PlaceIsLocated ==
    ASSUME GateInv, Within, stage \in {"judging", "checking", "asking"}
    PROVE  Refuted("unregistered", Place) /\ Refuted("absent", Place)
<1>1. item \in 0..Len(call.targets) /\ Refuted("unregistered", PlaceOf(item)) /\ Refuted("absent", PlaceOf(item))
  BY DEF GateInv, Standing, Established, Within, LocatedNow
<1> QED
  BY <1>1 DEF Place, PlaceOf

\* The rules.
LEMMA JudgeKeeps == ASSUME GateInv, Observe, JudgeCommand PROVE GateInv'
<1>1. Within /\ stage = "judging" /\ item = 0 /\ boundaries' = boundaries
  BY DEF JudgeCommand, Within, GateInv, Standing, Evaluating
<1>2. CASE call.discards # "nothing" /\ ~MayDiscard(call)
  <2>1. Speaks(call, "discards", call.at)
    <3>1. call.discards \in {"nothing", "work", "volumes"}
      BY <1>1, WithinFacts, OperationTypes
    <3> QED
      BY <1>2, <3>1 DEF Speaks, MayDiscard
  <2>2. call.at \in Places /\ stage' = "refusing" /\ item' = item
    BY <1>1, <1>2, WithinFacts DEF JudgeCommand, To
  <2> QED
    BY <1>1, <2>1, <2>2, RefusalKeeps DEF Whys
<1>3. CASE ~(call.discards # "nothing" /\ ~MayDiscard(call))
  <2>1. NextTarget
    BY <1>3 DEF JudgeCommand
  <2>2. Opened'
    BY <1>1, WithinFacts DEF GateInv, Opened, Refuted
  <2> QED
    BY <1>1, <1>3, <2>1, <2>2, PlaceIsLocated, NextTargetKeeps
<1> QED
  BY <1>2, <1>3

\* What the rules say of a target, in the words of the reasons.
LEMMA DenialSpeaks ==
    ASSUME GateInv, Within, item # 0, Target.in # Outside, Denies
    PROVE  \E why \in {"elsewhere", "memory", "protected"} : Speaks(call, why, Target.in)
<1>1. /\ item \in DOMAIN call.targets /\ Target \in [in : Places, kind : Kinds]
  BY OperationTypes DEF GateInv, Standing, Within, Target
<1>2. Target = [in |-> Target.in, kind |-> Target.kind]
  BY <1>1
<1>3. Targets(call, Target.in, Target.kind) /\ Target.kind \in Kinds
  BY <1>1, <1>2 DEF Targets, Target
<1> QED
  BY <1>3 DEF Denies, Speaks

LEMMA CheckKeeps == ASSUME GateInv, Observe, CheckTarget PROVE GateInv'
<1>1. Within /\ stage = "checking" /\ item # 0 /\ boundaries' = boundaries
  BY DEF CheckTarget, Within, GateInv, Standing, Evaluating
<1>2. /\ call \in Operations /\ item \in 1..Len(call.targets) /\ Len(call.targets) \in Nat
      /\ against' \subseteq against /\ call' = call /\ PlaceOf(item) = Place
      /\ Target \in [in : Places, kind : Kinds]
  BY <1>1, WithinFacts DEF Within
<1>3. Opened'
  BY <1>1, <1>2 DEF GateInv, Opened, Refuted
<1>4. ~(call.discards # "nothing" /\ ~MayDiscard(call))
  BY <1>1 DEF GateInv, Established, Within
<1>5. CASE Target.in # Outside /\ Denies
  <2>1. stage' = "refusing" /\ item' = item
    BY <1>5 DEF CheckTarget, To
  <2> QED
    BY <1>1, <1>2, <1>5, <2>1, DenialSpeaks, RefusalKeeps DEF Whys
<1>6. CASE Target.in # Outside /\ ~Denies /\ Target.kind = "formal" /\ Target.in \notin boundaries
  <2>1. stage' = "asking" /\ item' = item
    BY <1>6 DEF CheckTarget, To
  <2>2. \A i \in 0..Len(call.targets) : i = item =>
          Refuted("unregistered", PlaceOf(i))' /\ Refuted("absent", PlaceOf(i))'
    BY <1>1, <1>2, PlaceIsLocated DEF Refuted, PlaceOf, Place
  <2>3. \A i \in 0..Len(call'.targets) : LocatedNow(i)' =>
          Refuted("unregistered", PlaceOf(i))' /\ Refuted("absent", PlaceOf(i))'
    BY <1>1, <1>2, <2>1, <2>2, EarlierKeep DEF LocatedNow, Refuted, PlaceOf
  <2>4. \A i \in 1..Len(call'.targets) : CheckedNow(i)' => Fine(i)'
    BY <1>1, <1>2, <2>1, EarlierKeep DEF CheckedNow, Fine
  <2>5. Target'.kind = "formal" /\ Target'.in # Outside /\ ~Denies'
    BY <1>2, <1>6, <2>1 DEF Target, Denies
  <2>6. Established'
    BY <1>2, <1>4, <2>1, <2>3, <2>4, <2>5 DEF Established
  <2> QED
    BY <1>1, <2>1, <2>6, StayKeeps DEF Evaluating
<1>7. CASE Target.in = Outside \/ (~Denies /\ (Target.kind # "formal" \/ Target.in \in boundaries))
  <2>1. NextTarget
    BY <1>7 DEF CheckTarget
  <2>2. \A i \in 1..Len(call.targets) : i = item => Fine(i)'
    BY <1>1, <1>2, <1>7 DEF Fine, Target, Denies
  <2> QED
    BY <1>1, <1>3, <1>4, <2>1, <2>2, PlaceIsLocated, NextTargetKeeps
<1> QED
  BY <1>5, <1>6, <1>7

LEMMA AskBoundaryKeeps == ASSUME GateInv, Observe, AskBoundary PROVE GateInv'
<1>1. Within /\ stage = "asking" /\ item # 0
  BY DEF AskBoundary, Within, GateInv, Standing, Evaluating
<1>2. /\ call \in Operations /\ item \in 1..Len(call.targets) /\ Len(call.targets) \in Nat
      /\ against' \subseteq against /\ call' = call
      /\ Target \in [in : Places, kind : Kinds]
  BY <1>1, WithinFacts DEF Within
<1>3. /\ Target.kind = "formal" /\ Target.in # Outside /\ ~Denies
      /\ ~(call.discards # "nothing" /\ ~MayDiscard(call))
  BY <1>1 DEF GateInv, Established, Within
<1>4. CASE Target.in \in blocked
  <2>1. Targets(call, Target.in, "formal")
    <3>1. Target = [in |-> Target.in, kind |-> "formal"]
      BY <1>2, <1>3
    <3> QED
      BY <1>2, <1>3, <3>1, OperationTypes DEF Targets, Target
  <2>2. Speaks(call, "blocked", Target.in)
    BY <1>4, <2>1 DEF Speaks
  <2>3. stage' = "refusing" /\ UNCHANGED <<item, boundaries>>
    BY <1>4 DEF AskBoundary, To
  <2> QED
    BY <1>1, <1>2, <2>2, <2>3, RefusalKeeps DEF Whys
<1>5. CASE Target.in \notin blocked
  <2>1. NextTarget /\ boundaries' = boundaries \cup {Target.in}
    BY <1>5 DEF AskBoundary
  <2>2. Refuted("blocked", Target.in)
    BY <1>1, <1>5, NoReasonStands DEF Speaks, Within
  <2>3. Opened'
    BY <1>2, <2>1, <2>2 DEF GateInv, Opened, Refuted
  <2>4. \A i \in 1..Len(call.targets) : i = item => Fine(i)'
    BY <1>2, <1>3, <2>1 DEF Fine, Target, Denies
  <2> QED
    BY <1>1, <1>3, <2>1, <2>3, <2>4, PlaceIsLocated, NextTargetKeeps
<1> QED
  BY <1>4, <1>5

LEMMA NextGate == ASSUME GateInv, [GateNext]_gateVars PROVE GateInv'
<1>1. CASE GateNext
  <2>1. CASE HookStep
    <3>1. CASE StandIn \/ Deliver \/ EvaluationFails
      BY <1>1, <3>1, AnswerKeeps DEF GateNext, StandIn, Deliver, EvaluationFails
    <3> QED
      BY <1>1, <2>1, <3>1, AskKeeps, SelectKeeps, LocateKeeps, JudgeKeeps, CheckKeeps,
         AskBoundaryKeeps DEF GateNext, HookStep
  <2>2. CASE Facts \/ WorktreeStep
    BY <1>1, <2>2, OthersKeep DEF GateNext, Facts, WorktreeStep
  <2> QED
    BY <1>1, <2>1, <2>2 DEF GateNext
<1>2. CASE UNCHANGED gateVars
  <2>0. UNCHANGED <<row, dir, tip, blocked, call, stage, item, boundaries, verdict, against, ever>>
    BY <1>2 DEF gateVars, hookVars, vars, gitVars, observers
  <2>1. Standing' /\ Opened'
    BY <2>0 DEF GateInv, Standing, Opened, Refuted
  <2>2. Reasons(call)' = Reasons(call)
    BY <2>0 DEF Reasons, Speaks, Targets, PlacesOf
  <2>3. Observed'
    BY <2>0, <2>2 DEF GateInv, Observed
  <2>4. Established'
    BY <2>0 DEF GateInv, Established, LocatedNow, CheckedNow, Fine, PlaceOf, Refuted, Target,
                Denies, MayDiscard
  <2> QED
    BY <2>1, <2>3, <2>4 DEF GateInv
<1> QED
  BY <1>1, <1>2

\* The inductive invariant: what the evaluation of a call has refuted at each of its places.
THEOREM GateInvariance == GateSpec => []GateInv
<1> QED
  BY InitGate, NextGate, PTL DEF GateSpec

\* Once every target is checked, no reason has stood all the time.
LEMMA PermittedIsClear ==
    ASSUME GateInv, stage = "permitting" PROVE against = {}
<1>1. /\ call # NoCall /\ call \in Operations /\ item = Len(call.targets)
      /\ against \subseteq Reasons(call)
  BY DEF GateInv, Standing, Observed
<1>2. /\ Len(call.targets) \in Nat /\ DOMAIN call.targets = 1..Len(call.targets)
  BY <1>1, OperationTypes
<1>3. /\ \A i \in 0..Len(call.targets) : Refuted("unregistered", PlaceOf(i)) /\ Refuted("absent", PlaceOf(i))
      /\ \A i \in 1..Len(call.targets) : Fine(i)
      /\ ~(call.discards # "nothing" /\ ~MayDiscard(call))
  BY <1>1, <1>2 DEF GateInv, Established, LocatedNow, CheckedNow
<1>4. ASSUME NEW why \in Whys, NEW p, <<why, p>> \in against, Speaks(call, why, p)
      PROVE  FALSE
  <2>1. \A q \in PlacesOf(call) : Refuted("unregistered", q) /\ Refuted("absent", q)
    BY <1>2, <1>3 DEF PlacesOf, PlaceOf
  <2>2. CASE why \in {"unregistered", "absent"}
    BY <1>4, <2>1, <2>2 DEF Speaks, Refuted
  <2>3. CASE why = "discards"
    BY <1>3, <1>4, <2>3 DEF Speaks, MayDiscard
  <2>4. CASE why = "elsewhere"
    <3>0. PICK kind \in Kinds : Targets(call, p, kind)
      BY <1>4, <2>4 DEF Speaks
    <3>1. PICK i \in 1..Len(call.targets) : call.targets[i].in = p
      BY <1>2, <3>0 DEF Targets
    <3>2. p # Outside /\ call.cwd \in Names /\ p # call.cwd
      BY <1>4, <2>4 DEF Speaks, Targets
    <3>3. Fine(i)
      BY <1>3
    <3> QED
      BY <3>1, <3>2, <3>3 DEF Fine
  <2>5. CASE why \in {"memory", "protected"}
    BY <1>2, <1>3, <1>4, <2>5 DEF Speaks, Targets, Fine
  <2>6. CASE why = "blocked"
    <3>1. p \in boundaries
      BY <1>2, <1>3, <1>4, <2>6 DEF Speaks, Targets, Fine
    <3> QED
      BY <1>4, <2>6, <3>1 DEF GateInv, Opened, Refuted
  <2> QED
    BY <2>2, <2>3, <2>4, <2>5, <2>6 DEF Whys
<1> QED
  BY <1>1, <1>4 DEF Reasons

\* Which steps answer with what.
LEMMA AnswersOf ==
    ASSUME GateNext, verdict = "none"
    PROVE  /\ verdict' = "pass" => stage = "permitting"
           /\ verdict' = "notice" => stage # "idle" /\ ~Sensitive(call)
           /\ verdict' = "deny" => stage = "refusing"
<1>1. CASE HookStep
  BY <1>1 DEF HookStep, Ask, SelectRuntime, StandIn, Deliver, Answer, Locate, ReadRows,
     ListCheckouts, JudgeCommand, CheckTarget, AskBoundary, EvaluationFails
<1>2. CASE Facts \/ WorktreeStep
  BY <1>2 DEF Facts, WorktreeStep, hookVars
<1> QED
  BY <1>1, <1>2 DEF GateNext

\* For any number of worktrees, sessions and targets: nothing is let through against a
\* reason that stood from the beginning of the call to its end, and what writes a file or
\* discards work is never let through by the plugin alone.
THEOREM WhatPassesIsPermitted == GateSpec => LetThroughIsPermitted
<1>1. GateInv /\ [GateNext]_gateVars =>
      [/\ verdict = "none" /\ verdict' = "pass" => against = {}
       /\ verdict = "none" /\ verdict' = "notice"
            => call.targets = <<>> /\ call.discards \in {"nothing", "volumes"}]_gateVars
  <2>1. ASSUME GateInv, GateNext, verdict = "none", verdict' = "notice"
        PROVE  call.targets = <<>> /\ call.discards \in {"nothing", "volumes"}
    <3>1. stage # "idle" /\ ~Sensitive(call)
      BY <2>1, AnswersOf
    <3>2. call \in Operations
      BY <2>1, <3>1 DEF GateInv, Standing
    <3> QED
      BY <3>1, <3>2, OperationTypes DEF Sensitive
  <2> QED
    BY <2>1, AnswersOf, PermittedIsClear
<1> QED
  BY <1>1, GateInvariance, PTL DEF GateSpec, LetThroughIsPermitted

\* A denial with a finding had a reason at some time during the call.
THEOREM DenialsHaveReasons == GateSpec => DeniedHasReason
<1>1. GateInv /\ [GateNext]_gateVars =>
      [verdict = "none" /\ verdict' = "deny" => ever # {}]_gateVars
  BY AnswersOf DEF GateInv, Observed
<1> QED
  BY <1>1, GateInvariance, PTL DEF GateSpec, DeniedHasReason

\* What GateInv does not say of the types: the checkouts asked for and the answer.
Marks ==
    /\ blocked \subseteq Places /\ boundaries \subseteq Places
    /\ verdict \in {"none", "pass", "deny", "failed", "notice"}

LEMMA NextMarks == ASSUME Marks, GateInv, [GateNext]_gateVars PROVE Marks'
<1> USE DEF Marks
<1>1. CASE Ask \/ SelectRuntime \/ Locate \/ ReadRows \/ ListCheckouts \/ JudgeCommand \/ CheckTarget
  BY <1>1 DEF Ask, SelectRuntime, Locate, ReadRows, ListCheckouts, JudgeCommand, CheckTarget
<1>2. CASE StandIn \/ Deliver \/ EvaluationFails
  BY <1>2 DEF StandIn, Deliver, EvaluationFails, Answer
<1>3. CASE AskBoundary
  <2>1. call # NoCall /\ call \in Operations /\ item \in 1..Len(call.targets)
    <3>1. stage = "asking" /\ Standing
      BY <1>3 DEF AskBoundary, GateInv
    <3>2. call # NoCall /\ call \in Operations /\ item \in 0..Len(call.targets) /\ item # 0
      BY <3>1 DEF Standing
    <3> QED
      BY <3>2, OperationTypes
  <2>2. Target.in \in Places
    BY <2>1, OperationTypes DEF Target
  <2> QED
    BY <1>3, <2>2 DEF AskBoundary
<1>4. CASE Facts
  BY <1>4 DEF Facts, hookVars, Places
<1>5. CASE WorktreeStep \/ UNCHANGED gateVars
  BY <1>5 DEF WorktreeStep, hookVars, gateVars
<1> QED
  BY <1>1, <1>2, <1>3, <1>4, <1>5 DEF GateNext, HookStep

-----------------------------------------------------------------------------
(***************************************************************************)
(* The check of a deletion.  What lies above a path is in every set that    *)
(* holds the path and the parents of its members; so no induction is needed *)
(* to find, below a directory that is opened, the entry on the way to it.   *)
(***************************************************************************)
All == Paths \cup {Root}
Upward(up) == \A x \in up \cap Paths : Parent[x] \in up
Above(q, p) == \A up \in SUBSET All : p \in up /\ Upward(up) => q \in up

LEMMA RootIsAbove == ASSUME NEW p \in All PROVE Above(Root, p)
BY CleanupAssumption DEF Above, Upward, All

LEMMA SelfIsAbove == \A p \in All : Above(p, p)
BY DEF Above

LEMMA ParentIsAbove == ASSUME NEW c \in Paths, NEW p \in All, Above(c, p) PROVE Above(Parent[c], p)
BY DEF Above, Upward

\* Below q, on the way to p, lies a child of q.
LEMMA ChildOnTheWay ==
    ASSUME NEW q \in All, NEW p \in Paths, Above(q, p), q # p
    PROVE  \E c \in Paths : Parent[c] = q /\ Above(c, p)
<1> SUFFICES ASSUME \A c \in Paths : Parent[c] = q => ~Above(c, p) PROVE FALSE
  OBVIOUS
<1> DEFINE up == {x \in All : Above(x, p)} \ {q}
<1>1. p \in up
  BY SelfIsAbove DEF All
<1>2. Upward(up)
  <2> SUFFICES ASSUME NEW x \in up \cap Paths PROVE Parent[x] \in up
    BY DEF Upward
  <2>1. Parent[x] \in All
    BY CleanupAssumption DEF All
  <2>2. Above(Parent[x], p)
    BY ParentIsAbove DEF All
  <2>3. Parent[x] # q
    OBVIOUS
  <2> QED
    BY <2>1, <2>2, <2>3
<1>3. up \in SUBSET All
  OBVIOUS
<1>4. q \in up
  BY <1>1, <1>2, <1>3 DEF Above
<1> QED
  BY <1>4

\* Above what is there are directories only.
LEMMA DirectoriesAbove ==
    ASSUME WellFormed(entry), NEW p \in Paths, entry[p] # "none",
           NEW q \in All, Above(q, p), q # p
    PROVE  At(q) = "dir"
<1> DEFINE up == {p} \cup {x \in All : At(x) = "dir"}
<1>1. \A x \in Paths : entry[x] # "none" => Parent[x] \in All /\ At(Parent[x]) = "dir"
  BY CleanupAssumption DEF WellFormed, At, All
<1>2. Upward(up)
  BY <1>1, CleanupAssumption DEF Upward, At
<1>3. up \in SUBSET All /\ p \in up
  BY DEF All
<1>4. q \in up
  BY <1>2, <1>3 DEF Above
<1> QED
  BY <1>4

\* The walk is still to come to p: a directory above it is to be opened, or listed.
Coming(p) ==
    \E q \in All : /\ Above(q, p) /\ q # p
                   /\ \/ \E i \in 1..Len(pending) : pending[i] = q
                      \/ <<q, "dir">> \in listed

Links == {"inside", "outside"}
Sought(s) ==
    /\ s[1] \in {"outside", "link", "named"}
    /\ \/ Coming(s[2])
       \/ \E k \in Entries : <<s[2], k>> \in listed /\ (s[1] # "named" => k \in Links)

\* Unless something has moved, what is listed is there, and what is to be opened can be.
Current ==
    /\ \A e \in listed : e[2] # "none" /\ entry[e[1]] = e[2]
    /\ \A i \in 1..Len(pending) : At(pending[i]) = "dir"

\* What locate_checkout found agrees with what has stood ...
Placed ==
    /\ \A s \in stood : (s[1] = "checkout" => own) /\ (s[1] = "tracked" => ~own)
    /\ ~moved => own = (temporary \/ IsCheckout \/ IsProject)

\* ... and so do the rules that were chosen then.
Ruled ==
    /\ container => \A s \in stood : s[1] \notin {"link", "named"}
    /\ ~moved => container = IsContainer

WalkInv ==
    /\ CleanupTypeOK
    /\ stood \subseteq Assets
    /\ phase # "idle" /\ ~moved => stood = Assets
    /\ phase \in {"located", "tracked"} => Placed
    /\ phase \in {"tracked", "walking"} => Ruled
    /\ phase # "walking" => listed = {}
    /\ phase = "walking" => \A s \in stood : Sought(s)
    /\ phase = "walking" /\ ~moved => Current
    /\ CheckedIsRight

LEMMA InitWalk == CleanupInit => WalkInv
<1> SUFFICES ASSUME CleanupInit PROVE WalkInv
  OBVIOUS
<1>1. /\ entry \in [Paths -> Entries] /\ \A p \in Paths : entry[p] = "none"
      /\ pending \in Seq(Paths \cup {Root})
  BY EmptySeq DEF CleanupInit, Entries
<1>2. CleanupTypeOK
  BY <1>1 DEF CleanupInit, CleanupTypeOK, WellFormed
<1> QED
  BY <1>2 DEF CleanupInit, WalkInv, CheckedIsRight, StaysAreSeen, RefusedForCause

AssetNames == {"outside", "link", "named", "tracked", "checkout"}

LEMMA AssetsAre ==
    ASSUME CleanupTypeOK
    PROVE  /\ Assets \subseteq AssetNames \X Paths
           /\ \A p : <<"outside", p>> \in Assets <=> p \in Paths /\ entry[p] = "outside"
           /\ \A p : <<"link", p>> \in Assets <=> p \in Paths /\ ~IsContainer /\ entry[p] \in Links
           /\ \A p : <<"named", p>> \in Assets <=> p \in Protected /\ ~IsContainer /\ entry[p] # "none"
           /\ \A p : <<"tracked", p>> \in Assets <=> p \in tracked /\ ReadsIndex
           /\ \A p : <<"checkout", p>> \in Assets <=> p = DotGit /\ IsCheckout
BY CleanupAssumption DEF Assets, CleanupTypeOK, Links, AssetNames

LEMMA AssetIsPair ==
    ASSUME CleanupTypeOK, NEW s \in Assets
    PROVE  s[1] \in AssetNames /\ s[2] \in Paths /\ s = <<s[1], s[2]>>
<1>1. s \in AssetNames \X Paths
  BY AssetsAre
<1> QED
  BY <1>1

\* An asset that is sought lies at a path where something is.
LEMMA SoughtIsThere ==
    ASSUME CleanupTypeOK, NEW s \in Assets, s[1] \in {"outside", "link", "named"}
    PROVE  /\ s[2] \in Paths /\ entry[s[2]] # "none"
           /\ s[1] # "named" => entry[s[2]] \in Links
           /\ s = <<s[1], s[2]>>
<1>1. s = <<s[1], s[2]>> /\ s[2] \in Paths
  BY AssetIsPair
<1>2. CASE s[1] = "outside"
  BY <1>1, <1>2, AssetsAre DEF Links
<1>3. CASE s[1] = "link"
  BY <1>1, <1>3, AssetsAre DEF Links
<1>4. CASE s[1] = "named"
  BY <1>1, <1>4, AssetsAre
<1> QED
  BY <1>2, <1>3, <1>4

\* Nothing of the tree is changed by the steps of the check.
LEMMA TreeStays ==
    ASSUME UNCHANGED <<files, temporary>>
    PROVE  /\ Assets' = Assets /\ IsContainer' = IsContainer
           /\ IsCheckout' = IsCheckout /\ IsProject' = IsProject
BY DEF files, Assets, IsContainer, IsCheckout, IsProject, ReadsIndex

-----------------------------------------------------------------------------
(***************************************************************************)
(* One lemma for each step of the check.                                    *)
(***************************************************************************)

LEMMA CallBegins == ASSUME WalkInv, Call PROVE WalkInv'
<1>1. CleanupTypeOK'
  <2>1. /\ entry' \in [Paths -> Entries] /\ WellFormed(entry')
        /\ tracked' \subseteq Paths /\ temporary' \in BOOLEAN
        /\ phase' = "locating" /\ stood' = Assets'
        /\ UNCHANGED <<own, container, pending, listed, moved, broken>>
    BY DEF Call
  <2>2. stood' \subseteq {"outside", "link", "named", "tracked", "checkout"} \X Paths
    BY <2>1, CleanupAssumption DEF Assets
  <2> QED
    BY <2>1, <2>2 DEF WalkInv, CleanupTypeOK, WellFormed
<1> QED
  BY <1>1 DEF WalkInv, Call, CheckedIsRight, StaysAreSeen, RefusedForCause

LEMMA EndsKeep ==
    ASSUME WalkInv, NEW how \in Ended, Ends(how), phase # "idle", broken' \in BOOLEAN,
           how = "checked" => stood = {},
           how = "unsafe" /\ ~moved /\ ~broken' => stood # {}
    PROVE  WalkInv'
<1>1. CleanupTypeOK'
  BY EmptySeq DEF WalkInv, CleanupTypeOK, Ends, Goes, files, WellFormed, Ended
<1>2. Assets' = Assets
  BY TreeStays DEF Ends, Goes
<1> QED
  BY <1>1, <1>2 DEF WalkInv, Ends, Goes, Ended, CheckedIsRight, StaysAreSeen, RefusedForCause

LEMMA EndKeeps ==
    ASSUME WalkInv, NEW how \in Ended, End(how), phase # "idle",
           how = "checked" => stood = {},
           how = "unsafe" /\ ~moved => stood # {}
    PROVE  WalkInv'
BY EndsKeep DEF End, WalkInv, CleanupTypeOK

LEMMA FailsKeeps ==
    ASSUME WalkInv, NEW how \in {"unsafe", "failed"}, Fails(how), phase # "idle"
    PROVE  WalkInv'
BY EndsKeep DEF Fails, Ended

LEMMA LocateCheckoutKeeps == ASSUME WalkInv, LocateCheckout PROVE WalkInv'
<1>0. phase = "locating" /\ phase # "idle"
  BY DEF LocateCheckout
<1>1. CASE Fails("unsafe")
  BY <1>0, <1>1, FailsKeeps
<1>2. CASE /\ Goes("located") /\ own' = (temporary \/ IsCheckout \/ IsProject)
           /\ UNCHANGED <<container, pending, listed, broken>>
  <2>1. CleanupTypeOK'
    BY <1>2 DEF WalkInv, CleanupTypeOK, Goes, files, WellFormed, IsCheckout, IsProject
  <2>2. UNCHANGED <<files, temporary, stood, moved>> /\ phase' = "located"
    BY <1>2 DEF Goes
  <2>3. /\ Assets' = Assets /\ IsCheckout' = IsCheckout /\ IsProject' = IsProject
    BY <2>2, TreeStays
  <2>4. ASSUME NEW s \in stood PROVE (s[1] = "checkout" => own') /\ (s[1] = "tracked" => ~own')
    <3>1. s \in Assets /\ s = <<s[1], s[2]>>
      BY AssetIsPair DEF WalkInv
    <3>2. CASE s[1] = "checkout"
      <4>1. IsCheckout
        BY <3>1, <3>2, AssetsAre DEF WalkInv
      <4> QED
        BY <1>2, <3>2, <4>1
    <3>3. CASE s[1] = "tracked"
      <4>1. ReadsIndex
        BY <3>1, <3>3, AssetsAre DEF WalkInv
      <4> QED
        BY <1>2, <3>3, <4>1 DEF ReadsIndex
    <3> QED
      BY <3>2, <3>3
  <2>5. Placed'
    BY <1>2, <2>2, <2>3, <2>4 DEF Placed
  <2> QED
    BY <1>0, <1>2, <2>1, <2>2, <2>3, <2>5
       DEF WalkInv, CheckedIsRight, StaysAreSeen, RefusedForCause
<1> QED
  BY <1>1, <1>2 DEF LocateCheckout

LEMMA JudgeContainerKeeps == ASSUME WalkInv, JudgeContainer PROVE WalkInv'
<1>0. phase = "located" /\ phase # "idle"
  BY DEF JudgeContainer
<1>1. CASE Fails("unsafe")
  BY <1>0, <1>1, FailsKeeps
<1>2. CASE /\ Goes("tracked") /\ container' = IsContainer
           /\ UNCHANGED <<own, pending, listed, broken>>
  <2>1. CleanupTypeOK'
    BY <1>2 DEF WalkInv, CleanupTypeOK, Goes, files, WellFormed, IsContainer, IsCheckout
  <2>2. UNCHANGED <<files, temporary, stood, moved>> /\ phase' = "tracked"
    BY <1>2 DEF Goes
  <2>3. /\ Assets' = Assets /\ IsContainer' = IsContainer
        /\ IsCheckout' = IsCheckout /\ IsProject' = IsProject
    BY <2>2, TreeStays
  <2>4. Placed'
    BY <1>0, <1>2, <2>2, <2>3 DEF WalkInv, Placed
  <2>5. ASSUME NEW s \in stood, IsContainer PROVE s[1] \notin {"link", "named"}
    <3>1. s \in Assets /\ s = <<s[1], s[2]>>
      BY AssetIsPair DEF WalkInv
    <3> QED
      BY <2>5, <3>1, AssetsAre DEF WalkInv
  <2>6. Ruled'
    BY <1>2, <2>2, <2>3, <2>5 DEF Ruled
  <2> QED
    BY <1>0, <1>2, <2>1, <2>2, <2>3, <2>4, <2>6
       DEF WalkInv, CheckedIsRight, StaysAreSeen, RefusedForCause
<1> QED
  BY <1>1, <1>2 DEF JudgeContainer

\* A walk begins with the target.
LEMMA WalkBegins ==
    ASSUME WalkInv, Walks, phase = "tracked",
           \A s \in stood : s[1] \in {"outside", "link", "named"}
    PROVE  WalkInv'
<1>0. /\ UNCHANGED <<files, temporary, stood, moved, own, container, listed, broken>>
      /\ phase' = "walking" /\ pending' = <<Root>>
  BY DEF Walks, Goes
<1>1. CleanupTypeOK'
  BY <1>0 DEF WalkInv, CleanupTypeOK, files, WellFormed
<1>2. Assets' = Assets /\ IsContainer' = IsContainer /\ entry' = entry
  BY <1>0, TreeStays DEF files
<1>3. ASSUME NEW s \in stood PROVE Coming(s[2])'
  <2>1. s[2] \in Paths
    BY AssetIsPair DEF WalkInv
  <2>2. Above(Root, s[2]) /\ Root # s[2] /\ Root \in All
    BY <2>1, RootIsAbove, CleanupAssumption DEF All
  <2> QED
    BY <1>0, <2>2 DEF Coming
<1>4. \A s \in stood : Sought(s)'
  BY <1>3 DEF Sought
<1>5. ~moved => Current'
  BY <1>0, <1>2 DEF WalkInv, Current, At
<1>6. Ruled'
  BY <1>0, <1>2 DEF WalkInv, Ruled
<1> QED
  BY <1>0, <1>1, <1>2, <1>4, <1>5, <1>6
     DEF WalkInv, CheckedIsRight, StaysAreSeen, RefusedForCause

LEMMA LsFilesKeeps == ASSUME WalkInv, LsFiles PROVE WalkInv'
<1>0. phase = "tracked" /\ phase # "idle" /\ CleanupTypeOK /\ Placed /\ stood \subseteq Assets
  BY DEF LsFiles, WalkInv
<1>1. CASE Fails("unsafe") \/ Fails("failed")
  BY <1>0, <1>1, FailsKeeps
<1>2. CASE own /\ IsCheckout /\ End("unsafe")
  <2>1. <<"checkout", DotGit>> \in Assets
    BY <1>0, <1>2, AssetsAre
  <2>2. ~moved => stood # {}
    BY <1>0, <2>1 DEF WalkInv
  <2> QED
    BY <1>0, <1>2, <2>2, EndKeeps DEF Ended
<1>3. CASE ~own /\ tracked # {} /\ End("unsafe")
  <2>1. PICK p \in tracked : TRUE
    BY <1>3
  <2>2. ~moved => ReadsIndex
    BY <1>0, <1>3 DEF Placed, ReadsIndex
  <2>3. ~moved => <<"tracked", p>> \in Assets
    BY <1>0, <2>1, <2>2, AssetsAre
  <2>4. ~moved => stood # {}
    BY <1>0, <2>3 DEF WalkInv
  <2> QED
    BY <1>0, <1>3, <2>4, EndKeeps DEF Ended
<1>4. CASE /\ Walks
           /\ own => ~IsCheckout
           /\ ~own => tracked = {}
  <2>1. ASSUME NEW s \in stood PROVE s[1] \in {"outside", "link", "named"}
    <3>1. s \in Assets /\ s = <<s[1], s[2]>> /\ s[1] \in AssetNames
      BY <1>0, AssetIsPair
    <3>2. s[1] # "checkout"
      <4>1. s[1] = "checkout" => IsCheckout /\ own
        BY <1>0, <3>1, AssetsAre DEF Placed
      <4> QED
        BY <1>4, <4>1
    <3>3. s[1] # "tracked"
      <4>1. s[1] = "tracked" => s[2] \in tracked /\ ~own
        BY <1>0, <3>1, AssetsAre DEF Placed
      <4> QED
        BY <1>4, <4>1
    <3> QED
      BY <3>1, <3>2, <3>3 DEF AssetNames
  <2> QED
    BY <1>0, <1>4, <2>1, WalkBegins
<1> QED
  BY <1>1, <1>2, <1>3, <1>4 DEF LsFiles

\* Opening a directory, the way to p goes on with an entry of it.
LEMMA OpenKeeps == ASSUME WalkInv, Open PROVE WalkInv'
<1> DEFINE directory == pending[Len(pending)]
<1>0. /\ CleanupTypeOK /\ stood \subseteq Assets /\ \A s \in stood : Sought(s)
      /\ phase = "walking" /\ listed = {} /\ pending # <<>>
      /\ ~moved => Current /\ stood = Assets
  BY DEF WalkInv, Open
<1>1. /\ pending \in Seq(All) /\ Len(pending) \in Nat \ {0} /\ directory \in All
      /\ \A i \in 1..Len(pending) : pending[i] \in All
  BY <1>0, EmptySeq, ElementOfSeq DEF CleanupTypeOK, All
<1>2. CASE Fails("unsafe")
  BY <1>0, <1>2, FailsKeeps
<1>3. CASE /\ At(directory) \notin {"none", "file"}
           /\ pending' = SubSeq(pending, 1, Len(pending) - 1)
           /\ listed' = IF At(directory) = "dir" THEN {<<c, entry[c]>> : c \in Children(directory)} ELSE {}
           /\ Goes("walking")
           /\ UNCHANGED <<own, container, broken>>
  <2>1. /\ pending' \in Seq(All) /\ Len(pending') = Len(pending) - 1
        /\ \A i \in 1..Len(pending') : pending'[i] = pending[i]
    <3>1. \A i \in 1..Len(pending) - 1 : pending[i] \in All
      BY <1>1
    <3>2. 1 \in Int /\ Len(pending) - 1 \in Int
      BY <1>1
    <3> DEFINE rest == SubSeq(pending, 1, Len(pending) - 1)
    <3>3. /\ rest \in Seq(All)
          /\ Len(rest) = IF 1 <= Len(pending) - 1 THEN Len(pending) - 1 - 1 + 1 ELSE 0
          /\ \A i \in 1..Len(pending) - 1 - 1 + 1 : rest[i] = pending[1 + i - 1]
      BY <3>1, <3>2, SubSeqProperties
    <3>4. pending' = rest
      BY <1>3
    <3> HIDE DEF rest
    <3> QED
      BY <1>1, <3>3, <3>4
  <2>2. /\ UNCHANGED <<entry, tracked, temporary, stood, moved, own, container, broken>>
        /\ phase' = "walking" /\ Assets' = Assets /\ IsContainer' = IsContainer
    BY <1>3, TreeStays DEF Goes, files
  <2>3. listed' \subseteq Paths \X Entries /\ \A e \in listed' : e[2] # "none" /\ entry[e[1]] = e[2]
    BY <1>0, <1>3 DEF Children, CleanupTypeOK
  <2>4. CleanupTypeOK'
    BY <1>0, <2>1, <2>2, <2>3 DEF CleanupTypeOK, WellFormed, All
  <2>5. ASSUME NEW s \in stood PROVE Sought(s)'
    <3>1. /\ s[1] \in {"outside", "link", "named"} /\ Coming(s[2])
      BY <1>0 DEF Sought
    <3>2. /\ s[2] \in Paths /\ entry[s[2]] # "none" /\ (s[1] # "named" => entry[s[2]] \in Links)
      BY <1>0, <3>1, SoughtIsThere
    <3>3. PICK q \in All : /\ Above(q, s[2]) /\ q # s[2]
                           /\ \E i \in 1..Len(pending) : pending[i] = q
      BY <1>0, <3>1 DEF Coming
    <3>4. CASE q # directory
      <4>1. \E i \in 1..Len(pending') : pending'[i] = q
        BY <1>1, <2>1, <3>3, <3>4
      <4> QED
        BY <3>1, <3>3, <4>1 DEF Sought, Coming
    <3>5. CASE q = directory
      <4>1. At(directory) = "dir"
        BY <1>0, <3>2, <3>3, <3>5, DirectoriesAbove DEF CleanupTypeOK
      <4>2. PICK c \in Paths : Parent[c] = directory /\ Above(c, s[2])
        BY <3>2, <3>3, <3>5, ChildOnTheWay
      <4>3. c # s[2] => entry[c] = "dir"
        BY <1>0, <3>2, <4>2, DirectoriesAbove, CleanupAssumption DEF CleanupTypeOK, At, All
      <4>4. c \in Children(directory)
        BY <3>2, <4>2, <4>3 DEF Children
      <4>5. <<c, entry[c]>> \in listed'
        BY <1>3, <4>1, <4>4
      <4>6. CASE c = s[2]
        <5>1. entry[c] \in Entries
          BY <1>0 DEF CleanupTypeOK
        <5> QED
          BY <3>1, <3>2, <4>5, <4>6, <5>1 DEF Sought
      <4>7. CASE c # s[2]
        <5>1. Coming(s[2])'
          BY <4>2, <4>3, <4>5, <4>7 DEF Coming, All
        <5> QED
          BY <3>1, <5>1 DEF Sought
      <4> QED
        BY <4>6, <4>7
    <3> QED
      BY <3>4, <3>5
  <2>6. ~moved => Current'
    <3> SUFFICES ASSUME ~moved PROVE Current'
      OBVIOUS
    <3>1. \A i \in 1..Len(pending') : At(pending'[i]) = "dir"
      BY <1>0, <1>1, <2>1 DEF Current
    <3> QED
      BY <2>2, <2>3, <3>1 DEF Current, At
  <2>7. Ruled'
    BY <1>0, <2>2 DEF WalkInv, Ruled
  <2> QED
    BY <1>0, <2>2, <2>4, <2>5, <2>6, <2>7
       DEF WalkInv, CheckedIsRight, StaysAreSeen, RefusedForCause
<1> QED
  BY <1>2, <1>3 DEF Open

\* What is refused is an asset, unless something has moved.
LEMMA UnsafeIsAsset ==
    ASSUME CleanupTypeOK, NEW e \in listed, entry[e[1]] = e[2], e[2] # "none",
           container = IsContainer, Unsafe(e[1], e[2])
    PROVE  Assets # {}
<1>1. e[1] \in Paths
  BY DEF CleanupTypeOK
<1>2. \/ entry[e[1]] = "outside"
      \/ ~IsContainer /\ (entry[e[1]] \in Links \/ e[1] \in Protected)
  BY DEF Unsafe, Links
<1>3. \/ <<"outside", e[1]>> \in Assets
      \/ <<"link", e[1]>> \in Assets
      \/ <<"named", e[1]>> \in Assets
  BY <1>1, <1>2, AssetsAre
<1> QED
  BY <1>3

\* An asset that is listed is refused.
LEMMA AssetIsUnsafe ==
    ASSUME CleanupTypeOK, NEW s \in Assets, s[1] \in {"outside", "link", "named"},
           container => s[1] \notin {"link", "named"},
           NEW k \in Entries, s[1] # "named" => k \in Links
    PROVE  Unsafe(s[2], k)
<1>1. s = <<s[1], s[2]>>
  BY SoughtIsThere
<1>2. CASE container
  <2>1. entry[s[2]] = "outside" /\ k \in Links
    BY <1>1, <1>2, AssetsAre
  <2> QED
    BY <1>2, <2>1 DEF Unsafe, Links
<1>3. CASE ~container /\ s[1] # "named"
  BY <1>3 DEF Unsafe, Links
<1>4. CASE ~container /\ s[1] = "named"
  <2>1. s[2] \in Protected
    BY <1>1, <1>4, AssetsAre
  <2> QED
    BY <1>4, <2>1 DEF Unsafe
<1> QED
  BY <1>2, <1>3, <1>4

LEMMA ExamineKeeps == ASSUME WalkInv, NEW e \in listed, Examine(e) PROVE WalkInv'
<1>0. /\ CleanupTypeOK /\ stood \subseteq Assets /\ \A s \in stood : Sought(s)
      /\ phase = "walking" /\ phase # "idle" /\ (~moved => Current /\ stood = Assets)
      /\ Ruled
  BY DEF WalkInv, Examine
<1>1. e \in Paths \X Entries /\ e = <<e[1], e[2]>> /\ e[1] \in All
  BY <1>0 DEF CleanupTypeOK, All
<1>2. CASE Unsafe(e[1], e[2]) /\ End("unsafe")
  <2>1. ~moved => stood # {}
    BY <1>0, <1>2, UnsafeIsAsset DEF Current, Ruled
  <2> QED
    BY <1>0, <1>2, <2>1, EndKeeps DEF Ended
<1>3. CASE /\ ~Unsafe(e[1], e[2])
           /\ listed' = listed \ {e}
           /\ pending' = IF e[2] = "dir" THEN Append(pending, e[1]) ELSE pending
           /\ Goes("walking")
           /\ UNCHANGED <<own, container, broken>>
  <2>0. /\ listed' = listed \ {e}
        /\ pending' = IF e[2] = "dir" THEN Append(pending, e[1]) ELSE pending
        /\ Goes("walking")
    BY <1>3
  <2>1. /\ UNCHANGED <<entry, tracked, temporary, stood, moved, own, container, broken>>
        /\ phase' = "walking" /\ Assets' = Assets /\ IsContainer' = IsContainer
    BY <1>3, TreeStays DEF Goes, files
  <2>2. pending \in Seq(All) /\ Len(pending) \in Nat
    BY <1>0, LenProperties DEF CleanupTypeOK, All
  <2>3. /\ pending' \in Seq(All)
        /\ \A i \in 1..Len(pending) : i \in 1..Len(pending') /\ pending'[i] = pending[i]
        /\ \A i \in 1..Len(pending') : i \in 1..Len(pending) \/ (e[2] = "dir" /\ pending'[i] = e[1])
        /\ e[2] = "dir" => \E i \in 1..Len(pending') : pending'[i] = e[1]
    <3>1. CASE e[2] = "dir"
      <4>1. pending' = Append(pending, e[1])
        BY <2>0, <3>1
      <4>2. /\ pending' \in Seq(All)
            /\ Len(pending') = Len(pending) + 1
            /\ \A i \in 1..Len(pending) : pending'[i] = pending[i]
            /\ pending'[Len(pending) + 1] = e[1]
        BY <1>1, <2>2, <4>1, AppendProperties
      <4>3. \A i \in 1..Len(pending') : i \in 1..Len(pending) \/ i = Len(pending) + 1
        BY <2>2, <4>2
      <4>4. Len(pending) + 1 \in 1..Len(pending')
        BY <2>2, <4>2
      <4>5. \A i \in 1..Len(pending) : i \in 1..Len(pending')
        BY <2>2, <4>2
      <4> QED
        BY <3>1, <4>2, <4>3, <4>4, <4>5
    <3>2. CASE e[2] # "dir"
      BY <2>0, <2>2, <3>2
    <3> QED
      BY <3>1, <3>2
  <2>4. CleanupTypeOK'
    BY <1>0, <2>0, <2>1, <2>3 DEF CleanupTypeOK, WellFormed, All
  <2>5. ASSUME NEW s \in stood PROVE Sought(s)'
    <3>1. s[1] \in {"outside", "link", "named"} /\ Sought(s)
      BY <1>0 DEF Sought
    <3>2. CASE Coming(s[2])
      <4>1. PICK q \in All : /\ Above(q, s[2]) /\ q # s[2]
                             /\ \/ \E i \in 1..Len(pending) : pending[i] = q
                                \/ <<q, "dir">> \in listed
        BY <3>2 DEF Coming
      <4>2. \/ \E i \in 1..Len(pending') : pending'[i] = q
            \/ <<q, "dir">> \in listed'
        <5>1. CASE \E i \in 1..Len(pending) : pending[i] = q
          BY <2>3, <5>1
        <5>2. CASE <<q, "dir">> \in listed /\ <<q, "dir">> # e
          BY <2>0, <5>2
        <5>3. CASE <<q, "dir">> = e
          BY <2>3, <5>3
        <5> QED
          BY <4>1, <5>1, <5>2, <5>3
      <4> QED
        BY <3>1, <4>1, <4>2 DEF Sought, Coming
    <3>3. CASE \E k \in Entries : <<s[2], k>> \in listed /\ (s[1] # "named" => k \in Links)
      <4>1. PICK k \in Entries : <<s[2], k>> \in listed /\ (s[1] # "named" => k \in Links)
        BY <3>3
      <4>2. Unsafe(s[2], k)
        BY <1>0, <3>1, <4>1, AssetIsUnsafe DEF Ruled
      <4>3. <<s[2], k>> # e
        BY <1>1, <1>3, <4>2
      <4> QED
        BY <2>0, <3>1, <4>1, <4>3 DEF Sought
    <3> QED
      BY <3>1, <3>2, <3>3 DEF Sought
  <2>6. ~moved => Current'
    <3> SUFFICES ASSUME ~moved PROVE Current'
      OBVIOUS
    <3>1. e[2] = "dir" => At(e[1]) = "dir"
      BY <1>0, <1>1, CleanupAssumption DEF Current, At
    <3>2. \A i \in 1..Len(pending') : At(pending'[i]) = "dir"
      BY <1>0, <2>3, <3>1 DEF Current
    <3> QED
      BY <1>0, <2>0, <2>1, <3>2 DEF Current, At
  <2>7. Ruled'
    BY <1>0, <2>1 DEF Ruled
  <2> QED
    BY <1>0, <2>1, <2>4, <2>5, <2>6, <2>7
       DEF WalkInv, CheckedIsRight, StaysAreSeen, RefusedForCause
<1>4. CASE Fails("unsafe")
  BY <1>0, <1>4, FailsKeeps
<1> QED
  BY <1>2, <1>3, <1>4 DEF Examine

\* With nothing listed and nothing to be opened, nothing is sought.
LEMMA CheckedKeeps == ASSUME WalkInv, Checked PROVE WalkInv'
<1>1. pending = <<>> /\ listed = {} /\ \A s \in stood : Sought(s)
  BY DEF WalkInv, Checked
<1>2. 1..Len(pending) = {}
  BY <1>1
<1>3. stood = {}
  BY <1>1, <1>2 DEF Sought, Coming
<1> QED
  BY <1>3, EndKeeps DEF Checked, Ended

\* Another process only takes from what has stood.
LEMMA OthersMove == ASSUME WalkInv, Move \/ Index PROVE WalkInv'
<1>1. CleanupTypeOK /\ phase \in {"locating", "located", "tracked", "walking"}
  BY DEF WalkInv, Move, Index
<1>2. entry' \in [Paths -> Entries] /\ WellFormed(entry') /\ tracked' \subseteq Paths
  <2>1. CASE Move
    <3>1. PICK p \in Paths, kind \in Entries :
            /\ entry' = [q \in Paths |-> IF q = p THEN kind ELSE IF Parent[q] = p THEN "none" ELSE entry[q]]
            /\ WellFormed(entry')
      BY <2>1 DEF Move
    <3> QED
      BY <1>1, <2>1, <3>1 DEF Move, CleanupTypeOK, Entries
  <2>2. CASE Index
    BY <1>1, <2>2 DEF Index, CleanupTypeOK, WellFormed
  <2> QED
    BY <2>1, <2>2
<1>3. /\ UNCHANGED <<phase, temporary, own, container, pending, listed, broken>>
      /\ stood' = stood \cap Assets' /\ moved' = TRUE
  BY DEF Move, Index, walk
<1>4. CleanupTypeOK'
  BY <1>1, <1>2, <1>3 DEF CleanupTypeOK, WellFormed
<1>5. phase = "walking" => \A s \in stood' : Sought(s)'
  BY <1>3 DEF WalkInv, Sought, Coming
<1>6. Placed => Placed'
  BY <1>3 DEF Placed
<1>7. Ruled => Ruled'
  BY <1>3 DEF Ruled
<1> QED
  BY <1>1, <1>3, <1>4, <1>5, <1>6, <1>7
     DEF WalkInv, CheckedIsRight, StaysAreSeen, RefusedForCause

LEMMA LeaveKeeps == ASSUME WalkInv, Leave PROVE WalkInv'
<1>1. CleanupTypeOK'
  BY DEF WalkInv, Leave, Ended, CleanupTypeOK, WellFormed, Entries
<1> QED
  BY <1>1 DEF WalkInv, Leave, Ended, CheckedIsRight, StaysAreSeen, RefusedForCause

LEMMA NextWalk == ASSUME WalkInv, [CleanupNext]_cleanupVars PROVE WalkInv'
<1>1. CASE TimesOut
  BY <1>1, EndKeeps DEF TimesOut, Ended
<1>2. CASE UNCHANGED cleanupVars
  <2>1. UNCHANGED <<entry, tracked, phase, temporary, own, container, pending, listed, stood,
                    moved, broken>>
    BY <1>2 DEF cleanupVars, files, walk, observed
  <2>2. /\ CleanupTypeOK' /\ Assets' = Assets /\ IsContainer' = IsContainer
        /\ IsCheckout' = IsCheckout /\ IsProject' = IsProject
    BY <2>1, TreeStays DEF WalkInv, CleanupTypeOK, WellFormed, files
  <2>3. \A s \in stood : Sought(s) => Sought(s)'
    BY <2>1 DEF Sought, Coming
  <2>4. Current => Current'
    BY <2>1 DEF Current, At
  <2>5. (Placed => Placed') /\ (Ruled => Ruled')
    BY <2>1, <2>2 DEF Placed, Ruled
  <2> QED
    BY <2>1, <2>2, <2>3, <2>4, <2>5 DEF WalkInv, CheckedIsRight, StaysAreSeen, RefusedForCause
<1> QED
  BY <1>1, <1>2, CallBegins, LocateCheckoutKeeps, JudgeContainerKeeps, LsFilesKeeps, OpenKeeps,
     ExamineKeeps, CheckedKeeps, OthersMove, LeaveKeeps DEF CleanupNext

\* The invariant of the check of a deletion.
THEOREM WalkInvariance == CleanupSpec => []WalkInv
<1> QED
  BY InitWalk, NextWalk, PTL DEF CleanupSpec

\* For any tree and any target, and whatever others create, delete or replace meanwhile:
\* no tree passes with an asset that was there from the beginning of the check to its end,
\* and none is refused without one unless something moves or could not be inspected.
THEOREM ChecksAreRight == CleanupSpec => []CheckedIsRight
<1>1. WalkInv => CheckedIsRight
  BY DEF WalkInv
<1> QED
  BY <1>1, WalkInvariance, PTL

\* The values of the worktrees, of the hook call beside them and of the check of a deletion
\* stay in their ranges.
THEOREM HookTypes == GateSpec /\ CleanupSpec => []GateTypeOK
<1>1. GateSpec => []Marks
  <2>1. HookInit => Marks
    BY DEF HookInit, Marks, Places
  <2> QED
    BY <2>1, NextMarks, GateInvariance, PTL DEF GateSpec
<1>2. Marks /\ GateInv => HookTypeOK
  <2> SUFFICES ASSUME Marks, GateInv PROVE HookTypeOK
    OBVIOUS
  <2>1. call \in Operations \cup {NoCall} /\ item \in Nat
    BY OperationTypes DEF GateInv, Standing
  <2>2. against \subseteq ever
    BY DEF GateInv, Standing, Observed
  <2> QED
    BY <2>1, <2>2 DEF Marks, HookTypeOK, GateInv, Standing
<1>3. WalkInv => CleanupTypeOK
  BY DEF WalkInv
<1> QED
  BY <1>1, <1>2, <1>3, GateInvariance, WalkInvariance, HookOnlyReads, WorktreeTypes, PTL
     DEF GateTypeOK
=============================================================================
