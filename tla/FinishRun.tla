------------------------------ MODULE FinishRun ------------------------------
(***************************************************************************)
(* One Finish check of application/finish_execution.py: an invocation owns  *)
(* a run id, executes the checks of STEPS one after the other, persists     *)
(* every change of its record by atomic replacement, and holds an OS lock   *)
(* while it executes.  Queries read the record, probe the lock and read     *)
(* again; they never write.  On Windows the probe takes the lock itself, so *)
(* that two of them exclude each other.                                     *)
(*                                                                          *)
(* Any save may fail, any invocation may be cancelled, interrupted or die   *)
(* between two steps, and several invocations may ask for one run id.       *)
(* Steps are numbered as in STEPS; TaskDiff is its first member.  Times,    *)
(* messages, outputs and the paths named by findings are left out.          *)
(***************************************************************************)
EXTENDS Integers, FiniteSets

CONSTANTS
    Invocations,  \* calls of run_finish, each in a thread of some process
    Queries,      \* calls of query_execution
    RunIds,       \* the UUIDs they may name
    NoOne,        \* "nobody holds this lock"
    N,            \* how many checks a run executes (len(STEPS))
    Commands,     \* the checks that run a command of the project
    Tools,        \* those of them that may find their tool missing or misconfigured
    Skippable,    \* the checks that may report they had nothing to do
    Exclusive     \* the probe of a query takes the lock for itself (Windows)

TaskDiff == 1

ASSUME ConstantsAssumption ==
    /\ NoOne \notin Invocations
    /\ N \in Nat /\ N >= 1
    /\ Commands \subseteq 2..N /\ Tools \subseteq Commands
    /\ Skippable \subseteq 2..N
    /\ Exclusive \in BOOLEAN

STEPS == 1..N
Terminal == {"completed", "failed", "timed_out", "cancelled", "unavailable"}
Errors == {"cancelled", "interrupt", "timed_out", "unavailable", "failed"}
Finished == {"passed", "failed", "skipped"}
StepStatus == {"not_run", "running", "interrupted", "passed", "skipped"} \cup Terminal

Record == [status : {"running"} \cup Terminal,
           decision : {"none", "allowed", "blocked"},
           steps : [STEPS -> StepStatus],
           pids : SUBSET STEPS,
           owner : Invocations]
NoRecord == [status |-> "absent"]

VARIABLES
    pc,          \* where each invocation stands
    run,         \* the run id it was called with
    mem,         \* self.record: its record in memory
    current,     \* self.current: the last check it began (0: none)
    blocked,     \* some finding so far is blocking
    err,         \* the exception on its way to end(error=...)
    cancel,      \* its cancellation event
    child,       \* the process of its current command
    left,        \* the checks whose processes it, or its death, left without seeing them end
    outcome,     \* what the caller got
    disk,        \* the record file of each run id
    lockFile,    \* the run ids whose .lock file exists
    lockHolder,  \* who holds the OS lock on that file
    dirLock,     \* who holds check-runs/.lock
    qpc, qrun, qres  \* a query's place, its run id, its answer

recordVars == <<mem, disk>>
lockVars == <<lockFile, lockHolder, dirLock>>
processVars == <<child, left>>
controlVars == <<current, blocked, err, processVars>>
queryVars == <<qpc, qrun, qres>>
vars == <<pc, run, recordVars, controlVars, cancel, outcome, lockVars, queryVars>>

Idle == "idle"
Operating == {"operation", "spawned", "armed", "commanding"}
Owning == {"ready", "stepped", "ending"} \cup Operating
Holding == {"saving", "closing"} \cup Owning
Active == {"entering", "creating", "locking", "returning"} \cup Holding
Ended == {"returned", "dead"}

NewRecord(i) == [status |-> "running", decision |-> "none",
                 steps |-> [k \in STEPS |-> "not_run"], pids |-> {}, owner |-> i]

TypeOK ==
    /\ pc \in [Invocations -> {Idle} \cup Active \cup Ended]
    /\ run \in [Invocations -> RunIds]
    /\ mem \in [Invocations -> Record]
    /\ current \in [Invocations -> 0..N]
    /\ blocked \in [Invocations -> BOOLEAN]
    /\ err \in [Invocations -> {"none"} \cup Errors]
    /\ cancel \in [Invocations -> BOOLEAN]
    /\ child \in [Invocations -> {"none", "waiting", "running"}]
    /\ left \in [Invocations -> SUBSET (0..N)]
    /\ outcome \in [Invocations -> {"none", "refused", "exists", "write_failed", "raised",
                                   "running"} \cup Terminal]
    /\ disk \in [RunIds -> Record \cup {NoRecord}]
    /\ lockFile \in SUBSET RunIds
    /\ lockHolder \in [RunIds -> Invocations \cup {NoOne}]
    /\ dirLock \in Invocations \cup {NoOne}
    /\ qpc \in [Queries -> {Idle, "read", "probe", "held", "reread", "answered"}]
    /\ qrun \in [Queries -> RunIds]
    /\ qres \in [Queries -> {"none", "not_found", "running", "interrupted", "unavailable",
                             "liveness_unavailable"} \cup Terminal]

Init ==
    /\ pc = [i \in Invocations |-> Idle]
    /\ run \in [Invocations -> RunIds]
    /\ mem = [i \in Invocations |-> NewRecord(i)]
    /\ current = [i \in Invocations |-> 0]
    /\ blocked = [i \in Invocations |-> FALSE]
    /\ err = [i \in Invocations |-> "none"]
    /\ cancel = [i \in Invocations |-> FALSE]
    /\ child = [i \in Invocations |-> "none"]
    /\ left = [i \in Invocations |-> {}]
    /\ outcome = [i \in Invocations |-> "none"]
    /\ disk = [r \in RunIds |-> NoRecord]
    /\ lockFile = {}
    /\ lockHolder = [r \in RunIds |-> NoOne]
    /\ dirLock = NoOne
    /\ qpc = [q \in Queries |-> Idle]
    /\ qrun \in [Queries -> RunIds]
    /\ qres = [q \in Queries |-> "none"]

Goto(i, from, to) == pc[i] = from /\ pc' = [pc EXCEPT ![i] = to]

\* save(): the file holds the old record or the new one, never a part of it.
Save(i, rec) == disk' = [disk EXCEPT ![run[i]] = rec]

Return(i, from, what) ==
    /\ Goto(i, from, "returned")
    /\ outcome' = [outcome EXCEPT ![i] = what]

\* Mutants: a lock that is never released.
KeepLock(i) == UNCHANGED lockHolder
KeepDirectory(i) == UNCHANGED dirLock

\* close() of the execution lock; also what the OS does when its process dies.
Unlock(i) == lockHolder' = [r \in RunIds |-> IF lockHolder[r] = i THEN NoOne ELSE lockHolder[r]]
LeaveDirectory(i) == dirLock' = IF dirLock = i THEN NoOne ELSE dirLock

\* run_owned kills the whole tree it owns and waits until it is gone.
Reclaim(i) == child' = [child EXCEPT ![i] = "none"] /\ UNCHANGED left

\* It gives up, or dies: a command lives on; a bootstrap that still waits for its
\* payload reads end of file and exits.
Abandon(i) ==
    /\ child' = [child EXCEPT ![i] = "none"]
    /\ left' = [left EXCEPT ![i] = IF child[i] = "running" THEN @ \cup {current[i]} ELSE @]

-----------------------------------------------------------------------------
(***************************************************************************)
(* The constructor: claim the run id.                                       *)
(***************************************************************************)

\* The record's paths are ignored and untracked, so the run may be created.
Call(i) ==
    /\ Goto(i, Idle, "entering")
    /\ UNCHANGED <<run, recordVars, controlVars, cancel, outcome, lockVars, queryVars>>

\* RUN_PATH_NOT_IGNORED and the like: refused before any file is touched.
Refuse(i) ==
    /\ Return(i, Idle, "refused")
    /\ UNCHANGED <<run, recordVars, controlVars, cancel, lockVars, queryVars>>

\* Mutant: the directory is not locked while the run id is checked and claimed.
EnterUnlocked(i) ==
    /\ Goto(i, "entering", "creating")
    /\ UNCHANGED <<run, recordVars, controlVars, cancel, outcome, lockVars, queryVars>>

EnterDirectory(i) ==
    /\ dirLock = NoOne
    /\ Goto(i, "entering", "creating")
    /\ dirLock' = i
    /\ UNCHANGED <<run, recordVars, controlVars, cancel, outcome, lockFile, lockHolder, queryVars>>

RunIdTaken(i) == disk[run[i]] # NoRecord \/ run[i] \in lockFile

RunIdExists(i) ==
    /\ RunIdTaken(i)
    /\ Return(i, "creating", "exists")
    /\ LeaveDirectory(i)
    /\ UNCHANGED <<run, recordVars, controlVars, cancel, lockFile, lockHolder, queryVars>>

RunIdFree(i) ==
    /\ ~RunIdTaken(i)
    /\ Goto(i, "creating", "locking")
    /\ UNCHANGED <<run, recordVars, controlVars, cancel, outcome, lockVars, queryVars>>

\* open("x+b") creates the file or fails; the OS lock is taken on the new handle.
CreateLock(i) ==
    /\ run[i] \notin lockFile
    /\ Goto(i, "locking", "saving")
    /\ lockFile' = lockFile \cup {run[i]}
    /\ lockHolder' = [lockHolder EXCEPT ![run[i]] = i]
    /\ UNCHANGED <<run, recordVars, controlVars, cancel, outcome, dirLock, queryVars>>

\* The lock file cannot be opened, written or locked; it may have been created.
CreateLockFails(i) ==
    /\ Return(i, "locking", "write_failed")
    /\ lockFile' \in {lockFile, lockFile \cup {run[i]}}
    /\ LeaveDirectory(i)
    /\ UNCHANGED <<run, recordVars, controlVars, cancel, lockHolder, queryVars>>

FirstSave(i) ==
    /\ Goto(i, "saving", "ready")
    /\ Save(i, mem[i])
    /\ LeaveDirectory(i)
    /\ UNCHANGED <<run, mem, controlVars, cancel, outcome, lockFile, lockHolder, queryVars>>

\* The handle is closed, its file stays: this run id can never be used again.
FirstSaveFails(i) ==
    /\ Return(i, "saving", "write_failed")
    /\ Unlock(i)
    /\ LeaveDirectory(i)
    /\ UNCHANGED <<run, recordVars, controlVars, cancel, lockFile, queryVars>>

-----------------------------------------------------------------------------
(***************************************************************************)
(* step(): one check, from its first save to its last.                      *)
(***************************************************************************)

SetStep(rec, k, status) == [rec EXCEPT !.steps[k] = status]

Raise(i, e) ==
    /\ pc' = [pc EXCEPT ![i] = "ending"]
    /\ err' = [err EXCEPT ![i] = e]

StepBegins(i) ==
    /\ pc[i] = "ready" /\ current[i] < N /\ ~cancel[i]
    /\ current' = [current EXCEPT ![i] = @ + 1]
    /\ LET rec == SetStep(mem[i], current[i] + 1, "running") IN
       /\ mem' = [mem EXCEPT ![i] = rec]
       /\ \/ /\ Save(i, rec)
             /\ pc' = [pc EXCEPT ![i] = "operation"]
             /\ UNCHANGED err
          \/ /\ Raise(i, "failed")
             /\ UNCHANGED disk
    /\ UNCHANGED <<run, blocked, processVars, cancel, outcome, lockVars, queryVars>>

\* Raised before self.current names the next check.
CancelledBeforeStep(i) ==
    /\ pc[i] = "ready" /\ current[i] < N /\ cancel[i]
    /\ Raise(i, "cancelled")
    /\ UNCHANGED <<run, recordVars, current, blocked, processVars, cancel, outcome, lockVars,
                   queryVars>>

\* run_owned has a bootstrap waiting for its payload and calls on_spawn.
SpawnCommand(i) ==
    /\ Goto(i, "operation", "spawned")
    /\ current[i] \in Commands
    /\ child' = [child EXCEPT ![i] = "waiting"]
    /\ mem' = [mem EXCEPT ![i].pids = @ \cup {current[i]}]
    /\ UNCHANGED <<run, disk, current, blocked, err, left, cancel, outcome, lockVars, queryVars>>

\* Mutant: on_spawn does not save the record.
ForgetPid(i) ==
    /\ Goto(i, "spawned", "armed")
    /\ UNCHANGED <<run, recordVars, controlVars, cancel, outcome, lockVars, queryVars>>

PersistPid(i) ==
    /\ Goto(i, "spawned", "armed")
    /\ Save(i, mem[i])
    /\ UNCHANGED <<run, mem, controlVars, cancel, outcome, lockVars, queryVars>>

\* The tree is killed before the error is passed on; when that is refused too, the
\* refusal replaces it.
PersistPidFails(i) ==
    /\ pc[i] = "spawned"
    /\ \E e \in {"failed", "unavailable"} : Raise(i, e)
    /\ mem' = [mem EXCEPT ![i] = SetStep(@, current[i], "interrupted")]
    /\ Reclaim(i)
    /\ UNCHANGED <<run, disk, current, blocked, cancel, outcome, lockVars, queryVars>>

\* The payload is written; run_owned looked at the cancellation event first.
CommandStarts(i) ==
    /\ Goto(i, "armed", "commanding")
    /\ ~cancel[i]
    /\ child' = [child EXCEPT ![i] = "running"]
    /\ UNCHANGED <<run, recordVars, current, blocked, err, left, cancel, outcome, lockVars,
                   queryVars>>

\* What a check that returned may have found, as the step status it gives: a check
\* that needs a command passes only by running it.
Findings(i) ==
    LET k == current[i]
        ran == pc[i] = "commanding" IN
    (IF k \in Commands /\ ~ran THEN {} ELSE {"passed"})
    \cup (IF k = TaskDiff \/ (k \in Commands \ Tools /\ ~ran) THEN {} ELSE {"failed"})
    \cup (IF k \in Skippable /\ ~ran THEN {"skipped"} ELSE {})
    \cup (IF k \in Tools THEN {"tool_unavailable"} ELSE {})
\* A finding that a tool is unavailable is blocking, so its check has failed.
StatusOf(result) == IF result = "tool_unavailable" THEN "failed" ELSE result

Returning(i) == pc[i] \in {"operation", "commanding"}

\* The check is over: its status is saved, and a save that fails stops the run.
Found(i, status, e) ==
    LET rec == SetStep(mem[i], current[i], status) IN
    /\ mem' = [mem EXCEPT ![i] = rec]
    /\ blocked' = [blocked EXCEPT ![i] = @ \/ status = "failed"]
    /\ \/ /\ Save(i, rec)
          /\ pc' = [pc EXCEPT ![i] = "stepped"]
          /\ err' = [err EXCEPT ![i] = e]
       \/ /\ Raise(i, "failed")
          /\ UNCHANGED disk

StepReturns(i) ==
    /\ Returning(i) /\ ~cancel[i]
    /\ \E result \in Findings(i) :
         Found(i, StatusOf(result), IF result = "tool_unavailable" THEN "unavailable" ELSE err[i])
    /\ Reclaim(i)
    /\ UNCHANGED <<run, current, cancel, outcome, lockVars, queryVars>>

\* process.wait gives up after five seconds.  Its TimeoutExpired replaces whatever was on
\* its way and becomes a finding of the check; the run goes on beside what may still live.
WaitGivesUp(i) ==
    /\ pc[i] \in {"spawned", "armed", "commanding"} /\ ~cancel[i]
    /\ Found(i, "failed", err[i])
    /\ Abandon(i)
    /\ UNCHANGED <<run, current, cancel, outcome, lockVars, queryVars>>

\* on_progress after the check: the adapter's callback raises once cancelled.
StepReported(i) ==
    /\ pc[i] = "stepped"
    /\ IF cancel[i] THEN Raise(i, "cancelled")
       ELSE /\ pc' = [pc EXCEPT ![i] = IF err[i] = "none" THEN "ready" ELSE "ending"]
            /\ UNCHANGED err
    /\ UNCHANGED <<run, recordVars, current, blocked, processVars, cancel, outcome, lockVars,
                   queryVars>>

\* The operation stops or raises.  run_owned has killed the tree it owns and waited for it,
\* or could not: then the error is that of the kill, of the wait, or of a cancellation seen
\* after the wait gave up, and never a command's timeout.
StepRaises(i) ==
    /\ pc[i] \in Operating \ {"spawned"}
    /\ \E e \in Errors :
         /\ e = "cancelled" => cancel[i]
         /\ Raise(i, e)
         /\ Reclaim(i) \/ (e # "timed_out" /\ Abandon(i))
    /\ mem' = [mem EXCEPT ![i] = SetStep(@, current[i], "interrupted")]
    /\ UNCHANGED <<run, disk, current, blocked, cancel, outcome, lockVars, queryVars>>

\* run_thin_checks turns an ordinary error of task_diff into one blocking finding.
TaskDiffFails(i) ==
    /\ Goto(i, "operation", "ending")
    /\ current[i] = TaskDiff
    /\ mem' = [mem EXCEPT ![i] = SetStep(@, TaskDiff, "interrupted")]
    /\ blocked' = [blocked EXCEPT ![i] = TRUE]
    /\ UNCHANGED <<run, disk, current, err, processVars, cancel, outcome, lockVars, queryVars>>

AllChecked(i) ==
    /\ Goto(i, "ready", "ending")
    /\ current[i] = N
    /\ UNCHANGED <<run, recordVars, controlVars, cancel, outcome, lockVars, queryVars>>

-----------------------------------------------------------------------------
(***************************************************************************)
(* end(): decide, persist once, release.                                    *)
(***************************************************************************)

\* Mutant: the name of an exception is recorded as it is.
RawStatus(e) == IF e = "none" THEN "completed" ELSE e

EndStatus(e) == CASE e = "none" -> "completed"
                  [] e = "interrupt" -> "cancelled"
                  [] OTHER -> e

\* Mutant: the decision forgets the findings of the checks.
MemoryDecides(i, memory) == IF memory THEN "allowed" ELSE "blocked"

\* memory: the caller says memory was written or is not needed.
Decision(i, memory) == IF memory /\ ~blocked[i] THEN "allowed" ELSE "blocked"

Concluded(i, e, memory) ==
    [mem[i] EXCEPT
       !.status = EndStatus(e),
       !.decision = IF e = "none" THEN Decision(i, memory) ELSE "none",
       !.steps = [k \in STEPS |-> IF e # "none" /\ k = current[i] THEN EndStatus(e) ELSE @[k]]]

\* Mutant: end() does not look whether the run has ended before.
AlwaysConcluded(i, e, memory) == Concluded(i, e, memory)

EndRecord(i, e, memory) ==
    IF mem[i].status # "running" THEN mem[i] ELSE Concluded(i, e, memory)

End(i) ==
    /\ Goto(i, "ending", "closing")
    /\ \E memory \in BOOLEAN :
         LET rec == EndRecord(i, err[i], memory) IN
         Save(i, rec) /\ mem' = [mem EXCEPT ![i] = rec]
    /\ outcome' = [outcome EXCEPT ![i] = IF err[i] = "interrupt" THEN "raised" ELSE @]
    /\ UNCHANGED <<run, controlVars, cancel, lockVars, queryVars>>

\* Mutant: a result that could not be saved is returned all the same.
EndSaveIgnored(i) ==
    /\ Goto(i, "ending", "closing")
    /\ mem' = [mem EXCEPT ![i] = EndRecord(i, err[i], TRUE)]
    /\ UNCHANGED <<run, disk, controlVars, cancel, outcome, lockVars, queryVars>>

\* A result that cannot be saved becomes the error of a second end(); when that
\* cannot be saved either, only the caller learns that the run failed.
EndSaveFails(i) ==
    /\ pc[i] = "ending"
    /\ IF err[i] = "none"
       THEN Raise(i, "failed") /\ UNCHANGED outcome
       ELSE /\ pc' = [pc EXCEPT ![i] = "closing"]
            /\ outcome' = [outcome EXCEPT ![i] = IF err[i] = "interrupt"
                                                 THEN "raised" ELSE "failed"]
            /\ UNCHANGED err
    /\ UNCHANGED <<run, recordVars, current, blocked, processVars, cancel, lockVars, queryVars>>

Close(i) ==
    /\ Goto(i, "closing", "returning")
    /\ Unlock(i)
    /\ UNCHANGED <<run, recordVars, controlVars, cancel, outcome, lockFile, dirLock, queryVars>>

\* An interrupt after the result was persisted calls end(error=...) once more.
LateError(i) ==
    /\ pc[i] \in {"closing", "returning"} /\ outcome[i] = "none"
    /\ Save(i, EndRecord(i, "interrupt", FALSE))
    /\ outcome' = [outcome EXCEPT ![i] = "raised"]
    /\ UNCHANGED <<pc, run, mem, controlVars, cancel, lockVars, queryVars>>

ReturnRecord(i) ==
    /\ Return(i, "returning", IF outcome[i] = "none" THEN mem[i].status ELSE outcome[i])
    /\ UNCHANGED <<run, recordVars, controlVars, cancel, lockVars, queryVars>>

-----------------------------------------------------------------------------
(***************************************************************************)
(* The environment of an invocation.                                        *)
(***************************************************************************)

Cancel(i) ==
    /\ pc[i] \in Active /\ ~cancel[i]
    /\ cancel' = [cancel EXCEPT ![i] = TRUE]
    /\ UNCHANGED <<pc, run, recordVars, controlVars, outcome, lockVars, queryVars>>

\* Its process dies, and the OS drops its locks.
Crash(i) ==
    /\ pc[i] \in Active
    /\ pc' = [pc EXCEPT ![i] = "dead"]
    /\ Abandon(i)
    /\ Unlock(i)
    /\ LeaveDirectory(i)
    /\ UNCHANGED <<run, recordVars, current, blocked, err, cancel, outcome, lockFile, queryVars>>

-----------------------------------------------------------------------------
(***************************************************************************)
(* query_execution().                                                       *)
(***************************************************************************)

Answer(q, what) ==
    /\ qpc' = [qpc EXCEPT ![q] = "answered"]
    /\ qres' = [qres EXCEPT ![q] = what]

invocationVars == <<pc, run, recordVars, controlVars, cancel, outcome, lockVars>>

Ask(q) ==
    /\ qpc[q] = Idle
    /\ qpc' = [qpc EXCEPT ![q] = "read"]
    /\ UNCHANGED <<invocationVars, qrun, qres>>

ReadRecord(q) ==
    /\ qpc[q] = "read"
    /\ LET found == disk[qrun[q]].status IN
       \/ found = "absent" /\ Answer(q, "not_found")
       \/ found \in Terminal /\ Answer(q, found)
       \/ /\ found = "running"
          /\ qpc' = [qpc EXCEPT ![q] = "probe"]
          /\ UNCHANGED qres
    /\ UNCHANGED <<invocationVars, qrun>>

\* Mutants: the owner is not looked for; a race is answered without a second look.
ProbeNothing(q) ==
    /\ qpc[q] = "probe"
    /\ qpc' = [qpc EXCEPT ![q] = "reread"]
    /\ UNCHANGED <<invocationVars, qrun, qres>>
RereadNothing(q) ==
    /\ qpc[q] = "reread"
    /\ Answer(q, "interrupted")
    /\ UNCHANGED <<invocationVars, qrun>>

\* A non-blocking lock attempt that never writes: it fails when somebody holds the lock,
\* the owner or, where the attempt is exclusive, another query that is about to let go.
Colliding(q) == Exclusive /\ \E p \in Queries \ {q} : qpc[p] = "held" /\ qrun[p] = qrun[q]

Probe(q) ==
    /\ qpc[q] = "probe"
    /\ IF lockHolder[qrun[q]] # NoOne \/ Colliding(q) THEN Answer(q, "running")
       ELSE qpc' = [qpc EXCEPT ![q] = "held"] /\ UNCHANGED qres
    /\ UNCHANGED <<invocationVars, qrun>>

LetGo(q) ==
    /\ qpc[q] = "held"
    /\ qpc' = [qpc EXCEPT ![q] = "reread"]
    /\ UNCHANGED <<invocationVars, qrun, qres>>

ProbeFails(q) ==
    /\ qpc[q] = "probe"
    /\ Answer(q, "liveness_unavailable")
    /\ UNCHANGED <<invocationVars, qrun>>

\* A terminal record that won the race is read again from the start.
Reread(q) ==
    /\ qpc[q] = "reread"
    /\ \/ disk[qrun[q]].status = "running" /\ Answer(q, "interrupted")
       \/ /\ disk[qrun[q]].status # "running"
          /\ qpc' = [qpc EXCEPT ![q] = "read"]
          /\ UNCHANGED qres
    /\ UNCHANGED <<invocationVars, qrun>>

-----------------------------------------------------------------------------
Claim(i) == EnterDirectory(i) \/ RunIdExists(i) \/ RunIdFree(i) \/ CreateLock(i)
            \/ CreateLockFails(i) \/ FirstSave(i) \/ FirstSaveFails(i)
Check(i) == StepBegins(i) \/ CancelledBeforeStep(i) \/ SpawnCommand(i) \/ PersistPid(i)
            \/ PersistPidFails(i) \/ CommandStarts(i) \/ StepReturns(i) \/ WaitGivesUp(i)
            \/ StepReported(i) \/ StepRaises(i) \/ TaskDiffFails(i) \/ AllChecked(i)
Conclude(i) == End(i) \/ EndSaveFails(i) \/ Close(i) \/ ReturnRecord(i)
Progress(i) == Claim(i) \/ Check(i) \/ Conclude(i)
Query(q) == ReadRecord(q) \/ Probe(q) \/ LetGo(q) \/ ProbeFails(q) \/ Reread(q)

\* Every call has been made and has ended: nothing is left to happen.
AllEnded ==
    /\ \A i \in Invocations : pc[i] \in Ended
    /\ \A q \in Queries : qpc[q] = "answered"
    /\ UNCHANGED vars

Next ==
    \/ \E i \in Invocations :
         Call(i) \/ Refuse(i) \/ Progress(i) \/ LateError(i) \/ Cancel(i) \/ Crash(i)
    \/ \E q \in Queries : Ask(q) \/ Query(q)
    \/ AllEnded

Spec == Init /\ [][Next]_vars

\* A thread keeps running, an operation is bounded by its timeouts, and a query is
\* straight-line code.  Nothing forces a call, a cancellation or a crash.
Fairness ==
    /\ \A i \in Invocations : WF_vars(Progress(i))
    /\ \A q \in Queries : WF_vars(Query(q))
FairSpec == Spec /\ Fairness

-----------------------------------------------------------------------------
(***************************************************************************)
(* Safety.                                                                  *)
(***************************************************************************)

\* An answer a query gave is never taken back.  "interrupted" says the owner ended
\* without a persisted result, so none may ever appear; a result once reported is
\* the result of the run for good (query_execution reads, probes and reads again;
\* end() releases the lock only after the last save).
AnswersStand ==
    \A q \in Queries :
      /\ qres[q] = "interrupted" => disk[qrun[q]].status = "running"
      /\ qres[q] \in Terminal => disk[qrun[q]].status = qres[q]

\* A record that reached a result never changes again: not by a late interrupt, a
\* second end() or another invocation naming the same run id.
TerminalIsFinal ==
    [][\A r \in RunIds : disk[r].status \in Terminal => disk'[r] = disk[r]]_disk

\* A record says "allowed" only when the run completed, every check passed or had
\* nothing to do, and each check that needs a command has its process on record.
AllowedMeansChecked ==
    \A r \in RunIds : disk[r].status # "absent" /\ disk[r].decision = "allowed" =>
      /\ disk[r].status = "completed"
      /\ \A k \in STEPS : disk[r].steps[k] \in {"passed", "skipped"}
      /\ \A k \in Commands : disk[r].steps[k] = "passed" => k \in disk[r].pids

\* What the caller is told is what the disk says, except "failed", which is also how
\* run_finish reports that the result could not be persisted.
ReturnedIsPersisted ==
    \A i \in Invocations : pc[i] = "returned" /\ outcome[i] \in Terminal \ {"failed"} =>
      disk[run[i]].status = outcome[i] /\ disk[run[i]].owner = i

\* The checks of an invocation with a process that runs or was never seen to end.
Unreclaimed(i) == left[i] \cup {k \in STEPS : child[i] = "running" /\ k = current[i]}

\* No project command ever runs before its process is in the persisted record of the
\* invocation that owns it, whatever save failed and whoever died; and as long as its
\* processes may live, whether the run goes on, answered or died, that record never has the
\* check as done (so AllowedMeansChecked keeps the run from being allowed).  A run that says
\* "timed_out" has seen the processes of that check end: run_owned reclaims the tree first.
CommandsAreOwned ==
    \A i \in Invocations :
      /\ \A k \in Unreclaimed(i) :
           /\ disk[run[i]].status # "absent"
           /\ disk[run[i]].owner = i
           /\ k \in disk[run[i]].pids
           /\ disk[run[i]].steps[k] \notin {"passed", "skipped"}
      /\ err[i] = "timed_out" => current[i] \notin left[i]

\* Two callers of one run id: the second is told RUN_ID_EXISTS.  Exclusive creation
\* of the lock file never is what stops it.
DuplicateIsNamed ==
    \A i \in Invocations : pc[i] = "locking" => run[i] \notin lockFile

\* An invocation that returned or died holds no lock, so no later query calls its
\* run "running" and no later caller waits for it.
EndedHoldsNothing ==
    \A i \in Invocations : pc[i] \in Ended =>
      dirLock # i /\ \A r \in RunIds : lockHolder[r] # i

\* GOVERNANCE_RULES.md says an unfinished Finish keeps its completed checks on
\* record.  end(error=...) marks self.current, which names a check already passed.
CompletedStepsPreserved ==
    [][\A r \in RunIds : disk[r].status # "absent" =>
         \A k \in STEPS : disk[r].steps[k] = "passed" => disk'[r].steps[k] = "passed"]_disk

(***************************************************************************)
(* Liveness.                                                                *)
(***************************************************************************)

\* Every call of run_finish ends, whoever else holds the directory lock or died with it,
\* and every query is answered: its retry after a lost race happens at most once.
EveryCallEnds ==
    /\ \A i \in Invocations : pc[i] \in Active ~> pc[i] \in Ended
    /\ \A q \in Queries : qpc[q] = "read" ~> qpc[q] = "answered"

-----------------------------------------------------------------------------
(***************************************************************************)
(* Refinement: what a run id's record and lock mean to those who ask.       *)
(***************************************************************************)
StateOf(r) ==
    LET status == disk[r].status IN
    IF status # "running" THEN status
    ELSE IF lockHolder[r] # NoOne THEN "open" ELSE "lost"

PlaceOf(q) == CASE qpc[q] = "read" -> "asking"
                [] qpc[q] \in {"probe", "held", "reread"} -> "undecided"
                [] OTHER -> qpc[q]

Promise == INSTANCE FinishPromise WITH
    Results <- Terminal,
    Collide <- Exclusive,
    state <- [r \in RunIds |-> StateOf(r)],
    place <- [q \in Queries |-> PlaceOf(q)],
    asked <- qrun,
    answer <- qres

\* The records, locks and queries together keep the promise of FinishPromise: one
\* result or none per run, and answers that agree with it.
KeepsPromise == Promise!Spec

\* The call of run_owned an invocation makes for one check; its process is on record when
\* the file says so, and the invocation says that it failed in what it records of the check.
CallerOf(i, k) == CASE pc[i] = "dead" -> "dead"
                    [] pc[i] \in {"spawned", "armed", "commanding"} /\ k = current[i] -> "calling"
                    [] OTHER -> Idle

OnRecord(i, k) ==
    disk[run[i]].status # "absent" /\ disk[run[i]].owner = i /\ k \in disk[run[i]].pids

TreeOf(i, k) ==
    IF k \in Unreclaimed(i) THEN "running"
    ELSE IF child[i] # "waiting" \/ k # current[i] THEN "none"
    ELSE IF OnRecord(i, k) THEN "recorded" ELSE "waiting"

SaidFailed(i, k) == mem[i].steps[k] \in (Terminal \ {"completed"}) \cup {"interrupted"}

Command(i, k) == INSTANCE CommandPromise WITH
    at <- CallerOf(i, k), tree <- TreeOf(i, k), failed <- SaidFailed(i, k)

\* What OwnedCommand keeps is what Finish relies on and keeps: no command of any invocation
\* starts off record, and none is left behind but by a death, or under a check whose record
\* says that it failed.
CommandsKeepPromise == \A i \in Invocations, k \in Commands : Command(i, k)!Spec
==============================================================================
