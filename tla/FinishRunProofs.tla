--------------------------- MODULE FinishRunProofs ---------------------------
(***************************************************************************)
(* Proofs about FinishRun, for any number of invocations, queries, run ids  *)
(* and checks.                                                              *)
(***************************************************************************)
EXTENDS FinishRun, TLAPS

USE DEF vars, recordVars, lockVars, processVars, controlVars, queryVars, invocationVars, Goto, Return,
        Idle, Active, Ended, Holding, Owning, Operating, STEPS, TaskDiff

-----------------------------------------------------------------------------
(***************************************************************************)
(* Records.                                                                 *)
(***************************************************************************)

\* Setting the status of a check of a record gives a record.
LEMMA SetStepRecord ==
    ASSUME NEW rec \in Record, NEW k, NEW s \in StepStatus
    PROVE  SetStep(rec, k, s) \in Record
  BY DEF SetStep, Record

\* Recording the process of a check in a record gives a record.
LEMMA AddPidRecord ==
    ASSUME NEW rec \in Record, NEW k \in STEPS
    PROVE  [rec EXCEPT !.pids = @ \cup {k}] \in Record
  BY DEF Record

\* The record a run starts with is a record.
LEMMA NewRecordRecord == ASSUME NEW i \in Invocations PROVE NewRecord(i) \in Record
  BY DEF NewRecord, Record, StepStatus

\* A record is running or has a result.
LEMMA RecordStatus ==
    ASSUME NEW rec \in Record
    PROVE  rec.status \in {"running"} \cup Terminal /\ rec.status # "absent"
  BY DEF Record, Terminal

\* A run id without a record is told from one with a record by its status.
LEMMA AbsentStatus ==
    ASSUME TypeOK, NEW r \in RunIds
    PROVE  /\ disk[r] = NoRecord <=> disk[r].status = "absent"
           /\ disk[r] # NoRecord => disk[r] \in Record
  BY DEF TypeOK, Record, NoRecord, Terminal

\* end() turns a record into a record.
LEMMA EndRecordRecord ==
    ASSUME TypeOK, NEW i \in Invocations, NEW e \in {"none"} \cup Errors, NEW m \in BOOLEAN
    PROVE  EndRecord(i, e, m) \in Record
  <1>1. EndStatus(e) \in Terminal
    BY DEF EndStatus, Errors, Terminal
  <1>2. Decision(i, m) \in {"none", "allowed", "blocked"}
    BY DEF Decision
  <1>3. mem[i] \in Record
    BY DEF TypeOK
  <1>4. Concluded(i, e, m) \in Record
    BY <1>1, <1>2, <1>3 DEF Concluded, Record, StepStatus
  <1> QED
    BY <1>3, <1>4 DEF EndRecord

-----------------------------------------------------------------------------
(***************************************************************************)
(* Type correctness.                                                        *)
(***************************************************************************)

LEMMA ClaimTypeOK ==
    ASSUME TypeOK, NEW i \in Invocations, Call(i) \/ Refuse(i) \/ Claim(i)
    PROVE  TypeOK'
  <1>1. CASE Call(i) \/ Refuse(i) \/ EnterDirectory(i)
    BY <1>1 DEF TypeOK, Call, Refuse, EnterDirectory
  <1>2. CASE RunIdExists(i) \/ RunIdFree(i)
    BY <1>2 DEF TypeOK, RunIdExists, RunIdFree, LeaveDirectory
  <1>3. CASE CreateLock(i) \/ CreateLockFails(i)
    BY <1>3 DEF TypeOK, CreateLock, CreateLockFails, LeaveDirectory
  <1>4. CASE FirstSave(i) \/ FirstSaveFails(i)
    BY <1>4 DEF TypeOK, FirstSave, FirstSaveFails, LeaveDirectory, Unlock, Save
  <1> QED
    BY <1>1, <1>2, <1>3, <1>4 DEF Claim

\* The processes of an invocation, whether it saw them end or not.
LEMMA GiveUpTypeOK ==
    ASSUME TypeOK, NEW i \in Invocations, Reclaim(i) \/ Abandon(i)
    PROVE  /\ child' \in [Invocations -> {"none", "waiting", "running"}]
           /\ left' \in [Invocations -> SUBSET (0..N)]
  BY DEF TypeOK, Reclaim, Abandon

\* A check that is over has a status, and so has its run if it stops.
LEMMA ReturnFinds ==
    ASSUME TypeOK, NEW i \in Invocations, StepReturns(i) \/ WaitGivesUp(i)
    PROVE  \E status \in Finished, e \in {"none"} \cup Errors :
             /\ Found(i, status, e) /\ e \in {err[i], "unavailable"}
             /\ WaitGivesUp(i) => status = "failed"
             /\ ~WaitGivesUp(i) => \E result \in Findings(i) : status = StatusOf(result)
  <1>1. err[i] \in {"none"} \cup Errors
    BY DEF TypeOK
  <1>2. CASE WaitGivesUp(i)
    BY <1>1, <1>2 DEF WaitGivesUp, Finished
  <1>3. CASE StepReturns(i) /\ ~WaitGivesUp(i)
    <2>1. \A result \in Findings(i) : StatusOf(result) \in Finished
      BY DEF Findings, StatusOf, Finished
    <2> QED
      BY <1>1, <1>3, <2>1 DEF StepReturns, Errors
  <1> QED
    BY <1>2, <1>3

LEMMA FoundTypeOK ==
    ASSUME TypeOK, NEW i \in Invocations, NEW status \in Finished, NEW e \in {"none"} \cup Errors,
           Found(i, status, e)
    PROVE  /\ mem' \in [Invocations -> Record] /\ disk' \in [RunIds -> Record \cup {NoRecord}]
           /\ pc' \in [Invocations -> {Idle} \cup Active \cup Ended]
           /\ err' \in [Invocations -> {"none"} \cup Errors]
           /\ blocked' \in [Invocations -> BOOLEAN]
  <1> DEFINE rec == SetStep(mem[i], current[i], status)
  <1>1. rec \in Record
    BY SetStepRecord DEF TypeOK, StepStatus, Finished, Terminal
  <1>2. /\ mem' = [mem EXCEPT ![i] = rec]
        /\ blocked' = [blocked EXCEPT ![i] = @ \/ status = "failed"]
        /\ \/ /\ disk' = [disk EXCEPT ![run[i]] = rec]
              /\ pc' = [pc EXCEPT ![i] = "stepped"]
              /\ err' = [err EXCEPT ![i] = e]
           \/ /\ pc' = [pc EXCEPT ![i] = "ending"] /\ err' = [err EXCEPT ![i] = "failed"]
              /\ disk' = disk
    BY DEF Found, Save, Raise
  <1> HIDE DEF rec
  <1>3. mem' \in [Invocations -> Record]
    BY <1>1, <1>2 DEF TypeOK
  <1>a. disk' = disk \/ disk' = [disk EXCEPT ![run[i]] = rec]
    BY <1>2
  <1>6. disk' \in [RunIds -> Record \cup {NoRecord}]
    <2> DEFINE R == Record \cup {NoRecord}
    <2>1. disk \in [RunIds -> R] /\ run[i] \in RunIds /\ rec \in R
      BY <1>1 DEF TypeOK
    <2> HIDE DEF R
    <2>2. disk' \in [RunIds -> R]
      BY <1>a, <2>1
    <2> QED
      BY <2>2 DEF R
  <1>4. blocked' \in [Invocations -> BOOLEAN]
    BY <1>2 DEF TypeOK
  <1>5. /\ pc' \in [Invocations -> {Idle} \cup Active \cup Ended]
        /\ err' \in [Invocations -> {"none"} \cup Errors]
    BY <1>2 DEF TypeOK, Errors
  <1> QED
    BY <1>3, <1>4, <1>5, <1>6

LEMMA CheckTypeOK ==
    ASSUME TypeOK, NEW i \in Invocations, Check(i)
    PROVE  TypeOK'
  <1> USE ConstantsAssumption
  <1>1. CASE StepBegins(i)
    <2> DEFINE rec == SetStep(mem[i], current[i] + 1, "running")
    <2>1. current[i] + 1 \in STEPS
      BY <1>1 DEF StepBegins, TypeOK
    <2>2. rec \in Record
      BY <2>1, SetStepRecord DEF TypeOK, StepStatus
    <2> QED
      BY <1>1, <2>1, <2>2 DEF TypeOK, StepBegins, Save, Raise, Errors
  <1>2. CASE CancelledBeforeStep(i) \/ StepReported(i) \/ AllChecked(i)
    BY <1>2 DEF TypeOK, CancelledBeforeStep, StepReported, AllChecked, Raise, Errors
  <1>3. CASE SpawnCommand(i)
    <2>1. current[i] \in STEPS
      BY <1>3 DEF SpawnCommand
    <2>2. [mem[i] EXCEPT !.pids = @ \cup {current[i]}] \in Record
      BY <2>1, AddPidRecord DEF TypeOK
    <2>3. mem' \in [Invocations -> Record]
      BY <1>3, <2>2 DEF TypeOK, SpawnCommand
    <2> QED
      BY <1>3, <2>3 DEF TypeOK, SpawnCommand
  <1>4. CASE PersistPid(i)
    <2>1. mem[i] \in Record
      BY DEF TypeOK
    <2> QED
      BY <1>4, <2>1 DEF TypeOK, PersistPid, Save
  <1>8. CASE CommandStarts(i)
    BY <1>8 DEF TypeOK, CommandStarts
  <1>5. CASE PersistPidFails(i) \/ StepRaises(i)
    <2> DEFINE rec == SetStep(mem[i], current[i], "interrupted")
    <2>1. rec \in Record
      BY SetStepRecord DEF TypeOK, StepStatus
    <2>2. mem' = [mem EXCEPT ![i] = rec]
      BY <1>5 DEF PersistPidFails, StepRaises
    <2> HIDE DEF rec
    <2>3. mem' \in [Invocations -> Record]
      BY <2>1, <2>2 DEF TypeOK
    <2>4. PICK e \in Errors : Raise(i, e)
      BY <1>5 DEF PersistPidFails, StepRaises, Errors
    <2>5. /\ pc' \in [Invocations -> {Idle} \cup Active \cup Ended]
          /\ err' \in [Invocations -> {"none"} \cup Errors]
      BY <2>4 DEF TypeOK, Raise
    <2>6. Reclaim(i) \/ Abandon(i)
      BY <1>5 DEF PersistPidFails, StepRaises
    <2> QED
      BY <1>5, <2>3, <2>5, <2>6, GiveUpTypeOK DEF TypeOK, PersistPidFails, StepRaises
  <1>6. CASE StepReturns(i) \/ WaitGivesUp(i)
    <2>1. Reclaim(i) \/ Abandon(i)
      BY <1>6 DEF StepReturns, WaitGivesUp
    <2>2. PICK status \in Finished, e \in {"none"} \cup Errors : Found(i, status, e)
      BY <1>6, ReturnFinds
    <2>3. /\ mem' \in [Invocations -> Record] /\ disk' \in [RunIds -> Record \cup {NoRecord}]
          /\ pc' \in [Invocations -> {Idle} \cup Active \cup Ended]
          /\ err' \in [Invocations -> {"none"} \cup Errors]
          /\ blocked' \in [Invocations -> BOOLEAN]
      BY <2>2, FoundTypeOK
    <2> QED
      BY <1>6, <2>1, <2>3, GiveUpTypeOK DEF TypeOK, StepReturns, WaitGivesUp
  <1>7. CASE TaskDiffFails(i)
    <2>1. SetStep(mem[i], TaskDiff, "interrupted") \in Record
      BY SetStepRecord DEF TypeOK, StepStatus
    <2> QED
      BY <1>7, <2>1 DEF TypeOK, TaskDiffFails
  <1> QED
    BY <1>1, <1>2, <1>3, <1>4, <1>5, <1>6, <1>7, <1>8 DEF Check

LEMMA ConcludeTypeOK ==
    ASSUME TypeOK, NEW i \in Invocations, Conclude(i) \/ LateError(i) \/ Cancel(i) \/ Crash(i)
    PROVE  TypeOK'
  <1>1. CASE End(i)
    <2>1. PICK memory \in BOOLEAN :
            LET rec == EndRecord(i, err[i], memory) IN
            Save(i, rec) /\ mem' = [mem EXCEPT ![i] = rec]
      BY <1>1 DEF End
    <2>2. EndRecord(i, err[i], memory) \in Record
      BY EndRecordRecord DEF TypeOK
    <2> QED
      BY <1>1, <2>1, <2>2 DEF TypeOK, End, Save
  <1>2. CASE EndSaveFails(i)
    <2>1. err' \in [Invocations -> {"none"} \cup Errors]
      BY <1>2 DEF TypeOK, EndSaveFails, Raise, Errors
    <2>2. pc' \in [Invocations -> {Idle} \cup Active \cup Ended]
      BY <1>2 DEF TypeOK, EndSaveFails, Raise
    <2>3. outcome' \in [Invocations -> {"none", "refused", "exists", "write_failed", "raised",
                                       "running"} \cup Terminal]
      BY <1>2 DEF TypeOK, EndSaveFails, Terminal
    <2> QED
      BY <1>2, <2>1, <2>2, <2>3 DEF TypeOK, EndSaveFails
  <1>3. CASE Close(i)
    BY <1>3 DEF TypeOK, Close, Unlock
  <1>9. CASE ReturnRecord(i)
    <2>1. mem[i].status = "running" \/ mem[i].status \in Terminal
      BY DEF TypeOK, Record
    <2>2. outcome' \in [Invocations -> {"none", "refused", "exists", "write_failed", "raised",
                                       "running"} \cup Terminal]
      BY <1>9, <2>1 DEF TypeOK, ReturnRecord
    <2> QED
      BY <1>9, <2>2 DEF TypeOK, ReturnRecord
  <1>4. CASE LateError(i)
    <2>1. EndRecord(i, "interrupt", FALSE) \in Record
      BY EndRecordRecord DEF Errors
    <2> QED
      BY <1>4, <2>1 DEF TypeOK, LateError, Save
  <1>5. CASE Cancel(i)
    BY <1>5 DEF TypeOK, Cancel
  <1>6. CASE Crash(i)
    BY <1>6, GiveUpTypeOK DEF TypeOK, Crash, Unlock, LeaveDirectory
  <1> QED
    BY <1>1, <1>2, <1>3, <1>4, <1>5, <1>6, <1>9 DEF Conclude

LEMMA QueryTypeOK ==
    ASSUME TypeOK, NEW q \in Queries, Ask(q) \/ Query(q)
    PROVE  TypeOK'
  BY DEF TypeOK, Ask, Query, ReadRecord, Probe, LetGo, ProbeFails, Reread, Answer, Terminal

LEMMA NextTypeOK == TypeOK /\ [Next]_vars => TypeOK'
  <1> SUFFICES ASSUME TypeOK, [Next]_vars PROVE TypeOK'
    OBVIOUS
  <1>1. CASE UNCHANGED vars
    BY <1>1 DEF TypeOK
  <1>2. CASE AllEnded
    BY <1>2 DEF TypeOK, AllEnded
  <1> QED
    BY <1>1, <1>2, ClaimTypeOK, CheckTypeOK, ConcludeTypeOK, QueryTypeOK DEF Next, Progress

LEMMA InitTypeOK == Init => TypeOK
  BY NewRecordRecord, ConstantsAssumption DEF Init, TypeOK

\* Every reachable state is well typed: in particular the disk holds only whole records.
THEOREM TypeCorrect == Spec => []TypeOK
  BY InitTypeOK, NextTypeOK, PTL DEF Spec
-----------------------------------------------------------------------------
(***************************************************************************)
(* Who owns a run id.  The lock file is never removed, so a run id is       *)
(* claimed once; whoever claimed it holds the OS lock exactly while it      *)
(* works on the record, and lets go only after its last save.               *)
(***************************************************************************)
Claiming == {"creating", "locking", "saving"}
Unclaimed == {Idle, "entering", "creating", "locking"}
Concluding == {"closing", "returning"}

HolderWorks == \A r \in RunIds : lockHolder[r] # NoOne =>
                 run[lockHolder[r]] = r /\ pc[lockHolder[r]] \in Holding
WorkerHolds == \A i \in Invocations : pc[i] \in Holding => lockHolder[run[i]] = i
FilesStay == \A r \in RunIds : disk[r].status # "absent" \/ lockHolder[r] # NoOne => r \in lockFile
Unsaved == \A i \in Invocations : pc[i] = "saving" => disk[run[i]].status = "absent"
Unfinished == \A i \in Invocations :
                /\ pc[i] \in Unclaimed \cup {"saving"} \cup Owning => mem[i].status = "running"
                /\ pc[i] \in Unclaimed \cup {"saving"} \cup Owning => outcome[i] = "none"
                /\ pc[i] \in Owning => disk[run[i]].status = "running"
Settled == \A i \in Invocations : pc[i] \in Concluding =>
                /\ mem[i].status # "running" => disk[run[i]] = mem[i]
                /\ outcome[i] = "none" => mem[i].status # "running"
OneInDirectory == \A i \in Invocations : pc[i] \in Claiming <=> dirLock = i

Ownership == /\ HolderWorks /\ WorkerHolds /\ FilesStay /\ Unsaved /\ Unfinished /\ Settled
             /\ OneInDirectory

Answers ==
    \A q \in Queries :
      /\ qpc[q] = "probe" => disk[qrun[q]].status # "absent"
      /\ qpc[q] \in {"held", "reread"} =>
           disk[qrun[q]].status # "absent" /\ lockHolder[qrun[q]] = NoOne
      /\ qres[q] = "interrupted" => disk[qrun[q]].status = "running" /\ lockHolder[qrun[q]] = NoOne
      /\ qres[q] \in Terminal => disk[qrun[q]].status = qres[q]
\* The only place where a record's status matters to a check: none changes it.
LEMMA SetStepStatus ==
    ASSUME NEW rec \in Record, NEW k, NEW s
    PROVE  SetStep(rec, k, s).status = rec.status
  BY DEF SetStep, Record

LEMMA ClaimOwnership ==
    ASSUME TypeOK, Ownership, NEW i \in Invocations, Call(i) \/ Refuse(i) \/ Claim(i)
    PROVE  Ownership'
  <1> USE ConstantsAssumption DEF TypeOK, Ownership, HolderWorks, WorkerHolds, FilesStay, Unsaved,
          Unfinished, Settled, OneInDirectory, Claiming, Unclaimed, Concluding
  <1>1. CASE Call(i)
    BY <1>1 DEF Call
  <1>2. CASE Refuse(i)
    BY <1>2 DEF Refuse
  <1>3. CASE EnterDirectory(i)
    BY <1>3 DEF EnterDirectory
  <1>4. CASE RunIdExists(i)
    BY <1>4 DEF RunIdExists, LeaveDirectory
  <1>5. CASE RunIdFree(i)
    BY <1>5 DEF RunIdFree
  <1>6. CASE CreateLock(i)
    BY <1>6 DEF CreateLock
  <1>7. CASE CreateLockFails(i)
    BY <1>7 DEF CreateLockFails, LeaveDirectory
  <1>8. CASE FirstSave(i)
    <2>1. /\ pc' = [pc EXCEPT ![i] = "ready"] /\ pc[i] = "saving"
          /\ disk' = [disk EXCEPT ![run[i]] = mem[i]]
          /\ dirLock' = NoOne
          /\ UNCHANGED <<run, mem, outcome, lockFile, lockHolder>>
      BY <1>8 DEF FirstSave, Save, LeaveDirectory
    <2>2. mem[i].status = "running" /\ outcome[i] = "none" /\ lockHolder[run[i]] = i
          /\ disk[run[i]].status = "absent"
      BY <2>1
    <2>3. \A j \in Invocations \ {i} :
            /\ pc[j] \in Holding => run[j] # run[i]
            /\ pc[j] \in Concluding /\ mem[j].status # "running" => disk'[run[j]] = disk[run[j]]
      <3> SUFFICES ASSUME NEW j \in Invocations \ {i}
                   PROVE  /\ pc[j] \in Holding => run[j] # run[i]
                          /\ pc[j] \in Concluding /\ mem[j].status # "running" =>
                               disk'[run[j]] = disk[run[j]]
        OBVIOUS
      <3>1. mem[j].status # "absent"
        BY RecordStatus
      <3>2. pc[j] \in Holding => run[j] # run[i]
        BY <2>2
      <3>3. pc[j] \in Concluding /\ mem[j].status # "running" => run[j] # run[i]
        BY <2>2, <3>1
      <3> QED
        BY <2>1, <3>2, <3>3
    <2>4. (HolderWorks /\ WorkerHolds /\ FilesStay /\ OneInDirectory)'
      BY <2>1, <2>2
    <2>5. (Unsaved /\ Unfinished)'
      BY <2>1, <2>2, <2>3
    <2>6. Settled'
      BY <2>1, <2>2, <2>3
    <2> QED
      BY <2>4, <2>5, <2>6
  <1>9. CASE FirstSaveFails(i)
    BY <1>9 DEF FirstSaveFails, Unlock, LeaveDirectory
  <1> QED
    BY <1>1, <1>2, <1>3, <1>4, <1>5, <1>6, <1>7, <1>8, <1>9 DEF Claim
\* What a step of a check does to the run: the invocation stays at work, its record
\* goes on running, and the file keeps the old record or gets the new one.
Works(i) ==
    /\ pc[i] \in Owning
    /\ \E to \in Owning : pc' = [pc EXCEPT ![i] = to]
    /\ UNCHANGED <<run, outcome, lockVars, queryVars>>
    /\ \E rec \in Record :
         /\ rec.status = "running"
         /\ mem' = [mem EXCEPT ![i] = rec]
         /\ disk' = disk \/ disk' = [disk EXCEPT ![run[i]] = rec]

LEMMA CheckWorks ==
    ASSUME TypeOK, Unfinished, NEW i \in Invocations, Check(i)
    PROVE  Works(i)
  <1>1. mem[i] \in Record
    BY DEF TypeOK
  <1>2. pc[i] \in Owning
    BY DEF Check, StepBegins, CancelledBeforeStep, SpawnCommand, PersistPid, PersistPidFails,
           CommandStarts, StepReturns, WaitGivesUp, StepReported, StepRaises, TaskDiffFails,
           AllChecked, Returning
  <1>3. mem[i].status = "running"
    BY <1>2 DEF Unfinished
  <1>4. mem' = mem => mem' = [mem EXCEPT ![i] = mem[i]]
    BY DEF TypeOK
  <1>5. CASE StepBegins(i)
    <2> DEFINE rec == SetStep(mem[i], current[i] + 1, "running")
    <2>1. rec \in Record /\ rec.status = "running"
      BY <1>1, <1>3, SetStepRecord, SetStepStatus DEF StepStatus
    <2> QED
      BY <1>2, <1>5, <2>1 DEF StepBegins, Works, Save, Raise
  <1>6. CASE CancelledBeforeStep(i) \/ StepReported(i) \/ AllChecked(i)
    BY <1>1, <1>2, <1>3, <1>4, <1>6 DEF CancelledBeforeStep, StepReported, AllChecked, Works, Raise
  <1>7. CASE SpawnCommand(i)
    <2> DEFINE rec == [mem[i] EXCEPT !.pids = @ \cup {current[i]}]
    <2>1. rec \in Record /\ rec.status = "running"
      BY <1>1, <1>3, <1>7, AddPidRecord, ConstantsAssumption DEF SpawnCommand, Record
    <2> QED
      BY <1>2, <1>7, <2>1 DEF SpawnCommand, Works
  <1>8. CASE PersistPid(i) \/ CommandStarts(i)
    BY <1>1, <1>2, <1>3, <1>4, <1>8 DEF PersistPid, CommandStarts, Works, Save
  <1>9. CASE PersistPidFails(i) \/ StepRaises(i) \/ TaskDiffFails(i)
    <2> DEFINE rec(k) == SetStep(mem[i], k, "interrupted")
    <2>1. \A k : rec(k) \in Record /\ rec(k).status = "running"
      BY <1>1, <1>3, SetStepRecord, SetStepStatus DEF StepStatus
    <2>2. \E k : mem' = [mem EXCEPT ![i] = rec(k)]
      BY <1>9 DEF PersistPidFails, StepRaises, TaskDiffFails
    <2> HIDE DEF rec
    <2> QED
      BY <1>2, <1>9, <2>1, <2>2 DEF PersistPidFails, StepRaises, TaskDiffFails, Works, Raise
  <1>10. CASE StepReturns(i) \/ WaitGivesUp(i)
    <2>1. PICK status \in Finished, e \in {"none"} \cup Errors : Found(i, status, e)
      BY <1>10, ReturnFinds
    <2> DEFINE rec == SetStep(mem[i], current[i], status)
    <2>2. status \in StepStatus
      BY DEF Finished, StepStatus, Terminal
    <2>3. rec \in Record /\ rec.status = "running"
      BY <1>1, <1>3, <2>2, SetStepRecord, SetStepStatus
    <2>4. /\ mem' = [mem EXCEPT ![i] = rec]
          /\ \/ disk' = [disk EXCEPT ![run[i]] = rec] /\ pc' = [pc EXCEPT ![i] = "stepped"]
             \/ disk' = disk /\ pc' = [pc EXCEPT ![i] = "ending"]
      BY <2>1 DEF Found, Save, Raise
    <2>5. UNCHANGED <<run, outcome, lockVars, queryVars>>
      BY <1>10 DEF StepReturns, WaitGivesUp
    <2> HIDE DEF rec
    <2> QED
      BY <1>2, <2>3, <2>4, <2>5 DEF Works
  <1> QED
    BY <1>5, <1>6, <1>7, <1>8, <1>9, <1>10 DEF Check

LEMMA WorksOwnership ==
    ASSUME TypeOK, Ownership, NEW i \in Invocations, Works(i)
    PROVE  Ownership'
  <1>1. PICK to \in Owning, rec \in Record :
          /\ pc' = [pc EXCEPT ![i] = to]
          /\ rec.status = "running"
          /\ mem' = [mem EXCEPT ![i] = rec]
          /\ disk' = disk \/ disk' = [disk EXCEPT ![run[i]] = rec]
    BY DEF Works
  <1> USE DEF TypeOK, Ownership, HolderWorks, WorkerHolds, FilesStay, Unsaved,
          Unfinished, Settled, OneInDirectory, Claiming, Unclaimed, Concluding
  <1>2. lockHolder[run[i]] = i /\ disk[run[i]].status = "running" /\ outcome[i] = "none"
    BY DEF Works
  <1>3. \A j \in Invocations \ {i} : pc[j] \in Holding => run[j] # run[i]
    BY <1>2
  <1>4. \A j \in Invocations \ {i} : mem[j].status # "running" /\ pc[j] \in Concluding
                                     => run[j] # run[i]
    BY <1>2
  <1>5. (HolderWorks /\ WorkerHolds /\ FilesStay /\ OneInDirectory)'
    BY <1>1, <1>2 DEF Works
  <1>6. (Unsaved /\ Unfinished)'
    BY <1>1, <1>2, <1>3 DEF Works
  <1>7. Settled'
    BY <1>1, <1>2, <1>4 DEF Works
  <1> QED
    BY <1>5, <1>6, <1>7
\* What end() leaves behind: a whole record with a result, on disk as in memory.
Ends(i) ==
    /\ pc[i] = "ending" /\ pc' = [pc EXCEPT ![i] = "closing"]
    /\ UNCHANGED <<run, lockVars, queryVars>>
    /\ \E rec \in Record :
         /\ rec.status \in Terminal
         /\ mem' = [mem EXCEPT ![i] = rec]
         /\ disk' = [disk EXCEPT ![run[i]] = rec]
    /\ \A j \in Invocations \ {i} : outcome'[j] = outcome[j]

LEMMA EndEnds ==
    ASSUME TypeOK, Unfinished, NEW i \in Invocations, End(i)
    PROVE  Ends(i)
  <1>1. PICK m \in BOOLEAN : Save(i, EndRecord(i, err[i], m))
                            /\ mem' = [mem EXCEPT ![i] = EndRecord(i, err[i], m)]
    BY DEF End
  <1> DEFINE rec == EndRecord(i, err[i], m)
  <1>2. rec \in Record
    BY EndRecordRecord DEF TypeOK
  <1>3. mem[i] \in Record /\ mem[i].status = "running"
    BY DEF TypeOK, Unfinished, End
  <1>4. rec.status = EndStatus(err[i])
    BY <1>3 DEF EndRecord, Concluded, Record
  <1>5. EndStatus(err[i]) \in Terminal
    BY DEF TypeOK, EndStatus, Errors, Terminal
  <1>6. \A j \in Invocations \ {i} : outcome'[j] = outcome[j]
    BY DEF End, TypeOK
  <1>7. mem' = [mem EXCEPT ![i] = rec] /\ disk' = [disk EXCEPT ![run[i]] = rec]
    BY <1>1 DEF Save
  <1>8. pc[i] = "ending" /\ pc' = [pc EXCEPT ![i] = "closing"]
        /\ UNCHANGED <<run, lockVars, queryVars>>
    BY DEF End
  <1> HIDE DEF rec
  <1> QED
    BY <1>2, <1>4, <1>5, <1>6, <1>7, <1>8 DEF Ends

\* Once the result is persisted, a second end() saves the record the disk has.
LEMMA LateErrorKeeps ==
    ASSUME TypeOK, Settled, NEW i \in Invocations, LateError(i)
    PROVE  disk' = disk
  <1>1. mem[i].status # "running" /\ disk[run[i]] = mem[i]
    BY DEF LateError, Settled, Concluding
  <1>2. EndRecord(i, "interrupt", FALSE) = mem[i]
    BY <1>1 DEF EndRecord
  <1> QED
    BY <1>1, <1>2 DEF LateError, Save, TypeOK

LEMMA ConcludeOwnership ==
    ASSUME TypeOK, Ownership, NEW i \in Invocations,
           Conclude(i) \/ LateError(i) \/ Cancel(i) \/ Crash(i)
    PROVE  Ownership'
  <1>1. End(i) => Ends(i)
    BY EndEnds DEF Ownership
  <1>2. LateError(i) => disk' = disk
    BY LateErrorKeeps DEF Ownership
  <1> USE DEF TypeOK, Ownership, HolderWorks, WorkerHolds, FilesStay, Unsaved,
          Unfinished, Settled, OneInDirectory, Claiming, Unclaimed, Concluding
  <1>3. CASE End(i)
    <2>1. PICK rec \in Record :
            /\ rec.status \in Terminal
            /\ mem' = [mem EXCEPT ![i] = rec]
            /\ disk' = [disk EXCEPT ![run[i]] = rec]
      BY <1>1, <1>3 DEF Ends
    <2>2. lockHolder[run[i]] = i /\ disk[run[i]].status = "running" /\ rec.status # "running"
      BY <1>3, <2>1 DEF End, Terminal
    <2>3. \A j \in Invocations \ {i} : pc[j] \in Holding => run[j] # run[i]
      BY <2>2
    <2>4. \A j \in Invocations \ {i} : mem[j].status # "running" /\ pc[j] \in Concluding
                                     => run[j] # run[i]
      BY <2>2
    <2>5. (HolderWorks /\ WorkerHolds /\ FilesStay /\ OneInDirectory)'
      BY <1>1, <1>3, <2>1, <2>2 DEF Ends
    <2>6. (Unsaved /\ Unfinished)'
      BY <1>1, <1>3, <2>1, <2>2, <2>3 DEF Ends
    <2>7. Settled'
      BY <1>1, <1>3, <2>1, <2>2, <2>4 DEF Ends
    <2> QED
      BY <2>5, <2>6, <2>7
  <1>4. CASE EndSaveFails(i)
    BY <1>4 DEF EndSaveFails, Raise
  <1>5. CASE Close(i)
    BY <1>5 DEF Close, Unlock
  <1>6. CASE ReturnRecord(i)
    BY <1>6 DEF ReturnRecord
  <1>7. CASE LateError(i)
    <2>0. disk' = disk
      BY <1>2, <1>7
    <2>1. /\ UNCHANGED <<pc, run, mem, disk, lockVars>>
          /\ pc[i] \in Concluding
          /\ \A j \in Invocations : outcome'[j] = IF j = i THEN "raised" ELSE outcome[j]
      BY <2>0, <1>7 DEF LateError
    <2>2. (HolderWorks /\ WorkerHolds /\ FilesStay /\ Unsaved /\ OneInDirectory)'
      BY <2>1
    <2>3. (Unfinished /\ Settled)'
      BY <2>1
    <2> QED
      BY <2>2, <2>3
  <1>8. CASE Cancel(i)
    BY <1>8 DEF Cancel
  <1>9. CASE Crash(i)
    <2>1. /\ UNCHANGED <<run, mem, disk, outcome, lockFile>>
          /\ \A j \in Invocations : pc'[j] = IF j = i THEN "dead" ELSE pc[j]
          /\ \A r \in RunIds : lockHolder'[r] = IF lockHolder[r] = i THEN NoOne ELSE lockHolder[r]
          /\ dirLock' = IF dirLock = i THEN NoOne ELSE dirLock
      BY <1>9 DEF Crash, Unlock, LeaveDirectory
    <2>2. (HolderWorks /\ WorkerHolds)'
      BY <2>1, ConstantsAssumption
    <2>3. (FilesStay /\ OneInDirectory)'
      BY <2>1, ConstantsAssumption
    <2>4. (Unsaved /\ Unfinished /\ Settled)'
      BY <2>1
    <2> QED
      BY <2>2, <2>3, <2>4
  <1> QED
    BY <1>3, <1>4, <1>5, <1>6, <1>7, <1>8, <1>9 DEF Conclude

LEMMA QueryOwnership ==
    ASSUME Ownership, NEW q \in Queries, Ask(q) \/ Query(q)
    PROVE  Ownership'
  <1>1. UNCHANGED invocationVars
    BY DEF Ask, Query, ReadRecord, Probe, LetGo, ProbeFails, Reread
  <1> QED
    BY <1>1 DEF Ownership, HolderWorks, WorkerHolds, FilesStay, Unsaved, Unfinished, Settled,
                OneInDirectory

LEMMA NextOwnership == TypeOK /\ Ownership /\ [Next]_vars => Ownership'
  <1> SUFFICES ASSUME TypeOK, Ownership, [Next]_vars PROVE Ownership'
    OBVIOUS
  <1>1. CASE UNCHANGED vars \/ AllEnded
    BY <1>1 DEF Ownership, HolderWorks, WorkerHolds, FilesStay, Unsaved, Unfinished, Settled,
                OneInDirectory, AllEnded
  <1>2. \A i \in Invocations : Check(i) => Ownership'
    BY CheckWorks, WorksOwnership DEF Ownership
  <1> QED
    BY <1>1, <1>2, ClaimOwnership, ConcludeOwnership, QueryOwnership DEF Next, Progress
-----------------------------------------------------------------------------
(***************************************************************************)
(* What any step of an invocation does to the record and the lock that      *)
(* everyone else sees: at most its own run id moves, and only forward.      *)
(***************************************************************************)
Held(r) == lockHolder[r] # NoOne
HeldNext(r) == lockHolder'[r] # NoOne

Moves(i) ==
    LET r == run[i] IN
    /\ UNCHANGED queryVars
    /\ \A other \in RunIds \ {r} : disk'[other] = disk[other] /\ HeldNext(other) = Held(other)
    /\ \/ disk'[r] = disk[r] /\ HeldNext(r) = Held(r)
       \/ disk[r].status = "absent" /\ disk'[r] = disk[r]
       \/ disk'[r] = disk[r] /\ ~HeldNext(r)
       \/ /\ Held(r) /\ HeldNext(r)
          /\ \/ disk[r].status = "absent" /\ disk'[r].status = "running"
             \/ disk[r].status = "running" /\ disk'[r].status \in {"running"} \cup Terminal

InvocationStep(i) ==
    Call(i) \/ Refuse(i) \/ Progress(i) \/ LateError(i) \/ Cancel(i) \/ Crash(i)

LEMMA StepMoves ==
    ASSUME TypeOK, Ownership, NEW i \in Invocations, InvocationStep(i)
    PROVE  Moves(i)
  <1> USE ConstantsAssumption DEF TypeOK, Held, HeldNext, Moves
  <1>1. CASE Call(i) \/ Refuse(i) \/ EnterDirectory(i) \/ RunIdExists(i) \/ RunIdFree(i)
             \/ CreateLockFails(i)
    BY <1>1 DEF Call, Refuse, EnterDirectory, RunIdExists, RunIdFree, CreateLockFails
  <1>2. CASE CreateLock(i)
    <2>1. disk[run[i]].status = "absent"
      BY <1>2 DEF CreateLock, Ownership, FilesStay
    <2> QED
      BY <1>2, <2>1 DEF CreateLock
  <1>3. CASE FirstSave(i)
    <2>1. mem[i].status = "running" /\ lockHolder[run[i]] = i /\ disk[run[i]].status = "absent"
      BY <1>3 DEF FirstSave, Ownership, Unfinished, WorkerHolds, Unsaved
    <2> QED
      BY <1>3, <2>1 DEF FirstSave, Save
  <1>4. \A r \in RunIds \ {run[i]} : lockHolder[r] # i
    BY DEF Ownership, HolderWorks
  <1>5. CASE FirstSaveFails(i) \/ Close(i) \/ Crash(i)
    BY <1>4, <1>5 DEF FirstSaveFails, Close, Crash, Unlock
  <1>6. CASE Check(i)
    <2>1. Works(i)
      BY <1>6, CheckWorks DEF Ownership
    <2>2. lockHolder[run[i]] = i /\ disk[run[i]].status = "running"
      BY <2>1 DEF Works, Ownership, WorkerHolds, Unfinished
    <2> QED
      BY <2>1, <2>2 DEF Works
  <1>7. CASE End(i)
    <2>1. Ends(i)
      BY <1>7, EndEnds DEF Ownership
    <2>2. lockHolder[run[i]] = i /\ disk[run[i]].status = "running"
      BY <2>1 DEF Ends, Ownership, WorkerHolds, Unfinished
    <2> QED
      BY <2>1, <2>2 DEF Ends
  <1>8. CASE LateError(i)
    <2>1. disk' = disk
      BY <1>8, LateErrorKeeps DEF Ownership
    <2> QED
      BY <1>8, <2>1 DEF LateError
  <1>9. CASE EndSaveFails(i) \/ ReturnRecord(i) \/ Cancel(i)
    BY <1>9 DEF EndSaveFails, ReturnRecord, Cancel
  <1> QED
    BY <1>1, <1>2, <1>3, <1>5, <1>6, <1>7, <1>8, <1>9 DEF InvocationStep, Progress, Claim, Conclude

-----------------------------------------------------------------------------
(***************************************************************************)
(* Answers of queries, and the results of runs.                             *)
(***************************************************************************)

LEMMA StepAnswers ==
    ASSUME TypeOK, Ownership, Answers, NEW i \in Invocations, Moves(i)
    PROVE  Answers'
  <1> DEFINE r == run[i]
  <1>1. qpc' = qpc /\ qrun' = qrun /\ qres' = qres
    BY DEF Moves
  <1>2. /\ \A other \in RunIds \ {r} : disk'[other] = disk[other] /\ HeldNext(other) = Held(other)
        /\ \/ disk'[r] = disk[r] /\ HeldNext(r) = Held(r)
           \/ disk[r].status = "absent" /\ disk'[r] = disk[r]
           \/ disk'[r] = disk[r] /\ ~HeldNext(r)
           \/ /\ Held(r) /\ HeldNext(r)
              /\ disk[r].status \in {"absent", "running"}
              /\ disk'[r].status \in {"running"} \cup Terminal
    BY DEF Moves
  <1>3. \A q \in Queries : qrun[q] \in RunIds
    BY DEF TypeOK
  <1>4. \A other \in RunIds :
          /\ disk[other].status # "absent" => disk'[other].status # "absent"
          /\ disk[other].status # "absent" /\ lockHolder[other] = NoOne
               => disk'[other] = disk[other] /\ lockHolder'[other] = NoOne
          /\ disk[other].status \in Terminal => disk'[other] = disk[other]
    <2> HIDE DEF r
    <2> QED
      BY <1>2 DEF Held, HeldNext, Terminal
  <1> QED
    BY <1>1, <1>3, <1>4 DEF Answers

LEMMA QueryAnswers ==
    ASSUME TypeOK, Answers, NEW q \in Queries, Ask(q) \/ Query(q)
    PROVE  Answers'
  BY DEF TypeOK, Answers, Ask, Query, ReadRecord, Probe, LetGo, ProbeFails, Reread, Answer, Terminal

IInv == TypeOK /\ Ownership /\ Answers

LEMMA InitIInv == Init => IInv
  BY InitTypeOK, ConstantsAssumption
     DEF Init, IInv, Ownership, HolderWorks, WorkerHolds, FilesStay, Unsaved, Unfinished, Settled,
         OneInDirectory, Answers, Claiming, Unclaimed, Concluding, NewRecord, NoRecord, Terminal

LEMMA NextIInv == IInv /\ [Next]_vars => IInv'
  <1> SUFFICES ASSUME IInv, [Next]_vars PROVE IInv'
    OBVIOUS
  <1>1. TypeOK' /\ Ownership'
    BY NextTypeOK, NextOwnership DEF IInv
  <1>2. CASE UNCHANGED vars \/ AllEnded
    BY <1>1, <1>2 DEF IInv, Answers, AllEnded
  <1>3. CASE \E i \in Invocations : InvocationStep(i)
    BY <1>1, <1>3, StepMoves, StepAnswers DEF IInv
  <1>4. CASE \E q \in Queries : Ask(q) \/ Query(q)
    BY <1>1, <1>4, QueryAnswers DEF IInv
  <1> QED
    BY <1>2, <1>3, <1>4 DEF Next, InvocationStep

\* An answer is never taken back: a run reported as interrupted never gets a result,
\* and a result once reported is the result for good.
THEOREM AnswersAreFinal == Spec => []AnswersStand
  <1>1. IInv => AnswersStand
    BY DEF IInv, Answers, AnswersStand
  <1> QED
    BY <1>1, InitIInv, NextIInv, PTL DEF Spec

\* An invocation that returned or died holds neither lock.
THEOREM NoLockSurvives == Spec => []EndedHoldsNothing
  <1>1. IInv => EndedHoldsNothing
    BY ConstantsAssumption
       DEF IInv, Ownership, HolderWorks, OneInDirectory, EndedHoldsNothing, Claiming
  <1> QED
    BY <1>1, InitIInv, NextIInv, PTL DEF Spec

\* A record that has a result never changes again.
THEOREM ResultsAreFinal == Spec => TerminalIsFinal
  <1> DEFINE Kept == \A r \in RunIds : disk[r].status \in Terminal => disk'[r] = disk[r]
  <1>1. IInv /\ [Next]_vars => [Kept]_disk
    <2> SUFFICES ASSUME IInv, [Next]_vars PROVE Kept \/ UNCHANGED disk
      OBVIOUS
    <2>1. CASE UNCHANGED vars \/ AllEnded
      BY <2>1 DEF AllEnded
    <2>2. ASSUME NEW i \in Invocations, InvocationStep(i) PROVE Kept
      <3>1. Moves(i)
        BY <2>2, StepMoves DEF IInv
      <3> QED
        BY <3>1 DEF Moves, Terminal
    <2>3. ASSUME NEW q \in Queries, Ask(q) \/ Query(q) PROVE UNCHANGED disk
      BY <2>3 DEF Ask, Query, ReadRecord, Probe, LetGo, ProbeFails, Reread
    <2> QED
      BY <2>1, <2>2, <2>3 DEF Next, InvocationStep
  <1> QED
    BY <1>1, InitIInv, NextIInv, PTL DEF Spec, TerminalIsFinal

\* A second caller of a run id never gets as far as the exclusive creation of its lock
\* file: while one invocation claims, no other can create it.
THEOREM SecondCallerIsTold == Spec => []DuplicateIsNamed
  <1> DEFINE Inv == IInv /\ DuplicateIsNamed
  <1>1. Init => DuplicateIsNamed
    BY DEF Init, DuplicateIsNamed
  <1>2. Inv /\ [Next]_vars => DuplicateIsNamed'
    <2> SUFFICES ASSUME Inv, [Next]_vars, NEW i \in Invocations, pc'[i] = "locking"
                 PROVE  run'[i] \notin lockFile'
      BY DEF DuplicateIsNamed
    <2> USE DEF IInv, TypeOK
    <2>1. ASSUME NEW j \in Invocations, InvocationStep(j), j = i PROVE run'[i] \notin lockFile'
      BY <2>1 DEF InvocationStep, DuplicateIsNamed, Progress, Claim, Check, Conclude, Call, Refuse,
           EnterDirectory, RunIdExists, RunIdFree, RunIdTaken, CreateLock, CreateLockFails,
           FirstSave, FirstSaveFails, StepBegins, CancelledBeforeStep, SpawnCommand, PersistPid,
           PersistPidFails, CommandStarts, StepReturns, WaitGivesUp, Found, StepReported, StepRaises,
           TaskDiffFails, AllChecked, End, EndSaveFails, Close, ReturnRecord, LateError, Cancel, Crash, Raise
    <2>2. ASSUME NEW j \in Invocations, InvocationStep(j), j # i PROVE run'[i] \notin lockFile'
      <3>1. pc[i] = "locking"
        BY <2>2 DEF InvocationStep, Progress, Claim, Check, Conclude, Call, Refuse,
           EnterDirectory, RunIdExists, RunIdFree, CreateLock, CreateLockFails,
           FirstSave, FirstSaveFails, StepBegins, CancelledBeforeStep, SpawnCommand, PersistPid,
           PersistPidFails, CommandStarts, StepReturns, WaitGivesUp, Found, StepReported, StepRaises,
           TaskDiffFails, AllChecked, End, EndSaveFails, Close, ReturnRecord, LateError, Cancel, Crash, Raise
      <3>2. pc[j] # "locking"
        BY <2>2, <3>1 DEF Ownership, OneInDirectory, Claiming
      <3> QED
        BY <2>2, <3>1, <3>2 DEF InvocationStep, DuplicateIsNamed, Progress, Claim, Check, Conclude,
           Call, Refuse, EnterDirectory, RunIdExists, RunIdFree, CreateLock, CreateLockFails,
           FirstSave, FirstSaveFails, StepBegins, CancelledBeforeStep, SpawnCommand, PersistPid,
           PersistPidFails, CommandStarts, StepReturns, WaitGivesUp, Found, StepReported, StepRaises,
           TaskDiffFails, AllChecked, End, EndSaveFails, Close, ReturnRecord, LateError, Cancel, Crash
    <2>3. CASE UNCHANGED vars \/ AllEnded \/ \E q \in Queries : Ask(q) \/ Query(q)
      BY <2>3 DEF DuplicateIsNamed, AllEnded, Ask, Query, ReadRecord, Probe, LetGo, ProbeFails, Reread
    <2> QED
      BY <2>1, <2>2, <2>3 DEF Next, InvocationStep
  <1> QED
    BY <1>1, <1>2, InitIInv, NextIInv, PTL DEF Spec
-----------------------------------------------------------------------------
(***************************************************************************)
(* What an invocation has done so far, what its record says of it, and what *)
(* of that is on disk.                                                      *)
(***************************************************************************)
Done == {"passed", "skipped"}

\* The record of the run is on disk, and no other invocation may write it.
Mine(i) == disk[run[i]].status # "absent" /\ disk[run[i]].owner = i

Justified(rec) ==
    rec.decision = "allowed" =>
      /\ rec.status = "completed"
      /\ \A k \in STEPS : rec.steps[k] \in Done
      /\ \A k \in Commands : rec.steps[k] = "passed" => k \in rec.pids

Records(i) ==
    /\ mem[i].owner = i
    /\ pc[i] \in Unclaimed \cup {"saving"} \cup Owning => mem[i].decision = "none"
    /\ \A k \in Commands : mem[i].steps[k] = "passed" => k \in mem[i].pids
    /\ pc[i] \in {"spawned", "armed", "commanding"} => current[i] \in mem[i].pids
    /\ pc[i] \in Operating => mem[i].steps[current[i]] \notin Done

Checked(i) ==
    /\ pc[i] \in Unclaimed \cup {"saving"} => current[i] = 0
    /\ pc[i] \in Owning /\ ~blocked[i] =>
         \A k \in STEPS : k < current[i] => mem[i].steps[k] \in Done
    /\ pc[i] \in {"ready", "stepped"} /\ ~blocked[i] =>
         \A k \in STEPS : k = current[i] => mem[i].steps[k] \in Done
    /\ pc[i] = "ending" /\ err[i] = "none" /\ ~blocked[i] =>
         \A k \in STEPS : mem[i].steps[k] \in Done

Children(i) ==
    /\ pc[i] \in {"spawned", "armed"} <=> child[i] = "waiting"
    /\ pc[i] = "commanding" <=> child[i] = "running"
    /\ pc[i] \in Unclaimed \cup {"saving"} => left[i] = {}
    /\ pc[i] \in Operating => current[i] \notin left[i]
    /\ err[i] = "timed_out" => current[i] \notin left[i]
    /\ pc[i] \in Unclaimed \cup {"saving"} \cup (Owning \ {"ending"}) => err[i] # "timed_out"
    /\ \A k \in left[i] : /\ k \in STEPS /\ k <= current[i]
                          /\ k \in mem[i].pids /\ mem[i].steps[k] \notin Done

OnDisk(i) ==
    /\ pc[i] \in Owning \cup Concluding => Mine(i)
    /\ pc[i] \in Operating => disk[run[i]].steps[current[i]] \notin Done
    /\ pc[i] \in {"armed", "commanding"} => current[i] \in disk[run[i]].pids
    /\ \A k \in left[i] : Mine(i) /\ k \in disk[run[i]].pids /\ disk[run[i]].steps[k] \notin Done
    /\ pc[i] \in Concluding => outcome[i] \in {"none", "raised", "failed"}
    /\ pc[i] = "returned" /\ outcome[i] \in Terminal \ {"failed"} =>
         Mine(i) /\ disk[run[i]].status = outcome[i]

Accounted(i) == Records(i) /\ Checked(i) /\ Children(i) /\ OnDisk(i)
FilesJustified == \A r \in RunIds : disk[r].status # "absent" => Justified(disk[r])

\* What an invocation leaves of another: everything that is its own, and a record on disk
\* that names it.
LEMMA OthersUntouched ==
    ASSUME TypeOK, NEW i \in Invocations, InvocationStep(i), NEW j \in Invocations, j # i
    PROVE  /\ pc'[j] = pc[j] /\ mem'[j] = mem[j] /\ current'[j] = current[j]
           /\ blocked'[j] = blocked[j] /\ err'[j] = err[j] /\ child'[j] = child[j]
           /\ left'[j] = left[j] /\ outcome'[j] = outcome[j] /\ run' = run
  <1> USE DEF TypeOK
  <1>1. CASE Call(i) \/ Refuse(i) \/ Claim(i)
    BY <1>1 DEF Claim, Call, Refuse, EnterDirectory, RunIdExists, RunIdFree, CreateLock,
                CreateLockFails, FirstSave, FirstSaveFails
  <1>2. CASE StepBegins(i) \/ CancelledBeforeStep(i) \/ SpawnCommand(i) \/ PersistPid(i)
             \/ PersistPidFails(i) \/ CommandStarts(i)
    BY <1>2 DEF StepBegins, CancelledBeforeStep, SpawnCommand, PersistPid, PersistPidFails,
                CommandStarts, Raise, Reclaim
  <1>3. CASE StepReturns(i) \/ WaitGivesUp(i)
    BY <1>3 DEF StepReturns, WaitGivesUp, Found, Raise, Reclaim, Abandon
  <1>5. CASE StepReported(i) \/ StepRaises(i) \/ TaskDiffFails(i) \/ AllChecked(i)
    BY <1>5 DEF StepReported, StepRaises, TaskDiffFails, AllChecked, Raise, Reclaim, Abandon
  <1>4. CASE Conclude(i) \/ LateError(i) \/ Cancel(i) \/ Crash(i)
    BY <1>4 DEF Conclude, End, EndSaveFails, Close, ReturnRecord, LateError, Cancel, Crash, Raise,
                Abandon
  <1> QED
    BY <1>1, <1>2, <1>3, <1>4, <1>5 DEF InvocationStep, Progress, Check

LEMMA MineStays ==
    ASSUME IInv, NEW i \in Invocations, InvocationStep(i), NEW j \in Invocations, j # i,
           Mine(j), OnDisk(i)
    PROVE  disk'[run[j]] = disk[run[j]]
  <1>1. Moves(i)
    BY StepMoves DEF IInv
  <1>2. CASE run[j] # run[i]
    BY <1>1, <1>2 DEF Moves, IInv, TypeOK
  <1>3. CASE run[j] = run[i]
    <2>1. pc[i] \notin Owning
      BY <1>3 DEF OnDisk, Mine
    <2>2. pc[i] # "saving"
      BY <1>3 DEF IInv, Ownership, Unsaved, Mine
    <2>3. LateError(i) => disk' = disk
      BY LateErrorKeeps DEF IInv, Ownership
    <2>4. ~Check(i)
      BY <2>1, CheckWorks DEF Works, IInv, Ownership
    <2>5. ~FirstSave(i) /\ ~End(i)
      BY <2>1, <2>2 DEF FirstSave, End
    <2> QED
      BY <2>3, <2>4, <2>5 DEF InvocationStep, Progress, Claim, Conclude, Call, Refuse,
         EnterDirectory, RunIdExists, RunIdFree, CreateLock, CreateLockFails, FirstSaveFails,
         EndSaveFails, Close, ReturnRecord, Cancel, Crash
  <1> QED
    BY <1>2, <1>3

LEMMA OthersAccounted ==
    ASSUME IInv, NEW i \in Invocations, InvocationStep(i), NEW j \in Invocations, j # i,
           Accounted(i), Accounted(j)
    PROVE  Accounted(j)'
  <1>1. /\ pc'[j] = pc[j] /\ mem'[j] = mem[j] /\ current'[j] = current[j]
        /\ blocked'[j] = blocked[j] /\ err'[j] = err[j] /\ child'[j] = child[j]
        /\ left'[j] = left[j] /\ outcome'[j] = outcome[j] /\ run' = run
    BY OthersUntouched DEF IInv
  <1>2. Mine(j) => disk'[run[j]] = disk[run[j]]
    BY MineStays DEF Accounted
  <1>3. Records(j)' /\ Checked(j)' /\ Children(j)'
    BY <1>1 DEF Accounted, Records, Checked, Children
  <1>4. OnDisk(j)'
    BY <1>1, <1>2 DEF Accounted, OnDisk, Mine
  <1> QED
    BY <1>3, <1>4 DEF Accounted

\* The steps by which an invocation claims its run id.
LEMMA ClaimAccounted ==
    ASSUME IInv, NEW i \in Invocations, Accounted(i), Call(i) \/ Refuse(i) \/ Claim(i)
    PROVE  Accounted(i)'
  <1> USE DEF Accounted, Records, Checked, Children, OnDisk, Mine, Unclaimed, Concluding
  <1>0. TypeOK /\ Ownership
    BY DEF IInv
  <1>1. CASE Call(i) \/ Refuse(i) \/ EnterDirectory(i)
    BY <1>0, <1>1 DEF TypeOK, Terminal, Call, Refuse, EnterDirectory
  <1>2. CASE RunIdExists(i) \/ RunIdFree(i) \/ CreateLock(i) \/ CreateLockFails(i)
    BY <1>0, <1>2 DEF TypeOK, Terminal, RunIdExists, RunIdFree, CreateLock, CreateLockFails
  <1>3. CASE FirstSave(i)
    <2>1. mem[i].status = "running" /\ current[i] = 0 /\ left[i] = {}
      BY <1>0, <1>3 DEF FirstSave, Ownership, Unfinished
    <2>2. /\ pc'[i] = "ready" /\ disk'[run[i]] = mem[i]
          /\ UNCHANGED <<run, mem, current, blocked, err, child, left, outcome>>
      BY <1>0, <1>3 DEF TypeOK, FirstSave, Save
    <2>3. Records(i)' /\ Children(i)'
      BY <1>3, <2>1, <2>2 DEF FirstSave
    <2>4. \A k \in STEPS : ~(k < 0) /\ k # 0
      BY ConstantsAssumption
    <2>5. Checked(i)'
      BY <2>1, <2>2, <2>4
    <2>6. OnDisk(i)'
      BY <2>1, <2>2
    <2> QED
      BY <2>3, <2>5, <2>6
  <1>4. CASE FirstSaveFails(i)
    BY <1>0, <1>4 DEF TypeOK, Terminal, FirstSaveFails
  <1> QED
    BY <1>1, <1>2, <1>3, <1>4 DEF Claim

\* The status of one check, and nothing else of a record.
LEMMA SetStepKeeps ==
    ASSUME NEW rec \in Record, NEW k, NEW s
    PROVE  LET new == SetStep(rec, k, s) IN
           /\ new.status = rec.status /\ new.owner = rec.owner /\ new.decision = rec.decision
           /\ new.pids = rec.pids
           /\ \A j \in STEPS : new.steps[j] = IF j = k THEN s ELSE rec.steps[j]
  BY DEF SetStep, Record

\* A new check, or none because the run is cancelled.
LEMMA BeginAccounted ==
    ASSUME IInv, NEW i \in Invocations, Accounted(i),
           StepBegins(i) \/ CancelledBeforeStep(i) \/ StepReported(i) \/ AllChecked(i)
    PROVE  Accounted(i)'
  <1> USE DEF Accounted
  <1>0. /\ TypeOK /\ Ownership
        /\ mem[i] \in Record /\ current[i] \in 0..N /\ N \in Nat
        /\ \A k \in Commands : k \in STEPS
    BY ConstantsAssumption DEF IInv, TypeOK
  <1>1. CASE StepBegins(i)
    <2> DEFINE rec == SetStep(mem[i], current[i] + 1, "running")
    <2>0. /\ rec.owner = mem[i].owner /\ rec.decision = mem[i].decision /\ rec.pids = mem[i].pids
          /\ rec.status = mem[i].status
          /\ \A j \in STEPS : rec.steps[j] = IF j = current[i] + 1 THEN "running" ELSE mem[i].steps[j]
      BY <1>0, SetStepKeeps
    <2>1. /\ pc[i] = "ready" /\ current'[i] = current[i] + 1 /\ mem'[i] = rec
          /\ \/ pc'[i] = "operation" /\ err' = err /\ disk'[run[i]] = rec
             \/ pc'[i] = "ending" /\ err'[i] = "failed" /\ disk' = disk
          /\ UNCHANGED <<run, blocked, child, left, outcome>>
      BY <1>0, <1>1 DEF TypeOK, StepBegins, Save, Raise
    <2>2. mem[i].status = "running"
      BY <1>0, <2>1 DEF Ownership, Unfinished
    <2>a. rec.steps[current'[i]] \notin Done
      <3>1. current[i] + 1 \in STEPS
        BY <1>0, <1>1 DEF StepBegins
      <3> QED
        BY <2>0, <2>1, <3>1 DEF Done
    <2> HIDE DEF rec
    <2>3. Records(i)'
      <3>1. \A k \in Commands : rec.steps[k] = "passed" => mem[i].steps[k] = "passed"
        BY <1>0, <2>0
      <3> QED
        BY <2>0, <2>1, <2>a, <3>1 DEF Records, Unclaimed
    <2>4. \A k \in STEPS : k < current[i] + 1 =>
            (k < current[i] \/ k = current[i]) /\ rec.steps[k] = mem[i].steps[k]
      BY <1>0, <2>0
    <2>5. Checked(i)'
      <3>1. ~blocked[i] => \A k \in STEPS : k < current[i] + 1 => rec.steps[k] \in Done
        BY <2>1, <2>4 DEF Checked
      <3>2. pc'[i] \in {"operation", "ending"} /\ (pc'[i] = "ending" => err'[i] # "none")
        BY <2>1
      <3> QED
        BY <2>1, <3>1, <3>2 DEF Checked, Unclaimed
    <2>6. Children(i)'
      <3>1. \A k \in left[i] : /\ k # current[i] + 1 /\ k <= current[i] + 1
                              /\ k \in rec.pids /\ rec.steps[k] \notin Done
        BY <1>0, <2>0 DEF Children, Done
      <3> QED
        BY <2>1, <3>1 DEF Children, Unclaimed, Concluding
    <2>7. OnDisk(i)'
      <3>1. left'[i] = left[i] /\ run' = run /\ pc'[i] \in {"operation", "ending"}
        BY <2>1
      <3>2. disk'[run[i]].status # "absent" /\ disk'[run[i]].owner = i
        BY <2>0, <2>1, <2>2 DEF OnDisk, Mine, Records
      <3>3. \A k \in left[i] : /\ k \in disk'[run[i]].pids
                              /\ disk'[run[i]].steps[k] \notin Done
        BY <2>0, <2>1 DEF OnDisk, Children, Done
      <3>4. pc'[i] = "operation" => disk'[run[i]].steps[current'[i]] \notin Done
        BY <2>1, <2>a
      <3> QED
        BY <3>1, <3>2, <3>3, <3>4 DEF OnDisk, Mine, Concluding
    <2> QED
      BY <2>3, <2>5, <2>6, <2>7
  <1>2. CASE CancelledBeforeStep(i) \/ AllChecked(i)
    <2>1. /\ pc[i] = "ready" /\ pc'[i] = "ending"
          /\ err'[i] = "cancelled" \/ (err'[i] = err[i] /\ current[i] = N)
          /\ UNCHANGED <<run, mem, current, blocked, child, left, outcome, disk>>
      BY <1>0, <1>2 DEF TypeOK, CancelledBeforeStep, AllChecked, Raise
    <2>2. \A k \in STEPS : k < N \/ k = N
      BY <1>0
    <2> QED
      BY <2>1, <2>2 DEF Records, Checked, Children, OnDisk, Mine, Unclaimed, Concluding
  <1>3. CASE StepReported(i)
    <2>1. /\ pc[i] = "stepped" /\ pc'[i] \in {"ready", "ending"}
          /\ pc'[i] = "ending" => err'[i] # "none"
          /\ err'[i] \in {err[i], "cancelled"}
          /\ UNCHANGED <<run, mem, current, blocked, child, left, outcome, disk>>
      BY <1>0, <1>3 DEF TypeOK, StepReported, Raise
    <2> QED
      BY <2>1 DEF Records, Checked, Children, OnDisk, Mine, Unclaimed, Concluding
  <1> QED
    BY <1>1, <1>2, <1>3

\* The command of a check.
LEMMA CommandAccounted ==
    ASSUME IInv, NEW i \in Invocations, Accounted(i),
           SpawnCommand(i) \/ PersistPid(i) \/ CommandStarts(i)
    PROVE  Accounted(i)'
  <1> USE DEF Accounted
  <1>0. TypeOK /\ Ownership /\ mem[i] \in Record
    BY DEF IInv, TypeOK
  <1>1. CASE SpawnCommand(i)
    <2> DEFINE rec == [mem[i] EXCEPT !.pids = @ \cup {current[i]}]
    <2>0. /\ rec.owner = mem[i].owner /\ rec.decision = mem[i].decision
          /\ rec.pids = mem[i].pids \cup {current[i]} /\ rec.steps = mem[i].steps
      BY <1>0 DEF Record
    <2>1. /\ pc[i] = "operation" /\ pc'[i] = "spawned" /\ child'[i] = "waiting" /\ mem'[i] = rec
          /\ UNCHANGED <<run, disk, current, blocked, err, left, outcome>>
      BY <1>0, <1>1 DEF TypeOK, SpawnCommand
    <2> HIDE DEF rec
    <2> QED
      BY <2>0, <2>1 DEF Records, Checked, Children, OnDisk, Mine, Unclaimed, Concluding
  <1>2. CASE PersistPid(i)
    <2>1. /\ pc[i] = "spawned" /\ pc'[i] = "armed" /\ disk'[run[i]] = mem[i]
          /\ UNCHANGED <<run, mem, current, blocked, err, child, left, outcome>>
      BY <1>0, <1>2 DEF TypeOK, PersistPid, Save
    <2>2. mem[i].status = "running"
      BY <1>0, <2>1 DEF Ownership, Unfinished
    <2> QED
      BY <2>1, <2>2 DEF Records, Checked, Children, OnDisk, Mine, Unclaimed, Concluding
  <1>3. CASE CommandStarts(i)
    <2>1. /\ pc[i] = "armed" /\ pc'[i] = "commanding" /\ child'[i] = "running"
          /\ UNCHANGED <<run, mem, disk, current, blocked, err, left, outcome>>
      BY <1>0, <1>3 DEF TypeOK, CommandStarts
    <2> QED
      BY <2>1 DEF Records, Checked, Children, OnDisk, Mine, Unclaimed, Concluding
  <1> QED
    BY <1>1, <1>2, <1>3

\* A check that does not return.
LEMMA RaiseAccounted ==
    ASSUME IInv, NEW i \in Invocations, Accounted(i),
           PersistPidFails(i) \/ StepRaises(i) \/ TaskDiffFails(i)
    PROVE  Accounted(i)'
  <1> USE DEF Accounted
  <1>0. TypeOK /\ mem[i] \in Record /\ (\A k \in Commands : k \in STEPS)
    BY ConstantsAssumption DEF IInv, TypeOK
  <1>1. PICK k \in {current[i], TaskDiff} :
          /\ mem' = [mem EXCEPT ![i] = SetStep(@, k, "interrupted")]
          /\ k = current[i] \/ TaskDiffFails(i)
    BY DEF PersistPidFails, StepRaises, TaskDiffFails
  <1> DEFINE rec == SetStep(mem[i], k, "interrupted")
  <1>2. /\ rec.owner = mem[i].owner /\ rec.decision = mem[i].decision /\ rec.pids = mem[i].pids
        /\ \A j \in STEPS : rec.steps[j] \in Done => rec.steps[j] = mem[i].steps[j]
    BY <1>0, SetStepKeeps DEF Done
  <1>3. mem'[i] = rec
    BY <1>0, <1>1 DEF TypeOK
  <1> HIDE DEF rec
  <1>4. /\ pc[i] \in Operating /\ pc'[i] = "ending"
        /\ UNCHANGED <<run, disk, current, outcome>>
        /\ (k = current[i] /\ err'[i] # "none" /\ blocked' = blocked) \/ blocked'[i] = TRUE
        /\ child'[i] = "none"
        /\ \/ left'[i] = left[i]
           \/ /\ left'[i] = left[i] \cup {current[i]}
              /\ pc[i] = "commanding" /\ err'[i] # "timed_out"
    <2>1. CASE PersistPidFails(i)
      BY <1>0, <1>1, <2>1 DEF TypeOK, PersistPidFails, Raise, Reclaim, TaskDiffFails
    <2>2. CASE StepRaises(i)
      <3>1. PICK e \in Errors : Raise(i, e) /\ (Reclaim(i) \/ (e # "timed_out" /\ Abandon(i)))
        BY <2>2 DEF StepRaises
      <3>2. /\ pc[i] \in Operating /\ k = current[i]
            /\ UNCHANGED <<run, disk, current, blocked, outcome>>
        BY <1>1, <2>2 DEF StepRaises, TaskDiffFails
      <3>3. pc'[i] = "ending" /\ err'[i] = e /\ e # "none"
        BY <1>0, <3>1 DEF TypeOK, Raise, Errors
      <3>4. child[i] = "running" => pc[i] = "commanding"
        BY DEF Children
      <3>5. /\ child'[i] = "none"
            /\ \/ left'[i] = left[i]
               \/ left'[i] = left[i] \cup {current[i]} /\ child[i] = "running" /\ e # "timed_out"
        BY <1>0, <3>1 DEF TypeOK, Reclaim, Abandon
      <3> QED
        BY <3>2, <3>3, <3>4, <3>5
    <2>3. CASE TaskDiffFails(i)
      BY <1>0, <2>3 DEF TypeOK, TaskDiffFails, Children
    <2> QED
      BY <2>1, <2>2, <2>3
  <1>5. Records(i)'
    BY <1>0, <1>2, <1>3, <1>4 DEF Records, Done
  <1>6. Checked(i)'
    <2>1. CASE k = current[i] /\ err'[i] # "none" /\ blocked' = blocked
      <3>1. \A j \in STEPS : j < current[i] => rec.steps[j] = mem[i].steps[j]
        BY <1>0, <2>1, SetStepKeeps DEF rec
      <3> QED
        BY <1>3, <1>4, <2>1, <3>1 DEF Checked, Unclaimed
    <2>2. CASE blocked'[i] = TRUE
      BY <1>4, <2>2 DEF Checked, Unclaimed
    <2> QED
      BY <1>4, <2>1, <2>2
  <1>7. Children(i)'
    <2>1. pc[i] = "commanding" =>
            current[i] \in STEPS /\ current[i] <= current[i] /\ current[i] \in mem[i].pids
            /\ mem[i].steps[current[i]] \notin Done
      BY <1>0 DEF Records, Record, TypeOK, IInv
    <2>2. \A j \in left'[i] : /\ j \in STEPS /\ j <= current[i]
                             /\ j \in rec.pids /\ rec.steps[j] \notin Done
      BY <1>2, <1>4, <2>1 DEF Children
    <2>3. err'[i] = "timed_out" => current[i] \notin left'[i]
      BY <1>4 DEF Children
    <2> QED
      BY <1>3, <1>4, <2>2, <2>3 DEF Children, Unclaimed, Concluding
  <1>8. OnDisk(i)'
    BY <1>2, <1>3, <1>4 DEF OnDisk, Mine, Concluding
  <1> QED
    BY <1>5, <1>6, <1>7, <1>8

\* A check that returns: it passes only when it has what it needs, and one that may have
\* left processes behind has failed.
LEMMA ReturnAccounted ==
    ASSUME IInv, NEW i \in Invocations, Accounted(i), StepReturns(i) \/ WaitGivesUp(i)
    PROVE  Accounted(i)'
  <1> USE DEF Accounted
  <1>0. /\ TypeOK /\ Ownership /\ mem[i] \in Record /\ current[i] \in 0..N /\ N \in Nat
        /\ \A k \in Commands : k \in STEPS
    BY ConstantsAssumption DEF IInv, TypeOK
  <1>1. PICK status \in Finished, e \in {"none"} \cup Errors :
          /\ Found(i, status, e) /\ e \in {err[i], "unavailable"}
          /\ WaitGivesUp(i) => status = "failed"
          /\ ~WaitGivesUp(i) => \E result \in Findings(i) : status = StatusOf(result)
    BY <1>0, ReturnFinds
  <1> DEFINE rec == SetStep(mem[i], current[i], status)
  <1>2. /\ status \in Done \cup {"failed"}
        /\ status = "passed" /\ current[i] \in Commands => current[i] \in mem[i].pids
    BY <1>1 DEF Findings, StatusOf, Done, Records, Finished
  <1>3. /\ rec.owner = mem[i].owner /\ rec.decision = mem[i].decision /\ rec.pids = mem[i].pids
        /\ rec.status = mem[i].status
        /\ \A j \in STEPS : rec.steps[j] = IF j = current[i] THEN status ELSE mem[i].steps[j]
    BY <1>0, SetStepKeeps
  <1>a. /\ mem' = [mem EXCEPT ![i] = rec]
        /\ blocked' = [blocked EXCEPT ![i] = @ \/ status = "failed"]
        /\ \/ /\ disk' = [disk EXCEPT ![run[i]] = rec]
              /\ pc' = [pc EXCEPT ![i] = "stepped"] /\ err' = [err EXCEPT ![i] = e]
           \/ /\ pc' = [pc EXCEPT ![i] = "ending"] /\ err' = [err EXCEPT ![i] = "failed"]
              /\ disk' = disk
    BY <1>1 DEF Found, Save, Raise
  <1> HIDE DEF rec
  <1>4. /\ pc[i] \in Operating /\ UNCHANGED <<run, current, outcome>>
        /\ mem'[i] = rec /\ (~blocked'[i] => ~blocked[i] /\ status # "failed")
        /\ \/ pc'[i] = "stepped" /\ disk'[run[i]] = rec /\ err'[i] \in {err[i], "unavailable"}
           \/ pc'[i] = "ending" /\ err'[i] = "failed" /\ disk' = disk
    <2>1. pc[i] \in Operating /\ UNCHANGED <<run, current, outcome>>
      BY DEF StepReturns, WaitGivesUp, Returning
    <2>2. mem'[i] = rec /\ (~blocked'[i] => ~blocked[i] /\ status # "failed")
      BY <1>0, <1>a DEF TypeOK
    <2>3. \/ pc'[i] = "stepped" /\ disk'[run[i]] = rec /\ err'[i] \in {err[i], "unavailable"}
          \/ pc'[i] = "ending" /\ err'[i] = "failed" /\ disk' = disk
      BY <1>0, <1>1, <1>a DEF TypeOK
    <2> QED
      BY <2>1, <2>2, <2>3
  <1>b. /\ child'[i] = "none"
        /\ \/ left'[i] = left[i]
           \/ /\ left'[i] = left[i] \cup {current[i]}
              /\ pc[i] = "commanding" /\ status = "failed"
    <2>1. CASE WaitGivesUp(i)
      BY <1>0, <1>1, <2>1 DEF TypeOK, WaitGivesUp, Abandon, Children
    <2>2. CASE ~WaitGivesUp(i)
      BY <1>0, <2>2 DEF TypeOK, StepReturns, Reclaim
    <2> QED
      BY <2>1, <2>2
  <1>5. mem[i].status = "running"
    BY <1>0, <1>4 DEF Ownership, Unfinished
  <1>6. Records(i)'
    <2>1. \A k \in Commands : rec.steps[k] = "passed" => k \in rec.pids
      BY <1>0, <1>2, <1>3 DEF Records
    <2> QED
      BY <1>3, <1>4, <1>5, <2>1 DEF Records
  <1>7. Checked(i)'
    <2>1. ~blocked'[i] => \A k \in STEPS : k < current[i] \/ k = current[i] => rec.steps[k] \in Done
      BY <1>2, <1>3, <1>4, <1>5 DEF Checked
    <2> QED
      BY <1>4, <2>1 DEF Checked, Unclaimed
  <1>c. \A k \in left'[i] : /\ k \in STEPS /\ k <= current[i]
                           /\ k \in rec.pids /\ rec.steps[k] \notin Done
    <2>1. \A k \in left[i] : k # current[i]
      BY <1>4 DEF Children
    <2>2. pc[i] = "commanding" =>
            current[i] \in STEPS /\ current[i] <= current[i] /\ current[i] \in mem[i].pids
      BY <1>0 DEF Records, Record
    <2> QED
      BY <1>3, <1>b, <2>1, <2>2 DEF Children, Done
  <1>8. Children(i)'
    <2>1. err'[i] # "timed_out"
      BY <1>4 DEF Children
    <2> QED
      BY <1>4, <1>b, <1>c, <2>1 DEF Children, Unclaimed, Concluding
  <1>9. OnDisk(i)'
    <2>1. disk'[run[i]].status # "absent" /\ disk'[run[i]].owner = i
      BY <1>3, <1>4, <1>5 DEF OnDisk, Mine, Records
    <2>2. pc[i] = "commanding" => current[i] \in disk[run[i]].pids
      BY DEF OnDisk
    <2>3. \A k \in left'[i] : k \in disk'[run[i]].pids /\ disk'[run[i]].steps[k] \notin Done
      BY <1>4, <1>b, <1>c, <2>2 DEF OnDisk
    <2> QED
      BY <1>4, <2>1, <2>3 DEF OnDisk, Mine, Concluding
  <1> QED
    BY <1>6, <1>7, <1>8, <1>9

\* What end() records of a run that is still running.
LEMMA ConcludedRecord ==
    ASSUME TypeOK, NEW i \in Invocations, mem[i].status = "running", NEW m \in BOOLEAN
    PROVE  LET rec == EndRecord(i, err[i], m) IN
           /\ rec.status = EndStatus(err[i]) /\ rec.status \in Terminal
           /\ rec.owner = mem[i].owner /\ rec.pids = mem[i].pids
           /\ \A k \in STEPS : rec.steps[k] \in Done => rec.steps[k] = mem[i].steps[k]
           /\ rec.decision = "allowed" => err[i] = "none" /\ ~blocked[i] /\ rec.steps = mem[i].steps
  <1>1. mem[i] \in Record /\ err[i] \in {"none"} \cup Errors
    BY DEF TypeOK
  <1>2. EndStatus(err[i]) \in Terminal
    BY <1>1 DEF EndStatus, Errors, Terminal
  <1>3. mem[i].steps \in [STEPS -> StepStatus]
    BY <1>1 DEF Record
  <1> DEFINE rec == Concluded(i, err[i], m)
  <1>4. EndRecord(i, err[i], m) = rec
    BY DEF EndRecord
  <1>5. /\ rec.status = EndStatus(err[i]) /\ rec.owner = mem[i].owner /\ rec.pids = mem[i].pids
        /\ rec.decision = (IF err[i] = "none" THEN Decision(i, m) ELSE "none")
        /\ rec.steps = [k \in STEPS |-> IF err[i] # "none" /\ k = current[i]
                                        THEN EndStatus(err[i]) ELSE mem[i].steps[k]]
    BY <1>1 DEF Concluded, Record
  <1> HIDE DEF rec
  <1>6. \A k \in STEPS : rec.steps[k] \in Done => rec.steps[k] = mem[i].steps[k]
    BY <1>2, <1>5 DEF Terminal, Done
  <1>7. rec.decision = "allowed" => err[i] = "none" /\ ~blocked[i] /\ rec.steps = mem[i].steps
    BY <1>3, <1>5 DEF Decision
  <1> QED
    BY <1>2, <1>4, <1>5, <1>6, <1>7

\* The end of a run.
LEMMA EndAccounted ==
    ASSUME IInv, NEW i \in Invocations, Accounted(i), End(i)
    PROVE  Accounted(i)' /\ Justified(disk'[run[i]])
  <1> USE DEF Accounted
  <1>0. /\ TypeOK /\ mem[i].status = "running" /\ outcome[i] = "none"
        /\ \A k \in Commands : k \in STEPS
    BY ConstantsAssumption DEF IInv, Ownership, Unfinished, End
  <1>1. PICK m \in BOOLEAN :
          Save(i, EndRecord(i, err[i], m)) /\ mem' = [mem EXCEPT ![i] = EndRecord(i, err[i], m)]
    BY DEF End
  <1> DEFINE rec == EndRecord(i, err[i], m)
  <1>2. /\ rec.status = EndStatus(err[i]) /\ rec.status \in Terminal
        /\ rec.owner = mem[i].owner /\ rec.pids = mem[i].pids
        /\ \A k \in STEPS : rec.steps[k] \in Done => rec.steps[k] = mem[i].steps[k]
        /\ rec.decision = "allowed" => err[i] = "none" /\ ~blocked[i] /\ rec.steps = mem[i].steps
    BY <1>0, ConcludedRecord
  <1> HIDE DEF rec
  <1>3. /\ pc[i] = "ending" /\ pc'[i] = "closing" /\ mem'[i] = rec /\ disk'[run[i]] = rec
        /\ UNCHANGED <<run, current, blocked, err, child, left>>
        /\ outcome'[i] \in {"none", "raised"}
    BY <1>0, <1>1 DEF TypeOK, End, Save, rec
  <1>4. Records(i)' /\ Checked(i)'
    BY <1>0, <1>2, <1>3 DEF Records, Checked, Unclaimed, Done
  <1>5. Children(i)' /\ OnDisk(i)'
    BY <1>2, <1>3 DEF Children, OnDisk, Mine, Records, Unclaimed, Concluding, Terminal
  <1>6. Justified(rec)
    <2> SUFFICES ASSUME rec.decision = "allowed" PROVE Justified(rec)
      BY DEF Justified
    <2>1. rec.status = "completed" /\ rec.steps = mem[i].steps
      BY <1>2 DEF EndStatus
    <2>2. \A k \in STEPS : mem[i].steps[k] \in Done
      BY <1>2, <1>3 DEF Checked
    <2>3. \A k \in Commands : mem[i].steps[k] = "passed" => k \in rec.pids
      BY <1>2 DEF Records
    <2> QED
      BY <2>1, <2>2, <2>3 DEF Justified
  <1> QED
    BY <1>3, <1>4, <1>5, <1>6

\* What comes after, and what may come at any time.
LEMMA ConcludeAccounted ==
    ASSUME IInv, NEW i \in Invocations, Accounted(i),
           EndSaveFails(i) \/ Close(i) \/ ReturnRecord(i) \/ LateError(i) \/ Cancel(i) \/ Crash(i)
    PROVE  Accounted(i)'
  <1> USE DEF Accounted
  <1>0. TypeOK /\ Ownership
    BY DEF IInv
  <1>1. CASE EndSaveFails(i)
    <2>1. outcome[i] = "none"
      BY <1>0, <1>1 DEF EndSaveFails, Ownership, Unfinished
    <2>2. /\ pc[i] = "ending" /\ UNCHANGED <<run, mem, disk, current, blocked, child, left>>
          /\ outcome'[i] \in {"none", "raised", "failed"}
          /\ \/ pc'[i] = "ending" /\ err'[i] = "failed"
             \/ pc'[i] = "closing" /\ err'[i] = err[i]
      BY <1>0, <1>1, <2>1 DEF TypeOK, EndSaveFails, Raise
    <2> QED
      BY <2>2 DEF Records, Checked, Children, OnDisk, Mine, Unclaimed, Concluding
  <1>2. CASE Close(i) \/ Cancel(i)
    <2>1. /\ pc'[i] = pc[i] \/ (pc[i] = "closing" /\ pc'[i] = "returning")
          /\ UNCHANGED <<run, mem, disk, current, blocked, err, child, left, outcome>>
      BY <1>0, <1>2 DEF TypeOK, Close, Cancel
    <2> QED
      BY <2>1 DEF Records, Checked, Children, OnDisk, Mine, Unclaimed, Concluding
  <1>3. CASE ReturnRecord(i)
    <2>1. /\ pc[i] = "returning" /\ pc'[i] = "returned"
          /\ UNCHANGED <<run, mem, disk, current, blocked, err, child, left>>
          /\ outcome'[i] = IF outcome[i] = "none" THEN mem[i].status ELSE outcome[i]
      BY <1>0, <1>3 DEF TypeOK, ReturnRecord
    <2>2. outcome[i] = "none" => disk[run[i]] = mem[i]
      BY <1>0, <2>1 DEF Ownership, Settled, Concluding
    <2>3. outcome'[i] \in Terminal \ {"failed"} => disk[run[i]].status = outcome'[i]
      BY <2>1, <2>2 DEF OnDisk, Concluding, Terminal
    <2> QED
      BY <2>1, <2>3 DEF Records, Checked, Children, OnDisk, Mine, Unclaimed, Concluding
  <1>4. CASE LateError(i)
    <2>1. disk' = disk
      BY <1>0, <1>4, LateErrorKeeps DEF Ownership
    <2>2. /\ pc[i] \in Concluding /\ outcome'[i] = "raised"
          /\ UNCHANGED <<pc, run, mem, current, blocked, err, child, left>>
      BY <1>0, <1>4 DEF TypeOK, LateError, Concluding
    <2> QED
      BY <2>1, <2>2 DEF Records, Checked, Children, OnDisk, Mine, Unclaimed, Concluding
  <1>5. CASE Crash(i)
    <2>1. /\ pc[i] \in Active /\ pc'[i] = "dead"
          /\ child'[i] = "none"
          /\ left'[i] = IF child[i] = "running" THEN left[i] \cup {current[i]} ELSE left[i]
          /\ UNCHANGED <<run, mem, disk, current, blocked, err, outcome>>
      BY <1>0, <1>5 DEF TypeOK, Crash, Abandon
    <2>2. child[i] = "running" =>
            current[i] \in STEPS /\ current[i] <= current[i] /\ current[i] \in mem[i].pids
      BY <1>0, ConstantsAssumption DEF Children, Records, Record, TypeOK
    <2>3. Records(i)' /\ Checked(i)'
      BY <2>1 DEF Records, Checked, Unclaimed
    <2>4. Children(i)'
      BY <2>1, <2>2 DEF Children, Records, Unclaimed, Concluding
    <2>5. OnDisk(i)'
      BY <2>1 DEF OnDisk, Children, Mine, Concluding
    <2> QED
      BY <2>3, <2>4, <2>5
  <1> QED
    BY <1>1, <1>2, <1>3, <1>4, <1>5

\* No file comes to say "allowed" but by the end of its run.
LEMMA FilesStayJustified ==
    ASSUME IInv, NEW i \in Invocations, InvocationStep(i), Accounted(i), FilesJustified
    PROVE  FilesJustified'
  <1>0. TypeOK /\ Ownership
    BY DEF IInv
  <1>1. CASE End(i)
    <2>1. Justified(disk'[run[i]])
      BY <1>1, EndAccounted
    <2>2. \A r \in RunIds \ {run[i]} : disk'[r] = disk[r]
      BY <1>0, <1>1 DEF TypeOK, End, Save
    <2> QED
      BY <2>1, <2>2 DEF FilesJustified, Justified
  <1>2. CASE FirstSave(i)
    <2>1. Justified(mem[i])
      BY <1>2 DEF FirstSave, Justified, Accounted, Records, Unclaimed
    <2>2. \A r \in RunIds : disk'[r] = IF r = run[i] THEN mem[i] ELSE disk[r]
      BY <1>0, <1>2 DEF TypeOK, FirstSave, Save
    <2> QED
      BY <2>1, <2>2 DEF FilesJustified, Justified
  <1>3. CASE Check(i)
    <2>1. PICK rec \in Record : /\ mem' = [mem EXCEPT ![i] = rec]
                                /\ disk' = disk \/ disk' = [disk EXCEPT ![run[i]] = rec]
      BY <1>0, <1>3, CheckWorks DEF Works, Ownership
    <2>2. pc[i] \in Owning /\ (\E to \in Owning : pc' = [pc EXCEPT ![i] = to])
      BY <1>0, <1>3, CheckWorks DEF Works, Ownership
    <2>3. Records(i)'
      BY <1>3, BeginAccounted, CommandAccounted, RaiseAccounted, ReturnAccounted DEF Check, Accounted
    <2>4. rec.decision = "none"
      BY <1>0, <2>1, <2>2, <2>3 DEF TypeOK, Records
    <2>5. \A r \in RunIds : disk'[r] = disk[r] \/ disk'[r] = rec
      BY <1>0, <2>1 DEF TypeOK
    <2> QED
      BY <2>4, <2>5 DEF FilesJustified, Justified
  <1>4. CASE LateError(i)
    BY <1>0, <1>4, LateErrorKeeps DEF Ownership, FilesJustified, Justified
  <1>5. CASE UNCHANGED disk
    BY <1>5 DEF FilesJustified, Justified
  <1> QED
    BY <1>1, <1>2, <1>3, <1>4, <1>5 DEF InvocationStep, Progress, Claim, Conclude, Call, Refuse,
       EnterDirectory, RunIdExists, RunIdFree, CreateLock, CreateLockFails, FirstSaveFails,
       EndSaveFails, Close, ReturnRecord, Cancel, Crash

\* The invariant of the whole: who owns what, what queries may have seen, and that every
\* invocation can account for its record, its command and its file.
AInv == IInv /\ (\A i \in Invocations : Accounted(i)) /\ FilesJustified

LEMMA InitAInv == Init => AInv
  <1> SUFFICES ASSUME Init PROVE AInv
    OBVIOUS
  <1>1. \A i \in Invocations : Accounted(i)
    BY ConstantsAssumption
       DEF Init, Accounted, Records, Checked, Children, OnDisk, Mine, NewRecord, Unclaimed, Concluding
  <1>2. FilesJustified
    BY DEF Init, FilesJustified, NoRecord
  <1> QED
    BY <1>1, <1>2, InitIInv DEF AInv

LEMMA StepAccounted ==
    ASSUME IInv, NEW i \in Invocations, Accounted(i), InvocationStep(i)
    PROVE  Accounted(i)'
  BY ClaimAccounted, BeginAccounted, CommandAccounted, RaiseAccounted, ReturnAccounted, EndAccounted,
     ConcludeAccounted DEF InvocationStep, Progress, Check, Conclude

LEMMA NextAInv == AInv /\ [Next]_vars => AInv'
  <1> SUFFICES ASSUME AInv, [Next]_vars PROVE AInv'
    OBVIOUS
  <1>1. IInv'
    BY NextIInv DEF AInv
  <1>2. ASSUME NEW i \in Invocations, InvocationStep(i) PROVE AInv'
    <2>1. \A j \in Invocations : Accounted(j)'
      BY <1>2, StepAccounted, OthersAccounted DEF AInv
    <2>2. FilesJustified'
      BY <1>2, FilesStayJustified DEF AInv
    <2> QED
      BY <1>1, <2>1, <2>2 DEF AInv
  <1>3. CASE UNCHANGED invocationVars
    BY <1>1, <1>3 DEF AInv, Accounted, Records, Checked, Children, OnDisk, Mine, FilesJustified, Justified
  <1>4. ASSUME NEW q \in Queries, Ask(q) \/ Query(q) PROVE UNCHANGED invocationVars
    BY <1>4 DEF Ask, Query, ReadRecord, Probe, LetGo, ProbeFails, Reread
  <1>5. CASE UNCHANGED vars \/ AllEnded
    BY <1>5, <1>3 DEF AllEnded
  <1> QED
    BY <1>2, <1>3, <1>4, <1>5 DEF Next, InvocationStep

\* A record says "allowed" only when every check was carried out.
THEOREM AllowedRunsWereChecked == Spec => []AllowedMeansChecked
  <1>1. AInv => AllowedMeansChecked
    BY DEF AInv, FilesJustified, Justified, AllowedMeansChecked, Done
  <1> QED
    BY <1>1, InitAInv, NextAInv, PTL DEF Spec

\* What the caller is told is what the disk says, except "failed".
THEOREM AnswersArePersisted == Spec => []ReturnedIsPersisted
  <1>1. AInv => ReturnedIsPersisted
    BY DEF AInv, Accounted, OnDisk, Mine, ReturnedIsPersisted
  <1> QED
    BY <1>1, InitAInv, NextAInv, PTL DEF Spec

\* No command of the project runs without a persisted owner, and no check is on record as done
\* while a process of it may live.
THEOREM CommandsHaveOwners == Spec => []CommandsAreOwned
  <1>1. AInv => CommandsAreOwned
    BY DEF AInv, Accounted, Children, OnDisk, Mine, CommandsAreOwned, Unreclaimed, Done
  <1> QED
    BY <1>1, InitAInv, NextAInv, PTL DEF Spec
-----------------------------------------------------------------------------
(***************************************************************************)
(* Why every call ends.  That each step is taken at last is fairness and    *)
(* TLC's part (EveryCallEnds); that there are finitely many of them, and    *)
(* nobody waits for one who waits, is proved here.                          *)
(***************************************************************************)
\* How many steps an invocation, or a query, can still make.
ToCome(i) ==
    CASE pc[i] \in Ended -> 0
      [] pc[i] = "returning" -> 1
      [] pc[i] = "closing" -> 2
      [] pc[i] = "ending" -> IF err[i] = "none" THEN 4 ELSE 3
      [] OTHER -> 5 + 6 * (N - current[i]) +
           CASE pc[i] = "ready" -> 0
             [] pc[i] \in {"stepped", "saving"} -> 1
             [] pc[i] \in {"commanding", "locking"} -> 2
             [] pc[i] \in {"armed", "creating"} -> 3
             [] pc[i] \in {"spawned", "entering"} -> 4
             [] OTHER -> 5

QueryToCome(q) ==
    CASE qpc[q] = "answered" -> 0
      [] qpc[q] = "read" /\ disk[qrun[q]].status \in Terminal -> 1
      [] qpc[q] = "reread" -> 2
      [] qpc[q] = "held" -> 3
      [] qpc[q] = "probe" -> 4
      [] qpc[q] = "read" /\ disk[qrun[q]].status \notin Terminal -> 5
      [] OTHER -> 6

LEMMA ToComeIsFinite == TypeOK => \A i \in Invocations : ToCome(i) \in Nat
  <1> SUFFICES ASSUME TypeOK, NEW i \in Invocations PROVE ToCome(i) \in Nat
    OBVIOUS
  <1>1. current[i] \in 0..N /\ N \in Nat
    BY ConstantsAssumption DEF TypeOK
  <1> QED
    BY <1>1 DEF ToCome

\* Each step an invocation makes leaves it fewer.
LEMMA ProgressWindsDown ==
    ASSUME TypeOK, NEW i \in Invocations, Call(i) \/ Refuse(i) \/ Progress(i)
    PROVE  ToCome(i)' < ToCome(i)
  <1>0. TypeOK /\ current[i] \in 0..N /\ N \in Nat
    BY ConstantsAssumption DEF TypeOK
  <1> USE DEF ToCome
  <1>1. CASE Call(i) \/ Refuse(i) \/ Claim(i)
    <2>1. /\ UNCHANGED <<current, err>>
          /\ \/ pc'[i] = "returned" /\ pc[i] \in Unclaimed \cup {"saving"}
             \/ pc[i] = Idle /\ pc'[i] = "entering"
             \/ pc[i] = "entering" /\ pc'[i] = "creating"
             \/ pc[i] = "creating" /\ pc'[i] = "locking"
             \/ pc[i] = "locking" /\ pc'[i] = "saving"
             \/ pc[i] = "saving" /\ pc'[i] = "ready"
      BY <1>0, <1>1 DEF TypeOK, Unclaimed, Claim, Call, Refuse, EnterDirectory, RunIdExists,
         RunIdFree, CreateLock, CreateLockFails, FirstSave, FirstSaveFails
    <2> QED
      BY <1>0, <2>1 DEF Unclaimed
  <1>2. CASE Check(i)
    <2>1. \/ /\ pc[i] = "ready" /\ pc'[i] = "operation" /\ current'[i] = current[i] + 1
             /\ current[i] < N
          \/ /\ current' = current
             /\ \/ pc[i] = "operation" /\ pc'[i] \in {"spawned", "stepped"}
                \/ pc[i] = "spawned" /\ pc'[i] \in {"armed", "stepped"}
                \/ pc[i] = "armed" /\ pc'[i] \in {"commanding", "stepped"}
                \/ pc[i] = "commanding" /\ pc'[i] = "stepped"
                \/ pc[i] = "stepped" /\ pc'[i] = "ready"
          \/ pc[i] \in {"ready", "stepped"} \cup Operating /\ pc'[i] = "ending"
      <3>1. CASE StepBegins(i) \/ CancelledBeforeStep(i) \/ AllChecked(i)
        BY <1>0, <3>1 DEF TypeOK, StepBegins, CancelledBeforeStep, AllChecked, Raise
      <3>2. CASE SpawnCommand(i) \/ PersistPid(i) \/ PersistPidFails(i) \/ CommandStarts(i)
        BY <1>0, <3>2 DEF TypeOK, SpawnCommand, PersistPid, PersistPidFails, CommandStarts, Raise
      <3>3. CASE StepReported(i) \/ StepRaises(i) \/ TaskDiffFails(i)
        BY <1>0, <3>3 DEF TypeOK, StepReported, StepRaises, TaskDiffFails, Raise
      <3>4. CASE StepReturns(i) \/ WaitGivesUp(i)
        BY <1>0, <3>4 DEF TypeOK, StepReturns, WaitGivesUp, Returning, Found, Raise
      <3> QED
        BY <1>2, <3>1, <3>2, <3>3, <3>4 DEF Check
    <2> QED
      BY <1>0, <2>1
  <1>3. CASE Conclude(i)
    <2>1. \/ pc[i] = "ending" /\ pc'[i] = "closing"
          \/ pc[i] = "ending" /\ pc'[i] = "ending" /\ err[i] = "none" /\ err'[i] = "failed"
          \/ pc[i] = "closing" /\ pc'[i] = "returning"
          \/ pc[i] = "returning" /\ pc'[i] = "returned"
      BY <1>0, <1>3 DEF TypeOK, Conclude, End, EndSaveFails, Close, ReturnRecord, Raise
    <2> QED
      BY <1>0, <2>1
  <1> QED
    BY <1>1, <1>2, <1>3 DEF Progress

\* A late interrupt or a cancellation gives it no more to do, and a death nothing.
LEMMA NoStepAdds ==
    ASSUME TypeOK, NEW i \in Invocations, LateError(i) \/ Cancel(i) \/ Crash(i)
    PROVE  ToCome(i)' <= ToCome(i)
  <1>1. ToCome(i) \in Nat
    BY ToComeIsFinite
  <1>2. CASE LateError(i) \/ Cancel(i)
    <2>1. ToCome(i)' = ToCome(i)
      BY <1>2 DEF LateError, Cancel, ToCome
    <2> QED
      BY <1>1, <2>1
  <1>3. CASE Crash(i)
    <2>1. ToCome(i)' = 0
      BY <1>3 DEF TypeOK, Crash, ToCome
    <2> QED
      BY <1>1, <2>1
  <1> QED
    BY <1>2, <1>3

\* A run of N checks is over after 6N + 10 steps of its invocation, whatever fails or is
\* cancelled: each of them leaves fewer, and nothing anybody does adds any.
THEOREM InvocationsWindDown ==
    Spec => [][\A i \in Invocations :
                 /\ ToCome(i) \in 0 .. 6 * N + 10 /\ ToCome(i)' <= ToCome(i)
                 /\ Progress(i) => ToCome(i)' < ToCome(i)]_vars
  <1>1. TypeOK /\ [Next]_vars =>
          [\A i \in Invocations :
             /\ ToCome(i) \in 0 .. 6 * N + 10 /\ ToCome(i)' <= ToCome(i)
             /\ Progress(i) => ToCome(i)' < ToCome(i)]_vars
    <2> SUFFICES ASSUME TypeOK, [Next]_vars, vars' # vars, NEW i \in Invocations
                 PROVE  /\ ToCome(i) \in 0 .. 6 * N + 10 /\ ToCome(i)' <= ToCome(i)
                        /\ Progress(i) => ToCome(i)' < ToCome(i)
      OBVIOUS
    <2>1. ToCome(i) \in Nat /\ ToCome(i)' \in Nat /\ ToCome(i) <= 6 * N + 10
      <3>1. current[i] \in 0..N /\ current'[i] \in 0..N /\ N \in Nat
        BY NextTypeOK, ConstantsAssumption DEF TypeOK
      <3> QED
        BY <3>1 DEF ToCome
    <2>2. CASE Progress(i)
      <3>1. ToCome(i)' < ToCome(i)
        BY <2>2, ProgressWindsDown
      <3> QED
        BY <2>1, <3>1, ConstantsAssumption
    <2>3. CASE ~Progress(i)
      <3>1. \/ InvocationStep(i)
            \/ \E j \in Invocations \ {i} : InvocationStep(j)
            \/ AllEnded \/ \E q \in Queries : Ask(q) \/ Query(q)
        BY DEF Next, InvocationStep
      <3>2. CASE InvocationStep(i)
        <4>1. CASE Call(i) \/ Refuse(i)
          <5>1. ToCome(i)' < ToCome(i)
            BY <4>1, ProgressWindsDown
          <5> QED
            BY <2>1, <2>3, <5>1, ConstantsAssumption
        <4>2. CASE LateError(i) \/ Cancel(i) \/ Crash(i)
          BY <2>1, <2>3, <4>2, NoStepAdds, ConstantsAssumption
        <4> QED
          BY <2>3, <3>2, <4>1, <4>2 DEF InvocationStep
      <3>3. CASE ~InvocationStep(i)
        <4>1. pc'[i] = pc[i] /\ current'[i] = current[i] /\ err'[i] = err[i]
          <5>1. CASE \E j \in Invocations \ {i} : InvocationStep(j)
            BY <5>1, OthersUntouched
          <5>2. CASE AllEnded \/ \E q \in Queries : Ask(q) \/ Query(q)
            BY <5>2 DEF AllEnded, Ask, Query, ReadRecord, Probe, LetGo, ProbeFails, Reread
          <5> QED
            BY <3>1, <3>3, <5>1, <5>2
        <4>2. ToCome(i)' = ToCome(i)
          BY <4>1 DEF ToCome
        <4> QED
          BY <2>1, <2>3, <4>2, ConstantsAssumption
      <3> QED
        BY <3>2, <3>3
    <2> QED
      BY <2>2, <2>3
  <1> QED
    BY <1>1, TypeCorrect, PTL DEF Spec

\* Whoever waits for the directory waits for one who does not wait itself: its holder is
\* claiming a run id, which takes at most three steps, and gives it back when it dies.
THEOREM DirectoryHolderWorks ==
    Spec => [](dirLock # NoOne => dirLock \in Invocations /\ pc[dirLock] \in Claiming)
  <1>1. IInv => (dirLock # NoOne => dirLock \in Invocations /\ pc[dirLock] \in Claiming)
    BY DEF IInv, TypeOK, Ownership, OneInDirectory
  <1> QED
    BY <1>1, InitIInv, NextIInv, PTL DEF Spec

\* A query asks a second time at most once: only for a result, and results are final.
THEOREM QueriesWindDown ==
    Spec => [][\A q \in Queries :
                 /\ QueryToCome(q)' <= QueryToCome(q)
                 /\ Query(q) => QueryToCome(q)' < QueryToCome(q)]_vars
  <1>1. IInv /\ [Next]_vars =>
          [\A q \in Queries :
             /\ QueryToCome(q)' <= QueryToCome(q)
             /\ Query(q) => QueryToCome(q)' < QueryToCome(q)]_vars
    <2> SUFFICES ASSUME IInv, [Next]_vars, vars' # vars, NEW q \in Queries
                 PROVE  /\ QueryToCome(q)' <= QueryToCome(q)
                        /\ Query(q) => QueryToCome(q)' < QueryToCome(q)
      OBVIOUS
    <2> USE DEF QueryToCome
    <2>1. CASE Ask(q) \/ Query(q)
      <3>1. disk' = disk /\ qrun' = qrun
        BY <2>1 DEF Ask, Query, ReadRecord, Probe, LetGo, ProbeFails, Reread
      <3>2. \/ qpc[q] = Idle /\ qpc'[q] = "read" /\ ~Query(q)
            \/ qpc[q] = "read" /\ qpc'[q] = "answered"
            \/ qpc[q] = "read" /\ qpc'[q] = "probe" /\ disk[qrun[q]].status \notin Terminal
            \/ qpc[q] = "probe" /\ qpc'[q] \in {"answered", "held"}
            \/ qpc[q] = "held" /\ qpc'[q] = "reread"
            \/ qpc[q] = "reread" /\ qpc'[q] = "answered"
            \/ qpc[q] = "reread" /\ qpc'[q] = "read" /\ disk[qrun[q]].status \in Terminal
        <4>1. disk[qrun[q]].status \in Terminal \cup {"absent", "running"}
          BY AbsentStatus, RecordStatus DEF IInv, TypeOK
        <4> QED
          BY <2>1, <4>1 DEF IInv, TypeOK, Answers, Answer, Ask, Query, ReadRecord, Probe, LetGo,
             ProbeFails, Reread, Terminal
      <3> QED
        BY <3>1, <3>2
    <2>2. CASE ~Ask(q) /\ ~Query(q)
      <3>1. qpc'[q] = qpc[q] /\ qrun'[q] = qrun[q]
        <4>1. CASE \E i \in Invocations : InvocationStep(i)
          BY <4>1, StepMoves DEF IInv, Moves
        <4>2. CASE AllEnded
          BY <4>2 DEF AllEnded
        <4>3. CASE \E p \in Queries \ {q} : Ask(p) \/ Query(p)
          BY <4>3 DEF IInv, TypeOK, Ask, Query, ReadRecord, Probe, LetGo, ProbeFails, Reread, Answer
        <4> QED
          BY <2>2, <4>1, <4>2, <4>3 DEF Next, InvocationStep
      <3>2. disk[qrun[q]].status \in Terminal => disk'[qrun[q]] = disk[qrun[q]]
        <4>1. CASE \E i \in Invocations : InvocationStep(i)
          BY <4>1, StepMoves DEF IInv, Moves, TypeOK, Held, HeldNext, Terminal
        <4>2. CASE disk' = disk
          BY <4>2
        <4> QED
          BY <4>1, <4>2 DEF Next, InvocationStep, AllEnded, Ask, Query, ReadRecord, Probe, LetGo,
             ProbeFails, Reread
      <3> QED
        BY <2>2, <3>1, <3>2
    <2> QED
      BY <2>1, <2>2
  <1> QED
    BY <1>1, InitIInv, NextIInv, PTL DEF Spec
=============================================================================
