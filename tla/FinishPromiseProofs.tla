------------------------- MODULE FinishPromiseProofs -------------------------
(***************************************************************************)
(* FinishRun implements FinishPromise: every step of an invocation or of a  *)
(* query is a step of the promise or changes nothing it can see.  And each  *)
(* invocation implements CommandPromise, as OwnedCommand does: what the one *)
(* keeps is what the other needs.                                           *)
(***************************************************************************)
EXTENDS FinishRunProofs

USE DEF vars, recordVars, lockVars, processVars, controlVars, queryVars, invocationVars, Idle, Goto,
        Return, Unlock, LeaveDirectory, Operating, Owning, Holding, Active, Ended

\* Before any call every run is absent and nobody has been answered.
LEMMA InitPromise == Init => Promise!Init
  BY DEF Init, Promise!Init, StateOf, PlaceOf, NoRecord

\* An invocation opens, settles or loses its own run, or changes nothing visible.
LEMMA StepPromise ==
    ASSUME TypeOK, NEW i \in Invocations, Moves(i)
    PROVE  [Promise!Next]_(Promise!vars)
  <1> DEFINE state == [r \in RunIds |-> StateOf(r)]
             r == run[i]
  <1>1. PICK own \in RunIds : own = run[i]
    BY DEF TypeOK
  <1>2. /\ UNCHANGED queryVars
        /\ \A other \in RunIds \ {own} : StateOf(other)' = StateOf(other)
    BY <1>1 DEF Moves, Held, HeldNext, StateOf
  <1>3. UNCHANGED <<[q \in Queries |-> PlaceOf(q)], qrun, qres>>
    BY <1>2 DEF PlaceOf
  <1>4. \/ StateOf(own)' = StateOf(own)
        \/ StateOf(own) = "absent" /\ StateOf(own)' = "open"
        \/ StateOf(own) = "open" /\ StateOf(own)' \in {"lost"} \cup Terminal
    BY <1>1 DEF Moves, Held, HeldNext, StateOf, Terminal
  <1>5. state' = [state EXCEPT ![own] = StateOf(own)']
    BY <1>2
  <1>6. CASE StateOf(own)' = StateOf(own)
    BY <1>3, <1>5, <1>6 DEF Promise!vars
  <1>7. CASE StateOf(own) = "absent" /\ StateOf(own)' = "open"
    <2>1. Promise!Open(own)
      BY <1>3, <1>5, <1>7 DEF Promise!Open, Promise!Become
    <2> QED
      BY <2>1 DEF Promise!Next
  <1>8. CASE StateOf(own) = "open" /\ StateOf(own)' = "lost"
    <2>1. Promise!Lose(own)
      BY <1>3, <1>5, <1>8 DEF Promise!Lose, Promise!Become
    <2> QED
      BY <2>1 DEF Promise!Next
  <1>9. CASE StateOf(own) = "open" /\ StateOf(own)' \in Terminal
    <2>1. Promise!Settle(own)
      BY <1>3, <1>5, <1>9 DEF Promise!Settle, Promise!Become
    <2> QED
      BY <2>1 DEF Promise!Next
  <1> QED
    BY <1>4, <1>6, <1>7, <1>8, <1>9

\* A query asks, finds out or answers as the promise allows.
LEMMA QueryPromise ==
    ASSUME TypeOK, Answers, NEW q \in Queries, Ask(q) \/ Query(q)
    PROVE  [Promise!Next]_(Promise!vars)
  <1> DEFINE place == [p \in Queries |-> PlaceOf(p)]
             state == [r \in RunIds |-> StateOf(r)]
             s == StateOf(qrun[q])
  <1>1. UNCHANGED <<state, qrun>>
    BY DEF Ask, Query, ReadRecord, Probe, LetGo, ProbeFails, Reread, StateOf, TypeOK
  <1>2. qrun[q] \in RunIds /\ state[qrun[q]] = s
    BY DEF TypeOK
  <1>3. CASE Ask(q)
    <2>1. place' = [place EXCEPT ![q] = "asking"] /\ place[q] = "idle"
      BY <1>3 DEF TypeOK, Ask, PlaceOf
    <2>2. Promise!Ask(q)
      BY <1>1, <1>3, <2>1 DEF Ask, Promise!Ask, Promise!Move
    <2> QED
      BY <2>2 DEF Promise!Next
  <1>4. CASE ReadRecord(q)
    <2>1. place[q] = "asking"
      BY <1>4 DEF ReadRecord, PlaceOf
    <2>2. CASE qpc' = [qpc EXCEPT ![q] = "answered"]
      <3>1. place' = [place EXCEPT ![q] = "answered"]
        BY <2>2 DEF TypeOK, PlaceOf
      <3>2. \/ s = "absent" /\ qres' = [qres EXCEPT ![q] = "not_found"]
            \/ s \in Terminal /\ qres' = [qres EXCEPT ![q] = s]
        BY <1>4, <2>2 DEF ReadRecord, Answer, StateOf, Terminal, TypeOK
      <3>3. Promise!TellAtOnce(q)
        BY <1>1, <1>2, <2>1, <3>1, <3>2
           DEF Promise!TellAtOnce, Promise!Tell, Promise!Move, Promise!Settled
      <3> QED
        BY <3>3 DEF Promise!Next
    <2>3. CASE qpc' = [qpc EXCEPT ![q] = "probe"]
      <3>1. place' = [place EXCEPT ![q] = "undecided"]
        BY <2>3 DEF TypeOK, PlaceOf
      <3>2. s \in {"open", "lost"} /\ UNCHANGED qres
        BY <1>4, <2>3 DEF ReadRecord, Answer, StateOf, Terminal, TypeOK
      <3>3. Promise!Undecided(q)
        BY <1>1, <1>2, <2>1, <3>1, <3>2 DEF Promise!Undecided, Promise!Move
      <3> QED
        BY <3>3 DEF Promise!Next
    <2> QED
      BY <1>4, <2>2, <2>3 DEF ReadRecord, Answer
  <1>5. CASE Probe(q) \/ LetGo(q) \/ ProbeFails(q) \/ Reread(q)
    <2>1. place[q] = "undecided"
      BY <1>5 DEF Probe, LetGo, ProbeFails, Reread, PlaceOf
    <2>2. CASE qpc' = [qpc EXCEPT ![q] = "answered"]
      <3>1. place' = [place EXCEPT ![q] = "answered"]
        BY <2>2 DEF TypeOK, PlaceOf
      <3>2. \/ /\ s # "lost" \/ Promise!Disturbed(q)
               /\ qres' = [qres EXCEPT ![q] = "running"]
            \/ s = "lost" /\ qres' = [qres EXCEPT ![q] = "interrupted"]
            \/ qres' = [qres EXCEPT ![q] = "liveness_unavailable"]
        <4>1. disk[qrun[q]].status # "lost"
          BY <1>2, AbsentStatus, RecordStatus DEF Terminal
        <4>2. Reread(q) => lockHolder[qrun[q]] = NoOne
          BY DEF Reread, Answers
        <4>3. \/ /\ lockHolder[qrun[q]] # NoOne \/ Colliding(q)
                 /\ qres' = [qres EXCEPT ![q] = "running"]
              \/ ProbeFails(q) /\ qres' = [qres EXCEPT ![q] = "liveness_unavailable"]
              \/ /\ Reread(q) /\ disk[qrun[q]].status = "running"
                 /\ qres' = [qres EXCEPT ![q] = "interrupted"]
          BY <1>5, <2>2 DEF Probe, LetGo, ProbeFails, Reread, Answer, TypeOK
        <4>4. Colliding(q) => Promise!Disturbed(q)
          BY DEF Colliding, Promise!Disturbed, PlaceOf
        <4> QED
          BY <4>1, <4>2, <4>3, <4>4 DEF StateOf
      <3>3. Promise!TellRunning(q) \/ Promise!TellLost(q) \/ Promise!CannotTell(q)
        BY <1>1, <1>2, <2>1, <3>1, <3>2
           DEF Promise!TellRunning, Promise!TellLost, Promise!CannotTell, Promise!Tell, Promise!Move
      <3> QED
        BY <3>3 DEF Promise!Next
    <2>3. CASE qpc' \in {[qpc EXCEPT ![q] = "held"], [qpc EXCEPT ![q] = "reread"]}
      <3>1. place' = place
        BY <1>5, <2>3 DEF Probe, LetGo, ProbeFails, Reread, TypeOK, PlaceOf
      <3>2. UNCHANGED qres
        BY <1>5, <2>3 DEF Probe, LetGo, ProbeFails, Reread, Answer, TypeOK
      <3> QED
        BY <1>1, <3>1, <3>2 DEF Promise!vars
    <2>4. CASE Reread(q) /\ qpc' = [qpc EXCEPT ![q] = "read"]
      <3>1. place' = [place EXCEPT ![q] = "asking"]
        BY <2>4 DEF TypeOK, PlaceOf
      <3>2. disk[qrun[q]].status \notin {"absent", "running"}
        BY <2>4 DEF Reread, Answer, TypeOK, Answers
      <3>3. s \in Terminal
        BY <1>2, <3>2, AbsentStatus, RecordStatus DEF StateOf
      <3>4. UNCHANGED qres
        BY <2>4 DEF Reread, Answer, TypeOK
      <3>5. Promise!AskAgain(q)
        BY <1>1, <1>2, <2>1, <3>1, <3>3, <3>4 DEF Promise!AskAgain, Promise!Move, Promise!Settled
      <3> QED
        BY <3>5 DEF Promise!Next
    <2> QED
      BY <1>5, <2>2, <2>3, <2>4 DEF Probe, LetGo, ProbeFails, Reread, Answer
  <1> QED
    BY <1>3, <1>4, <1>5 DEF Query

\* Whatever is saved, cancelled or dies, and whoever asks, the records and locks keep
\* the promise: one result or none per run, and answers that agree with it.
THEOREM PromiseKept == Spec => KeepsPromise
  <1>1. IInv /\ [Next]_vars => [Promise!Next]_(Promise!vars)
    <2> SUFFICES ASSUME IInv, [Next]_vars PROVE [Promise!Next]_(Promise!vars)
      OBVIOUS
    <2>1. CASE UNCHANGED vars \/ AllEnded
      BY <2>1 DEF AllEnded, Promise!vars, StateOf, PlaceOf
    <2>2. CASE \E i \in Invocations : InvocationStep(i)
      BY <2>2, StepMoves, StepPromise DEF IInv
    <2>3. CASE \E q \in Queries : Ask(q) \/ Query(q)
      BY <2>3, QueryPromise DEF IInv
    <2> QED
      BY <2>1, <2>2, <2>3 DEF Next, InvocationStep
  <1> QED
    BY <1>1, InitPromise, InitIInv, NextIInv, PTL DEF Spec, KeepsPromise, Promise!Spec

-----------------------------------------------------------------------------
(***************************************************************************)
(* The commands of an invocation.                                           *)
(***************************************************************************)
\* A check has no process on record before it has one, and nothing is said of a check before
\* it is over.
Fresh(i) ==
    /\ pc[i] \in Unclaimed \cup {"saving"} \cup Owning => \A k \in mem[i].pids : k <= current[i]
    /\ pc[i] \in {"operation", "spawned"} => ~OnRecord(i, current[i])
    /\ pc[i] \in Operating => mem[i].steps[current[i]] = "running"
    /\ \A k \in STEPS : ~(k <= current[i]) => mem[i].steps[k] = "not_run"

\* A check ends well or badly.
CheckEnds(i) ==
    StepReturns(i) \/ WaitGivesUp(i) \/ PersistPidFails(i) \/ StepRaises(i) \/ TaskDiffFails(i)

\* It has said how: a check that left processes behind has failed or was interrupted.
LEMMA CheckEndsSaid ==
    ASSUME TypeOK, NEW i \in Invocations, Children(i), CheckEnds(i)
    PROVE  /\ pc[i] \in Operating /\ pc'[i] \in {"stepped", "ending"} /\ child'[i] = "none"
           /\ UNCHANGED <<run, current>>
           /\ \E status \in Finished \cup {"interrupted"} :
                /\ mem' = [mem EXCEPT ![i] = SetStep(mem[i], current[i], status)]
                /\ left'[i] = left[i]
                     \/ /\ left'[i] = left[i] \cup {current[i]}
                        /\ child[i] = "running" /\ status \in {"failed", "interrupted"}
  <1>1. CASE StepReturns(i) \/ WaitGivesUp(i)
    <2>1. PICK status \in Finished, e \in {"none"} \cup Errors :
            /\ Found(i, status, e) /\ (WaitGivesUp(i) => status = "failed")
      BY <1>1, ReturnFinds
    <2>2. /\ mem' = [mem EXCEPT ![i] = SetStep(mem[i], current[i], status)]
          /\ pc'[i] \in {"stepped", "ending"}
      BY <2>1 DEF Found, Raise, TypeOK
    <2>3. \/ WaitGivesUp(i) /\ Abandon(i)
          \/ StepReturns(i) /\ Reclaim(i)
      BY <1>1 DEF StepReturns, WaitGivesUp
    <2>4. pc[i] \in Operating /\ UNCHANGED <<run, current>>
      BY <1>1 DEF StepReturns, WaitGivesUp, Returning
    <2> QED
      BY <2>1, <2>2, <2>3, <2>4 DEF Abandon, Reclaim, TypeOK
  <1>2. CASE PersistPidFails(i) \/ StepRaises(i)
    <2>1. /\ mem' = [mem EXCEPT ![i] = SetStep(mem[i], current[i], "interrupted")]
          /\ pc[i] \in Operating /\ pc'[i] = "ending" /\ UNCHANGED <<run, current>>
          /\ Reclaim(i) \/ Abandon(i)
      BY <1>2 DEF PersistPidFails, StepRaises, Raise, TypeOK
    <2> QED
      BY <2>1 DEF Abandon, Reclaim, TypeOK
  <1>3. CASE TaskDiffFails(i)
    BY <1>3 DEF TaskDiffFails, TypeOK, Children
  <1> QED
    BY <1>1, <1>2, <1>3 DEF CheckEnds

\* The steps of a check that change its processes or their record.
LEMMA CheckFresh ==
    ASSUME AInv, NEW i \in Invocations, Fresh(i), Check(i)
    PROVE  Fresh(i)'
  <1> USE DEF Fresh
  <1>0. /\ TypeOK /\ mem[i] \in Record /\ current[i] \in 0..N /\ N \in Nat
        /\ mem[i].pids \subseteq 1..N /\ STEPS = 1..N
    BY ConstantsAssumption DEF AInv, IInv, TypeOK, Record, STEPS
  <1>1. CASE StepBegins(i)
    <2> DEFINE rec == SetStep(mem[i], current[i] + 1, "running")
    <2>1. /\ rec.pids = mem[i].pids
          /\ \A j \in STEPS : rec.steps[j] = IF j = current[i] + 1 THEN "running"
                                            ELSE mem[i].steps[j]
      BY <1>0, SetStepKeeps
    <2>2. /\ pc[i] = "ready" /\ current'[i] = current[i] + 1 /\ mem'[i] = rec /\ run' = run
          /\ current[i] < N
          /\ \/ pc'[i] = "operation" /\ err' = err /\ disk'[run[i]] = rec
             \/ pc'[i] = "ending"
      BY <1>0, <1>1 DEF TypeOK, StepBegins, Save, Raise
    <2> HIDE DEF rec
    <2>3. \A k \in mem[i].pids : k <= current[i] /\ k <= current[i] + 1 /\ k # current[i] + 1
      BY <1>0, <2>2
    <2>4. /\ current[i] + 1 \in STEPS
          /\ \A k \in STEPS : ~(k <= current[i] + 1) => ~(k <= current[i]) /\ k # current[i] + 1
      BY <1>0, <2>2
    <2> QED
      BY <2>1, <2>2, <2>3, <2>4 DEF OnRecord, Unclaimed
  <1>2. CASE SpawnCommand(i)
    <2>1. mem'[i].pids = mem[i].pids \cup {current[i]} /\ mem'[i].steps = mem[i].steps
      BY <1>0, <1>2 DEF TypeOK, SpawnCommand, Record
    <2>2. /\ pc[i] = "operation" /\ pc'[i] = "spawned"
          /\ UNCHANGED <<run, disk, current, err>>
      BY <1>0, <1>2 DEF TypeOK, SpawnCommand
    <2>3. current[i] <= current[i]
      BY <1>0
    <2> QED
      BY <2>1, <2>2, <2>3 DEF OnRecord, Unclaimed
  <1>3. CASE PersistPid(i) \/ CommandStarts(i) \/ StepReported(i) \/ CancelledBeforeStep(i)
             \/ AllChecked(i)
    BY <1>0, <1>3 DEF TypeOK, PersistPid, CommandStarts, StepReported, CancelledBeforeStep,
       AllChecked, Raise, Unclaimed
  <1>4. CASE CheckEnds(i)
    <2>1. PICK status : mem' = [mem EXCEPT ![i] = SetStep(mem[i], current[i], status)]
      BY <1>0, <1>4, CheckEndsSaid DEF AInv, Accounted
    <2>2. /\ mem'[i].pids = mem[i].pids
          /\ \A j \in STEPS : j # current[i] => mem'[i].steps[j] = mem[i].steps[j]
      BY <1>0, <2>1, SetStepKeeps DEF TypeOK
    <2>3. pc[i] \in Operating /\ pc'[i] \in {"stepped", "ending"} /\ current' = current
      BY <1>0, <1>4, CheckEndsSaid DEF AInv, Accounted
    <2>4. \A k \in STEPS : ~(k <= current[i]) => k # current[i]
      BY <1>0
    <2> QED
      BY <2>2, <2>3, <2>4 DEF Unclaimed
  <1> QED
    BY <1>1, <1>2, <1>3, <1>4 DEF Check, CheckEnds

\* All others.
LEMMA StepFresh ==
    ASSUME AInv, NEW i \in Invocations, Fresh(i), InvocationStep(i)
    PROVE  Fresh(i)'
  <1> USE DEF Fresh, Unclaimed
  <1>0. /\ TypeOK /\ Children(i) /\ Ownership /\ Unfinished
        /\ mem[i] \in Record /\ current[i] \in 0..N /\ N \in Nat
    BY ConstantsAssumption DEF AInv, IInv, Accounted, Ownership, TypeOK
  <1>1. CASE Call(i) \/ Refuse(i) \/ Claim(i)
    BY <1>0, <1>1 DEF TypeOK, Claim, Call, Refuse, EnterDirectory, RunIdExists, RunIdFree,
       CreateLock, CreateLockFails, FirstSave, FirstSaveFails
  <1>2. CASE End(i)
    <2>1. PICK m \in BOOLEAN : mem' = [mem EXCEPT ![i] = EndRecord(i, err[i], m)]
      BY <1>2 DEF End
    <2>2. mem[i].status = "running" /\ mem'[i] = Concluded(i, err[i], m)
      BY <1>0, <1>2, <2>1 DEF TypeOK, EndRecord, End, Unfinished
    <2>3. /\ mem'[i].pids = mem[i].pids
          /\ \A k \in STEPS : k # current[i] => mem'[i].steps[k] = mem[i].steps[k]
      BY <1>0, <2>2 DEF Concluded, Record
    <2>4. pc[i] = "ending" /\ pc'[i] = "closing" /\ current' = current
      BY <1>0, <1>2 DEF TypeOK, End
    <2>5. \A k \in STEPS : ~(k <= current[i]) => k # current[i]
      BY <1>0
    <2> QED
      BY <2>3, <2>4, <2>5
  <1>3. CASE EndSaveFails(i)
    BY <1>0, <1>3 DEF TypeOK, EndSaveFails, Raise
  <1>4. CASE Close(i) \/ ReturnRecord(i)
    BY <1>0, <1>4 DEF TypeOK, Close, ReturnRecord
  <1>5. CASE LateError(i)
    <2>1. pc[i] \in {"closing", "returning"} /\ UNCHANGED <<pc, mem, current>>
      BY <1>5 DEF LateError
    <2> QED
      BY <2>1
  <1>6. CASE Cancel(i)
    BY <1>0, <1>6 DEF TypeOK, Cancel, OnRecord
  <1>7. CASE Crash(i)
    <2>1. pc'[i] = "dead" /\ UNCHANGED <<mem, current>>
      BY <1>0, <1>7 DEF TypeOK, Crash
    <2> QED
      BY <1>0, <2>1
  <1> QED
    BY <1>1, <1>2, <1>3, <1>4, <1>5, <1>6, <1>7, CheckFresh DEF InvocationStep, Progress, Conclude

LEMMA CommandsAreSteps == Commands \subseteq STEPS
  BY ConstantsAssumption DEF STEPS

\* The steps of a check as its caller and its processes show them.
LEMMA CheckAsPromised ==
    ASSUME AInv, NEW i \in Invocations, Fresh(i), Check(i), NEW k \in Commands
    PROVE  [Command(i, k)!Next]_(Command(i, k)!vars)
  <1> USE DEF CallerOf, TreeOf, Command!vars
  <1>0. /\ TypeOK /\ Ownership /\ Accounted(i) /\ k \in STEPS /\ current[i] \in 0..N /\ N \in Nat
        /\ mem[i] \in Record
    BY ConstantsAssumption, CommandsAreSteps DEF AInv, IInv, TypeOK
  <1>1. CASE SpawnCommand(i)
    <2>1. /\ pc[i] = "operation" /\ pc'[i] = "spawned" /\ child'[i] = "waiting"
          /\ UNCHANGED <<run, disk, current, left>> /\ mem'[i].steps = mem[i].steps
      BY <1>0, <1>1 DEF TypeOK, SpawnCommand, Record
    <2>2. /\ child[i] = "none" /\ ~OnRecord(i, current[i])'
          /\ current[i] \notin left[i] /\ mem[i].steps[current[i]] = "running"
      BY <1>0, <2>1 DEF Accounted, Children, Fresh, OnRecord, TypeOK
    <2>3. /\ SaidFailed(i, k)' = SaidFailed(i, k) /\ Unreclaimed(i)' = Unreclaimed(i)
          /\ current[i] \notin Unreclaimed(i) /\ ~SaidFailed(i, current[i])
      BY <2>1, <2>2 DEF SaidFailed, Unreclaimed, Terminal
    <2>4. CASE k = current[i]
      <3>1. Command(i, k)!Spawn
        BY <2>1, <2>2, <2>3, <2>4 DEF Command!Spawn, Command!Grows
      <3> QED
        BY <3>1 DEF Command!Next
    <2>5. CASE k # current[i]
      BY <2>1, <2>3, <2>5
    <2> QED
      BY <2>4, <2>5
  <1>2. CASE PersistPid(i)
    <2>1. /\ pc[i] = "spawned" /\ pc'[i] = "armed" /\ disk'[run[i]] = mem[i]
          /\ UNCHANGED <<run, mem, current, child, left>>
      BY <1>0, <1>2 DEF TypeOK, PersistPid, Save
    <2>2. /\ child[i] = "waiting" /\ ~OnRecord(i, current[i]) /\ mem[i].status # "absent"
          /\ mem[i].owner = i /\ current[i] \in mem[i].pids /\ current[i] \notin left[i]
      BY <1>0, <2>1 DEF Accounted, Children, Records, Fresh, Ownership, Unfinished
    <2>3. /\ SaidFailed(i, k)' = SaidFailed(i, k) /\ Unreclaimed(i)' = Unreclaimed(i)
          /\ current[i] \notin Unreclaimed(i)
      BY <2>1, <2>2 DEF SaidFailed, Unreclaimed
    <2>4. CASE k = current[i]
      <3>1. Command(i, k)!Record
        BY <2>1, <2>2, <2>3, <2>4 DEF Command!Record, Command!Grows, OnRecord
      <3> QED
        BY <3>1 DEF Command!Next
    <2>5. CASE k # current[i]
      BY <2>1, <2>3, <2>5
    <2> QED
      BY <2>4, <2>5
  <1>3. CASE CommandStarts(i)
    <2>1. /\ pc[i] = "armed" /\ pc'[i] = "commanding" /\ child'[i] = "running"
          /\ UNCHANGED <<run, mem, current, disk, left>>
      BY <1>0, <1>3 DEF TypeOK, CommandStarts
    <2>2. /\ child[i] = "waiting" /\ OnRecord(i, current[i])
          /\ current[i] \notin left[i] /\ current[i] \in STEPS
      BY <1>0, <2>1 DEF Accounted, Children, Records, Record, OnDisk, Mine, OnRecord
    <2>3. /\ SaidFailed(i, k)' = SaidFailed(i, k) /\ current[i] \notin Unreclaimed(i)
          /\ k \in Unreclaimed(i)' <=> k \in Unreclaimed(i) \/ k = current[i]
      BY <1>0, <2>1, <2>2 DEF SaidFailed, Unreclaimed
    <2>4. CASE k = current[i]
      <3>1. Command(i, k)!Start
        BY <2>1, <2>2, <2>3, <2>4 DEF Command!Start, Command!Grows
      <3> QED
        BY <3>1 DEF Command!Next
    <2>5. CASE k # current[i]
      BY <2>1, <2>3, <2>5
    <2> QED
      BY <2>4, <2>5
  <1>4. CASE CheckEnds(i)
    <2>1. PICK status \in Finished \cup {"interrupted"} :
            /\ mem' = [mem EXCEPT ![i] = SetStep(mem[i], current[i], status)]
            /\ left'[i] = left[i]
                 \/ /\ left'[i] = left[i] \cup {current[i]}
                    /\ child[i] = "running" /\ status \in {"failed", "interrupted"}
      BY <1>0, <1>4, CheckEndsSaid DEF AInv, Accounted
    <2>2. /\ pc[i] \in Operating /\ pc'[i] \in {"stepped", "ending"} /\ child'[i] = "none"
          /\ UNCHANGED <<run, current>>
      BY <1>0, <1>4, CheckEndsSaid DEF AInv, Accounted
    <2>3. \A j \in STEPS : mem'[i].steps[j] = IF j = current[i] THEN status ELSE mem[i].steps[j]
      BY <1>0, <2>1, SetStepKeeps DEF TypeOK
    <2>4. mem[i].steps[current[i]] = "running" /\ current[i] \notin left[i]
      BY <1>0, <2>2 DEF Accounted, Children, Fresh
    <2>5. CASE k # current[i]
      <3>1. /\ SaidFailed(i, k)' = SaidFailed(i, k)
            /\ k \in Unreclaimed(i)' <=> k \in Unreclaimed(i)
        BY <1>0, <2>1, <2>2, <2>3, <2>5 DEF SaidFailed, Unreclaimed
      <3> QED
        BY <2>2, <2>5, <3>1
    <2>6. CASE k = current[i] /\ status \in {"failed", "interrupted"}
      <3>1. SaidFailed(i, k)'
        BY <1>0, <2>2, <2>3, <2>6 DEF SaidFailed, Terminal
      <3>2. TreeOf(i, k)' \in {TreeOf(i, k), "none"}
        BY <1>0, <2>1, <2>2, <2>6 DEF Unreclaimed
      <3>3. CallerOf(i, k) \in {"calling", "idle"} /\ CallerOf(i, k)' = "idle"
        BY <2>2
      <3>4. Command(i, k)!Fail
        BY <3>1, <3>2, <3>3 DEF Command!Fail, SaidFailed
      <3> QED
        BY <3>4 DEF Command!Next
    <2>7. CASE k = current[i] /\ status \notin {"failed", "interrupted"}
      <3>1. ~SaidFailed(i, k)' /\ ~SaidFailed(i, k)
        BY <1>0, <2>1, <2>2, <2>3, <2>4, <2>7 DEF SaidFailed, Terminal, Finished
      <3>2. k \notin Unreclaimed(i)' /\ TreeOf(i, k)' = "none"
        BY <2>1, <2>2, <2>4, <2>7 DEF Unreclaimed
      <3>3. pc[i] = "operation" => TreeOf(i, k) = "none"
        BY <1>0, <2>4, <2>7 DEF Accounted, Children, Unreclaimed, TypeOK
      <3>4. SaidFailed(i, k)' = SaidFailed(i, k)
        BY <3>1 DEF SaidFailed
      <3>5. /\ CallerOf(i, k)' = "idle"
            /\ CallerOf(i, k) = IF pc[i] = "operation" THEN "idle" ELSE "calling"
        BY <2>2, <2>7
      <3> HIDE DEF CallerOf, TreeOf
      <3>6. Command(i, k)!Return \/ UNCHANGED Command(i, k)!vars
        BY <3>2, <3>3, <3>4, <3>5 DEF Command!Return
      <3> QED
        BY <3>6 DEF Command!Next
    <2> QED
      BY <2>5, <2>6, <2>7
  <1>5. CASE StepBegins(i)
    <2> DEFINE rec == SetStep(mem[i], current[i] + 1, "running")
    <2>1. /\ pc[i] = "ready" /\ pc'[i] \in {"operation", "ending"} /\ mem'[i] = rec
          /\ current'[i] = current[i] + 1 /\ UNCHANGED <<run, child, left>>
      BY <1>0, <1>5 DEF TypeOK, StepBegins, Raise
    <2>2. rec.steps[k] = IF k = current[i] + 1 THEN "running" ELSE mem[i].steps[k]
      BY <1>0, SetStepKeeps
    <2> HIDE DEF rec
    <2>3. k = current[i] + 1 => mem[i].steps[k] = "not_run"
      BY <1>0 DEF Fresh
    <2>4. SaidFailed(i, k)' = SaidFailed(i, k)
      BY <2>1, <2>2, <2>3 DEF SaidFailed, Terminal
    <2>5. child[i] = "none"
      BY <1>0, <2>1 DEF Accounted, Children, TypeOK
    <2> QED
      BY <2>1, <2>4, <2>5 DEF Unreclaimed
  <1>6. CASE CancelledBeforeStep(i) \/ StepReported(i) \/ AllChecked(i)
    <2>1. /\ pc[i] \in {"ready", "stepped"}
          /\ pc'[i] \in {"ready", "ending"} /\ UNCHANGED <<run, mem, current, child, left>>
      BY <1>0, <1>6 DEF TypeOK, CancelledBeforeStep, StepReported, AllChecked, Raise
    <2>2. child[i] = "none"
      BY <1>0, <2>1 DEF Accounted, Children, TypeOK
    <2> QED
      BY <2>1, <2>2 DEF SaidFailed, Unreclaimed
  <1> QED
    BY <1>1, <1>2, <1>3, <1>4, <1>5, <1>6 DEF Check, CheckEnds

\* Around the checks there is no command to be seen, but one that a failure or a death left.
LEMMA StepAsPromised ==
    ASSUME AInv, NEW i \in Invocations, Fresh(i), InvocationStep(i), NEW k \in Commands
    PROVE  [Command(i, k)!Next]_(Command(i, k)!vars)
  <1> USE DEF CallerOf, TreeOf, Command!vars
  <1>0. TypeOK /\ Accounted(i) /\ Children(i) /\ k \in STEPS /\ mem[i] \in Record /\ Unfinished
    BY CommandsAreSteps DEF AInv, IInv, Accounted, TypeOK, Ownership
  <1>1. CASE Call(i) \/ Refuse(i) \/ Claim(i) \/ Conclude(i) \/ LateError(i)
    <2>1. /\ pc[i] \in Unclaimed \cup {"saving", "ending"} \cup Concluding
          /\ pc'[i] \notin {"spawned", "armed", "commanding", "dead"}
          /\ UNCHANGED <<child, left, current>>
      BY <1>0, <1>1 DEF TypeOK, Unclaimed, Concluding, Claim, Call, Refuse, EnterDirectory,
         RunIdExists, RunIdFree, CreateLock, CreateLockFails, FirstSave, FirstSaveFails, Conclude,
         End, EndSaveFails, Close, ReturnRecord, Raise, LateError
    <2>2. child[i] \notin {"waiting", "running"}
      BY <1>0, <2>1 DEF Children, Unclaimed, Concluding
    <2>3. SaidFailed(i, k)' = SaidFailed(i, k) \/ SaidFailed(i, k)'
      <3>1. CASE End(i)
        <4>1. PICK m \in BOOLEAN : mem' = [mem EXCEPT ![i] = EndRecord(i, err[i], m)]
          BY <3>1 DEF End
        <4>2. mem'[i] = Concluded(i, err[i], m)
          BY <1>0, <3>1, <4>1 DEF TypeOK, EndRecord, End, Unfinished
        <4>3. mem'[i].steps[k] = IF err[i] # "none" /\ k = current[i] THEN EndStatus(err[i])
                                 ELSE mem[i].steps[k]
          BY <1>0, <4>2 DEF Concluded, Record
        <4>4. err[i] # "none" => EndStatus(err[i]) \in Terminal \ {"completed"}
          BY <1>0 DEF TypeOK, EndStatus, Errors, Terminal
        <4> QED
          BY <4>3, <4>4 DEF SaidFailed
      <3>2. CASE ~End(i)
        <4>1. mem' = mem
          BY <1>1, <3>2 DEF Claim, Call, Refuse, EnterDirectory,
             RunIdExists, RunIdFree, CreateLock, CreateLockFails, FirstSave, FirstSaveFails,
             Conclude, EndSaveFails, Close, ReturnRecord, LateError
        <4> QED
          BY <4>1 DEF SaidFailed
      <3> QED
        BY <3>1, <3>2
    <2>4. TreeOf(i, k)' = TreeOf(i, k)
      BY <2>1, <2>2 DEF Unreclaimed
    <2>5. Command(i, k)!Fail \/ UNCHANGED Command(i, k)!vars
      BY <2>1, <2>3, <2>4 DEF Command!Fail, Unclaimed, Concluding, SaidFailed
    <2> QED
      BY <2>5 DEF Command!Next
  <1>2. CASE Cancel(i)
    BY <1>2 DEF Cancel, OnRecord, Unreclaimed, SaidFailed
  <1>3. CASE Crash(i)
    <2>1. /\ pc'[i] = "dead" /\ UNCHANGED <<mem, current>> /\ child'[i] = "none"
          /\ left'[i] = IF child[i] = "running" THEN left[i] \cup {current[i]} ELSE left[i]
      BY <1>0, <1>3 DEF TypeOK, Crash, Abandon
    <2>2. k \in Unreclaimed(i)' <=> k \in Unreclaimed(i)
      BY <1>0, <2>1 DEF Unreclaimed
    <2>3. CallerOf(i, k)' = "dead" /\ TreeOf(i, k)' \in {TreeOf(i, k), "none"}
      BY <2>1, <2>2
    <2>4. SaidFailed(i, k)' = SaidFailed(i, k)
      BY <2>1 DEF SaidFailed
    <2>5. Command(i, k)!Die
      BY <2>3, <2>4 DEF Command!Die
    <2> QED
      BY <2>5 DEF Command!Next
  <1> QED
    BY <1>1, <1>2, <1>3, CheckAsPromised DEF InvocationStep, Progress

\* What another invocation does is not seen.
LEMMA OthersAsPromised ==
    ASSUME AInv, NEW i \in Invocations, InvocationStep(i), NEW j \in Invocations, j # i, Fresh(j)
    PROVE  Fresh(j)' /\ \A k \in Commands : UNCHANGED Command(j, k)!vars
  <1>1. /\ pc'[j] = pc[j] /\ mem'[j] = mem[j] /\ current'[j] = current[j]
        /\ child'[j] = child[j] /\ left'[j] = left[j] /\ run' = run
    BY OthersUntouched DEF AInv, IInv
  <1>2. Mine(j) => disk'[run[j]] = disk[run[j]]
    BY MineStays DEF AInv, Accounted
  <1>3. pc[j] \in {"operation", "spawned"} \/ child[j] = "waiting" => Mine(j)
    BY DEF AInv, IInv, TypeOK, Accounted, OnDisk, Children
  <1>4. pc[j] \in {"operation", "spawned"} \/ child[j] = "waiting" =>
          \A k \in STEPS \cup {current[j]} : OnRecord(j, k)' = OnRecord(j, k)
    BY <1>1, <1>2, <1>3 DEF OnRecord
  <1>5. \A k \in Commands : k \in STEPS
    BY CommandsAreSteps
  <1> QED
    BY <1>1, <1>4, <1>5 DEF Fresh, Command!vars, CallerOf, TreeOf, Unreclaimed, SaidFailed

\* The invariant of the records and files, and that of the commands.
CInv == AInv /\ \A i \in Invocations : Fresh(i)

LEMMA CommandsAsPromised ==
    CInv /\ [Next]_vars =>
      CInv' /\ \A i \in Invocations, k \in Commands : [Command(i, k)!Next]_(Command(i, k)!vars)
  <1> SUFFICES ASSUME CInv, [Next]_vars
               PROVE  CInv' /\ \A i \in Invocations, k \in Commands :
                                 [Command(i, k)!Next]_(Command(i, k)!vars)
    OBVIOUS
  <1>1. AInv'
    BY NextAInv DEF CInv
  <1>2. ASSUME NEW i \in Invocations, InvocationStep(i), NEW j \in Invocations
        PROVE  Fresh(j)' /\ \A k \in Commands : [Command(j, k)!Next]_(Command(j, k)!vars)
    BY <1>2, StepFresh, StepAsPromised, OthersAsPromised DEF CInv
  <1>3. ASSUME UNCHANGED invocationVars, NEW j \in Invocations
        PROVE  Fresh(j)' /\ \A k \in Commands : UNCHANGED Command(j, k)!vars
    BY <1>3 DEF CInv, Fresh, Command!vars, CallerOf, TreeOf, OnRecord, Unreclaimed, SaidFailed
  <1>4. ASSUME NEW q \in Queries, Ask(q) \/ Query(q) PROVE UNCHANGED invocationVars
    BY <1>4 DEF Ask, Query, ReadRecord, Probe, LetGo, ProbeFails, Reread
  <1>5. CASE UNCHANGED vars \/ AllEnded
    BY <1>1, <1>3, <1>5 DEF AllEnded, CInv
  <1> QED
    BY <1>1, <1>2, <1>3, <1>4, <1>5 DEF Next, InvocationStep, CInv

\* No command of any invocation starts off record, and none is left behind but by a death or
\* under a check that is recorded as failed: each command of each invocation implements the
\* contract that OwnedCommand keeps.
THEOREM CommandPromiseKept == Spec => CommandsKeepPromise
  <1>1. Init => CInv /\ \A i \in Invocations, k \in Commands : Command(i, k)!Init
    <2> SUFFICES ASSUME Init PROVE CInv /\ \A i \in Invocations, k \in Commands : Command(i, k)!Init
      OBVIOUS
    <2>1. \A k \in STEPS \cup Commands : k \in STEPS
      BY CommandsAreSteps
    <2>2. \A i \in Invocations : Fresh(i)
      BY DEF Init, Fresh, NewRecord, OnRecord, NoRecord
    <2> QED
      BY <2>1, <2>2, InitAInv DEF Init, CInv, Command!Init, CallerOf, TreeOf, NewRecord, OnRecord,
         NoRecord, Unreclaimed, SaidFailed, Terminal
  <1>2. Spec => \A i \in Invocations, k \in Commands : Command(i, k)!Spec
    <2> SUFFICES ASSUME NEW i \in Invocations, NEW k \in Commands PROVE Spec => Command(i, k)!Spec
      OBVIOUS
    <2>1. Init => CInv /\ Command(i, k)!Init
      BY <1>1
    <2>2. CInv /\ [Next]_vars => CInv' /\ [Command(i, k)!Next]_(Command(i, k)!vars)
      BY CommandsAsPromised
    <2> QED
      BY <2>1, <2>2, PTL DEF Spec, Command!Spec
  <1> QED
    BY <1>2 DEF CommandsKeepPromise
=============================================================================
