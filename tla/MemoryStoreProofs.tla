-------------------------- MODULE MemoryStoreProofs --------------------------
(***************************************************************************)
(* What MemoryStore promises holds for every set of callers and of records, *)
(* whatever ids, titles and status these have.                              *)
(*                                                                          *)
(* Relies says what a call may rely on at each of its places.  Nearly all   *)
(* of it rests on the lock: facts grow and candidates come only under it,   *)
(* so that what a writer has parsed is what the file holds until it writes. *)
(* Two things hold without it: a candidate that disappears is taken from    *)
(* nobody, and the index never holds more than the facts.                   *)
(***************************************************************************)
EXTENDS MemoryStore, TLAPS

\* The operation in which a call can be at each place.
OpFits(c) ==
    /\ pc[c] = "waiting" => op[c] \in {"record", "submit", "accept", "reindex", "search"}
    /\ pc[c] = "submitting" => op[c] = "submit"
    /\ pc[c] = "reading" => op[c] = "accept"
    /\ pc[c] \in {"checking", "writing"} => op[c] \in {"record", "accept"}
    /\ pc[c] \in {"parsing", "committing"} => op[c] \in {"record", "merged", "reindex", "search"}
    /\ pc[c] = "removing" => op[c] = "merged"
    /\ pc[c] = "rejecting" => op[c] = "reject"
    /\ pc[c] = "querying" => op[c] = "search"
    /\ pc[c] = "idle" => op[c] \in {"none", "done", "failed", "found"}

\* What a search has not found stands below what it has found, and it was asked for no more.
ShownFirst(c) ==
    \A d \in known[c] : Active(d) =>
      d \in found[c] \/ (Cardinality(found[c]) = Limit /\ found[c] \subseteq above[d])

\* The places at which the record is the one that the candidate's file held.
HasRead == {"checking", "writing", "parsing", "committing", "removing"}

Relies(c) ==
    /\ pc[c] \in Critical => lock = c
    /\ op[c] \in {"record", "submit", "accept", "merged", "reject"} => draft[c] \in Drafts
    /\ pc[c] = "writing" => view[c] = facts /\ ~Duplicate(draft[c])
    /\ pc[c] = "committing" => view[c] = facts
    /\ op[c] = "merged" \/ (op[c] = "record" /\ pc[c] \in {"parsing", "committing"})
         => draft[c] \in facts
    /\ op[c] \in {"accept", "merged"} /\ pc[c] \in HasRead
         => WithId(candidates, draft[c]) \subseteq {draft[c]}
    /\ pc[c] \in {"idle", "waiting", "rejecting", "submitting", "reading", "checking"}
         => view[c] = {}
    /\ pc[c] = "parsing" /\ op[c] = "merged" => ~Reparsed(c)
    /\ pc[c] = "removing" /\ Reparsed(c) => draft[c] \in index
    /\ op[c] = "search" => known[c] \subseteq facts
    /\ pc[c] = "querying" => known[c] \subseteq index
    /\ op[c] = "found" => known[c] \subseteq facts /\ found[c] \subseteq facts /\ ShownFirst(c)

\* What holds of the files and the index at any time.
OneFilePerId == \A d, e \in candidates : Id(d) = Id(e) => d = e
StoreFits == OneFilePerId /\ index \subseteq facts /\ NoDuplicates

IInv ==
    /\ TypeOK
    /\ \A c \in Callers : OpFits(c) /\ Relies(c)
    /\ StoreFits

Step(c) ==
    \/ Record(c) \/ Submit(c) \/ Accept(c) \/ Reject(c) \/ Reindex(c) \/ Search(c)
    \/ Unlink(c) \/ Lock(c) \/ WriteCandidate(c) \/ ReadCandidate(c) \/ Check(c) \/ Write(c)
    \/ Parse(c) \/ Commit(c) \/ Remove(c) \/ Query(c) \/ Fails(c) \/ Crash(c)

USE DEF store, callVars, Goto, Begin, Finish, Continue

-----------------------------------------------------------------------------
\* An empty store, and nobody who relies on anything.
LEMMA InitIInv == Init => IInv
  <1> SUFFICES ASSUME Init PROVE IInv
    OBVIOUS
  <1>1. TypeOK
    BY DEF Init, TypeOK, Critical
  <1>2. \A c \in Callers : OpFits(c) /\ Relies(c)
    BY DEF Init, OpFits, Relies, Critical, HasRead, Reparsed
  <1>3. StoreFits
    BY DEF Init, StoreFits, OneFilePerId, NoDuplicates
  <1> QED
    BY <1>1, <1>2, <1>3 DEF IInv

\* Each step keeps every variable in its range.
LEMMA StepType ==
    ASSUME TypeOK, NEW c \in Callers, OpFits(c), Relies(c), Step(c)
    PROVE  TypeOK'
  <1> USE DEF TypeOK, Critical
  <1>1. CASE Record(c) \/ Submit(c) \/ Accept(c)
    BY <1>1 DEF Record, Submit, Accept
  <1>2. CASE Reject(c)
    BY <1>2 DEF Reject
  <1>3. CASE Reindex(c) \/ Search(c)
    BY <1>3 DEF Reindex, Search
  <1>4. CASE Unlink(c)
    BY <1>4 DEF Unlink, WithId
  <1>5. CASE Lock(c)
    BY <1>5 DEF Lock, First
  <1>6. CASE WriteCandidate(c)
    BY <1>6 DEF WriteCandidate, WithId, OpFits, Relies
  <1>7. CASE ReadCandidate(c)
    BY <1>7 DEF ReadCandidate, WithId
  <1>8. CASE Check(c)
    BY <1>8 DEF Check
  <1>9. CASE Write(c)
    BY <1>9 DEF Write, OpFits, Relies
  <1>10. CASE Parse(c)
    BY <1>10 DEF Parse, Indexed
  <1>11. CASE Commit(c)
    BY <1>11 DEF Commit, Indexed
  <1>12. CASE Remove(c)
    BY <1>12 DEF Remove, WithId
  <1>13. CASE Query(c)
    BY <1>13 DEF Query
  <1>14. CASE Fails(c) \/ Crash(c)
    BY <1>14 DEF Fails, Crash
  <1> QED
    BY <1>1, <1>2, <1>3, <1>4, <1>5, <1>6, <1>7, <1>8, <1>9, <1>10, <1>11, <1>12, <1>13,
       <1>14 DEF Step

-----------------------------------------------------------------------------
\* What a step of one call leaves to another one.
Leaves(c, q) ==
    /\ pc'[q] = pc[q] /\ op'[q] = op[q] /\ draft'[q] = draft[q]
    /\ view'[q] = view[q] /\ found'[q] = found[q] /\ known'[q] = known[q]
    /\ lock = q => lock' = q /\ facts' = facts /\ candidates' \subseteq candidates
    /\ facts \subseteq facts' /\ \A d \in facts : above'[d] = above[d]
    /\ index' # index => index' = facts

\* Each step leaves that much to every other call.
LEMMA StepLeaves ==
    ASSUME IInv, NEW c \in Callers, Step(c), NEW q \in Callers, q # c
    PROVE  Leaves(c, q)
  <1> USE DEF IInv, TypeOK, Critical, Leaves
  <1>0. Relies(c) /\ OpFits(c) /\ q # NoOne
    BY ConstantsAssumption
  <1>1. CASE Record(c) \/ Submit(c) \/ Accept(c) \/ Reject(c) \/ Reindex(c) \/ Search(c)
    BY <1>1 DEF Record, Submit, Accept, Reject, Reindex, Search
  <1>4. CASE Unlink(c)
    BY <1>4 DEF Unlink
  <1>5. CASE Lock(c)
    BY <1>0, <1>5 DEF Lock
  <1>6. CASE WriteCandidate(c)
    BY <1>0, <1>6 DEF WriteCandidate, Relies
  <1>7. CASE ReadCandidate(c)
    BY <1>7 DEF ReadCandidate
  <1>8. CASE Check(c)
    BY <1>8 DEF Check
  <1>9. CASE Write(c)
    <2>1. draft[c] \notin facts
      BY <1>0, <1>9 DEF Write, Relies, Duplicate
    <2> QED
      BY <1>0, <1>9, <2>1 DEF Write, Relies
  <1>10. CASE Parse(c)
    BY <1>0, <1>10 DEF Parse, Indexed, Relies
  <1>11. CASE Commit(c)
    BY <1>0, <1>11 DEF Commit, Indexed, Relies
  <1>12. CASE Remove(c)
    BY <1>12 DEF Remove
  <1>13. CASE Query(c)
    BY <1>13 DEF Query
  <1>14. CASE Fails(c) \/ Crash(c)
    BY <1>14 DEF Fails, Crash
  <1> QED
    BY <1>1, <1>4, <1>5, <1>6, <1>7, <1>8, <1>9, <1>10, <1>11, <1>12, <1>13, <1>14 DEF Step

\* What a call relies on survives a step that leaves it that much.
LEMMA LeavesRelies ==
    ASSUME IInv, NEW c, NEW q \in Callers, Leaves(c, q)
    PROVE  OpFits(q)' /\ Relies(q)'
  <1>0. OpFits(q) /\ Relies(q)
    BY DEF IInv
  <1>1. OpFits(q)'
    BY <1>0 DEF OpFits, Leaves
  <1>2. pc'[q] \in Critical => lock' = q /\ lock = q
    BY <1>0 DEF Relies, Leaves
  <1>3. pc'[q] = "writing" => view'[q] = facts' /\ ~Duplicate(draft[q])'
    BY <1>0, <1>2 DEF Relies, Leaves, Duplicate, Critical
  <1>4. pc'[q] = "committing" => view'[q] = facts'
    BY <1>0, <1>2 DEF Relies, Leaves, Critical
  <1>5. op'[q] \in {"accept", "merged"} /\ pc'[q] \in HasRead
          => WithId(candidates', draft'[q]) \subseteq {draft'[q]}
    BY <1>0, <1>2 DEF Relies, Leaves, Critical, HasRead, WithId
  <1>6. pc'[q] = "querying" => known'[q] \subseteq index'
    BY <1>0 DEF Relies, Leaves, OpFits
  <1>7. op'[q] = "found" => known'[q] \subseteq facts' /\ found'[q] \subseteq facts' /\ ShownFirst(q)'
    BY <1>0 DEF Relies, Leaves, ShownFirst
  <1>8. /\ pc'[q] \in {"idle", "waiting", "rejecting", "submitting", "reading", "checking"}
             => view'[q] = {}
        /\ pc'[q] = "parsing" /\ op'[q] = "merged" => ~Reparsed(q)'
        /\ pc'[q] = "removing" /\ Reparsed(q)' => draft'[q] \in index'
    BY <1>0 DEF Relies, Leaves, Reparsed, OpFits
  <1> QED
    BY <1>0, <1>1, <1>2, <1>3, <1>4, <1>5, <1>6, <1>7, <1>8 DEF Relies, Leaves

-----------------------------------------------------------------------------
\* Its own step leaves a call with what it relies on from then on.
LEMMA OwnRelies ==
    ASSUME IInv, NEW c \in Callers, Step(c)
    PROVE  OpFits(c)' /\ Relies(c)'
  <1> USE DEF TypeOK, Critical, HasRead, Reparsed
  <1>0. TypeOK /\ OpFits(c) /\ Relies(c) /\ StoreFits /\ c # NoOne
    BY ConstantsAssumption DEF IInv
  <1>1. CASE Record(c) \/ Submit(c) \/ Accept(c)
    BY <1>0, <1>1 DEF Record, Submit, Accept, OpFits, Relies
  <1>2. CASE Reject(c)
    BY <1>0, <1>2 DEF Reject, OpFits, Relies
  <1>3. CASE Reindex(c) \/ Search(c)
    BY <1>0, <1>3 DEF Reindex, Search, OpFits, Relies
  <1>4. CASE Unlink(c)
    BY <1>0, <1>4 DEF Unlink, OpFits, Relies
  <1>5. CASE Lock(c)
    BY <1>0, <1>5 DEF Lock, First, OpFits, Relies
  <1>6. CASE WriteCandidate(c)
    BY <1>0, <1>6 DEF WriteCandidate, OpFits, Relies
  <1>7. CASE ReadCandidate(c)
    <2>1. CASE WithId(candidates, draft[c]) = {} /\ Finish(c, "failed")
      BY <1>0, <1>7, <2>1 DEF ReadCandidate, OpFits, Relies
    <2>2. ASSUME NEW d \in WithId(candidates, draft[c]), draft' = [draft EXCEPT ![c] = d],
                 Continue(c, "checking")
          PROVE  OpFits(c)' /\ Relies(c)'
      <3>1. d \in Drafts /\ WithId(candidates, d) \subseteq {d}
        BY <1>0, <2>2 DEF WithId, StoreFits, OneFilePerId
      <3> QED
        BY <1>0, <1>7, <2>2, <3>1 DEF ReadCandidate, OpFits, Relies, WithId
    <2> QED
      BY <1>7, <2>1, <2>2 DEF ReadCandidate
  <1>8. CASE Check(c)
    <2>0. pc[c] = "checking" /\ view[c] = {} /\ op[c] \in {"record", "accept"}
          /\ UNCHANGED <<store, found, known>>
      BY <1>0, <1>8 DEF Check, OpFits, Relies
    <2>1. CASE Finish(c, "failed")
      BY <1>0, <2>0, <2>1 DEF OpFits, Relies
    <2>2. CASE /\ ~Duplicate(draft[c]) /\ view' = [view EXCEPT ![c] = facts]
               /\ Continue(c, "writing") /\ UNCHANGED <<op, draft>>
      BY <1>0, <2>0, <2>2 DEF OpFits, Relies, Duplicate
    <2>3. CASE /\ op[c] = "accept" /\ Merged(draft[c]) /\ op' = [op EXCEPT ![c] = "merged"]
               /\ Continue(c, "parsing") /\ UNCHANGED <<draft, view>>
      BY <1>0, <2>0, <2>3 DEF OpFits, Relies, Merged
    <2> QED
      BY <1>8, <2>1, <2>2, <2>3 DEF Check
  <1>9. CASE Write(c)
    <2>1. draft[c] \notin view[c]
      BY <1>0, <1>9 DEF Write, Relies, Duplicate
    <2> QED
      BY <1>0, <1>9, <2>1 DEF Write, OpFits, Relies
  <1>10. CASE Parse(c)
    BY <1>0, <1>10 DEF Parse, Indexed, OpFits, Relies
  <1>11. CASE Commit(c)
    BY <1>0, <1>11 DEF Commit, Indexed, OpFits, Relies
  <1>12. CASE Remove(c)
    BY <1>0, <1>12 DEF Remove, OpFits, Relies
  <1>13. CASE Query(c)
    <2>1. PICK rows \in SUBSET {d \in index : Active(d)} :
            Top(rows, {d \in index : Active(d)}) /\ found' = [found EXCEPT ![c] = rows]
      BY <1>13 DEF Query
    <2>2. ShownFirst(c)'
      BY <1>0, <1>13, <2>1 DEF Query, Top, ShownFirst, Relies
    <2>3. found'[c] \subseteq facts /\ known'[c] \subseteq facts
      BY <1>0, <1>13, <2>1 DEF Query, Relies, OpFits, StoreFits
    <2> QED
      BY <1>0, <1>13, <2>2, <2>3 DEF Query, OpFits, Relies
  <1>14. CASE Fails(c) \/ Crash(c)
    BY <1>0, <1>14 DEF Fails, Crash, OpFits, Relies
  <1> QED
    BY <1>1, <1>2, <1>3, <1>4, <1>5, <1>6, <1>7, <1>8, <1>9, <1>10, <1>11, <1>12, <1>13,
       <1>14 DEF Step

\* The three steps that write a file or the index keep them as they should be.
LEMMA StepStore ==
    ASSUME IInv, NEW c \in Callers, Step(c)
    PROVE  StoreFits'
  <1> USE DEF TypeOK, StoreFits, OneFilePerId
  <1>0. TypeOK /\ OpFits(c) /\ Relies(c) /\ StoreFits
    BY DEF IInv
  <1>1. CASE WriteCandidate(c)
    <2>1. OneFilePerId'
      BY <1>0, <1>1 DEF WriteCandidate, WithId
    <2> QED
      BY <1>0, <1>1, <2>1 DEF WriteCandidate, NoDuplicates
  <1>2. CASE Write(c)
    <2>1. facts' = facts \cup {draft[c]} /\ ~Duplicate(draft[c]) /\ draft[c] \in Drafts
      BY <1>0, <1>2 DEF Write, Relies, OpFits
    <2>2. NoDuplicates'
      BY <1>0, <2>1 DEF NoDuplicates, Duplicate
    <2> QED
      BY <1>0, <1>2, <2>1, <2>2 DEF Write
  <1>3. CASE Commit(c)
    <2>1. index' = facts /\ facts' = facts /\ candidates' = candidates
      BY <1>0, <1>3 DEF Commit, Relies
    <2> QED
      BY <1>0, <2>1 DEF NoDuplicates
  <1>4. CASE Unlink(c) \/ Remove(c)
    BY <1>0, <1>4 DEF Unlink, Remove, NoDuplicates
  <1>5. CASE UNCHANGED <<facts, candidates, index>>
    BY <1>0, <1>5 DEF NoDuplicates
  <1> QED
    BY <1>1, <1>2, <1>3, <1>4, <1>5 DEF Step, Record, Submit, Accept, Reject, Reindex, Search,
       Lock, ReadCandidate, Check, Parse, Query, Fails, Crash

\* The invariant is inductive: a step leaves every call, its own and the others, with what
\* it relies on; an edit by hand only adds or removes a line that does not parse.
LEMMA NextIInv == IInv /\ [Next]_vars => IInv'
  <1> SUFFICES ASSUME IInv, [Next]_vars PROVE IInv'
    OBVIOUS
  <1>1. ASSUME NEW c \in Callers, Step(c) PROVE IInv'
    <2>1. TypeOK'
      BY <1>1, StepType DEF IInv
    <2>2. ASSUME NEW q \in Callers PROVE OpFits(q)' /\ Relies(q)'
      <3>1. CASE q = c
        BY <1>1, <3>1, OwnRelies
      <3>2. CASE q # c
        BY <1>1, <3>2, StepLeaves, LeavesRelies
      <3> QED
        BY <3>1, <3>2
    <2>3. StoreFits'
      BY <1>1, StepStore
    <2> QED
      BY <2>1, <2>2, <2>3 DEF IInv
  <1>2. CASE Edit \/ UNCHANGED vars
    <2>1. UNCHANGED <<facts, above, candidates, index, lock, pc, callVars>> /\ invalid' \in BOOLEAN
      BY <1>2 DEF Edit, vars, IInv, TypeOK
    <2>2. TypeOK'
      BY <2>1 DEF IInv, TypeOK
    <2>3. \A q \in Callers : OpFits(q)' /\ Relies(q)'
      BY <2>1 DEF IInv, OpFits, Relies, Duplicate, Reparsed, ShownFirst
    <2>4. StoreFits'
      BY <2>1 DEF IInv, StoreFits, OneFilePerId, NoDuplicates
    <2> QED
      BY <2>2, <2>3, <2>4 DEF IInv
  <1> QED
    BY <1>1, <1>2 DEF Next, Step

\* Every reachable state satisfies the inductive invariant.
THEOREM MemoryInvariance == Spec => []IInv
  BY InitIInv, NextIInv, PTL DEF Spec

\* A step of any call only adds facts.
LEMMA FactsGrow ==
    ASSUME IInv, NEW c \in Callers, Step(c)
    PROVE  facts \subseteq facts'
  <1>1. CASE Write(c)
    BY <1>1 DEF Write, IInv, Relies
  <1>2. CASE UNCHANGED facts
    BY <1>2
  <1> QED
    BY <1>1, <1>2 DEF Step, Record, Submit, Accept, Reject, Reindex, Search, Unlink, Lock,
       WriteCandidate, ReadCandidate, Check, Parse, Commit, Remove, Query, Fails, Crash

\* A call that returns from recording or merging has written its record.
LEMMA ReturnsWritten ==
    ASSUME IInv, NEW c \in Callers, Step(c), op[c] \in {"record", "merged"}, op'[c] = "done"
    PROVE  draft[c] \in facts'
  <1> USE DEF TypeOK, Critical
  <1>0. TypeOK /\ OpFits(c) /\ Relies(c)
    BY DEF IInv
  <1>1. draft[c] \in facts
    BY <1>0 DEF Step, Record, Submit, Accept, Reject, Reindex, Search, Unlink, Lock,
       WriteCandidate, ReadCandidate, Check, Write, Parse, Commit, Remove, Query, Fails, Crash,
       Indexed, OpFits, Relies
  <1> QED
    BY <1>1, FactsGrow

-----------------------------------------------------------------------------
\* Type correctness of the store and of every call.
THEOREM MemoryTypes == Spec => []TypeOK
  <1>1. IInv => TypeOK
    BY DEF IInv
  <1> QED
    BY <1>1, MemoryInvariance, PTL

\* However many processes record and accept at once: no two records share an id, and
\* no two active ones a type and title.
THEOREM OneRecordPerTitle == Spec => []NoDuplicates
  <1>1. IInv => NoDuplicates
    BY DEF IInv, StoreFits
  <1> QED
    BY <1>1, MemoryInvariance, PTL

\* A search that reads the index after it has given up the lock finds every active record
\* that was written before it was called, or as many as it asks for and none that stands
\* below one it leaves out; and only facts.
THEOREM SearchesAreCurrent == Spec => []SearchIsCurrent
  <1>1. IInv => SearchIsCurrent
    BY DEF IInv, Relies, SearchIsCurrent, ShownFirst
  <1> QED
    BY <1>1, MemoryInvariance, PTL

\* No step takes a record away, not even one that replaces the whole file; a call that
\* returns from recording or merging leaves its record in the file.
THEOREM RecordsAreKept == Spec => NothingLost
  <1>1. IInv /\ [Next]_vars
          => [/\ facts \subseteq facts'
              /\ \A c \in Callers :
                   op[c] \in {"record", "merged"} /\ op'[c] = "done" => draft[c] \in facts']_vars
    <2> SUFFICES ASSUME IInv, Next
                 PROVE  /\ facts \subseteq facts'
                        /\ \A q \in Callers :
                             op[q] \in {"record", "merged"} /\ op'[q] = "done"
                               => draft[q] \in facts'
      OBVIOUS
    <2>1. ASSUME NEW c \in Callers, Step(c)
          PROVE  facts \subseteq facts'
      BY <2>1, FactsGrow
    <2>2. ASSUME NEW c \in Callers, Step(c), NEW q \in Callers,
                 op[q] \in {"record", "merged"}, op'[q] = "done"
          PROVE  draft[q] \in facts'
      <3>1. q = c
        BY <2>2, StepLeaves DEF Leaves
      <3> QED
        BY <2>1, <2>2, <3>1, ReturnsWritten
    <2>3. CASE Edit
      BY <2>3 DEF Edit
    <2> QED
      BY <2>1, <2>2, <2>3 DEF Next, Step
  <1> QED
    BY <1>1, MemoryInvariance, PTL DEF Spec, NothingLost

\* A step takes a candidate away only to reject it, or after its very record is a fact and
\* has been indexed, or a broken line has kept it from being.
THEOREM CandidatesAreKept == Spec => CandidatesSurvive
  <1>1. IInv /\ [Next]_vars
          => [\A d \in candidates \ candidates' : \E c \in Callers :
                \/ Unlink(c) /\ Id(draft[c]) = Id(d)
                \/ Remove(c) /\ draft[c] = d /\ d \in facts
                     /\ (Reparsed(c) => d \in index)]_candidates
    <2> SUFFICES ASSUME IInv, Next, NEW d \in candidates \ candidates'
                 PROVE  \E c \in Callers :
                          \/ Unlink(c) /\ Id(draft[c]) = Id(d)
                          \/ Remove(c) /\ draft[c] = d /\ d \in facts
                               /\ (Reparsed(c) => d \in index)
      BY DEF vars
    <2>1. ASSUME NEW c \in Callers, Unlink(c)
          PROVE  Id(draft[c]) = Id(d)
      BY <2>1 DEF Unlink, WithId
    <2>2. ASSUME NEW c \in Callers, Remove(c)
          PROVE  draft[c] = d /\ d \in facts /\ (Reparsed(c) => d \in index)
      <3>1. /\ op[c] = "merged" /\ draft[c] \in facts /\ (Reparsed(c) => draft[c] \in index)
            /\ WithId(candidates, draft[c]) \subseteq {draft[c]}
        BY <2>2 DEF Remove, IInv, OpFits, Relies, HasRead
      <3>2. draft[c] = d
        BY <2>2, <3>1 DEF Remove, WithId
      <3> QED
        BY <3>1, <3>2
    <2>3. ASSUME NEW c \in Callers, Step(c), ~Unlink(c), ~Remove(c)
          PROVE  FALSE
      BY <2>3 DEF Step, Record, Submit, Accept, Reject, Reindex, Search, Lock, WriteCandidate,
         ReadCandidate, Check, Write, Parse, Commit, Query, Fails, Crash
    <2>4. ~Edit
      BY DEF Edit
    <2>5. PICK c \in Callers : Step(c)
      BY <2>4 DEF Next, Step
    <2>6. Unlink(c) \/ Remove(c)
      BY <2>3, <2>5
    <2> QED
      BY <2>1, <2>2, <2>6
  <1> QED
    BY <1>1, MemoryInvariance, PTL DEF Spec, CandidatesSurvive

-----------------------------------------------------------------------------
\* memory.lock is held by a call that is at work under it: one that waits for the lock waits
\* for steps that nothing can keep from being taken.
HolderWorks == lock # NoOne => lock \in Callers /\ pc[lock] \in Critical

\* For any number of callers and wherever they fail or die: the lock is taken back from
\* every one of them, so that a writer never waits for nobody.
THEOREM LockHolderWorks == Spec => []HolderWorks
  <1>1. Init => HolderWorks
    BY DEF Init, HolderWorks
  <1>2. IInv /\ HolderWorks /\ [Next]_vars => HolderWorks'
    <2> SUFFICES ASSUME IInv, HolderWorks, [Next]_vars PROVE HolderWorks'
      OBVIOUS
    <2> USE DEF HolderWorks, TypeOK, Critical
    <2>1. ASSUME NEW c \in Callers, Step(c) PROVE HolderWorks'
      <3>0. TypeOK /\ OpFits(c) /\ Relies(c) /\ c # NoOne
        BY ConstantsAssumption DEF IInv
      <3>1. CASE lock' = c
        <4>1. CASE Record(c) \/ Submit(c) \/ Accept(c) \/ Reject(c) \/ Reindex(c) \/ Search(c)
          BY <3>0, <3>1, <4>1 DEF Record, Submit, Accept, Reject, Reindex, Search
        <4>2. CASE Unlink(c) \/ Query(c) \/ Fails(c) \/ Crash(c) \/ Remove(c) \/ WriteCandidate(c)
          BY <3>0, <3>1, <4>2 DEF Unlink, Query, Fails, Crash, Remove, WriteCandidate
        <4>3. CASE Lock(c)
          BY <3>0, <4>3 DEF Lock, First, OpFits
        <4>4. CASE ReadCandidate(c) \/ Check(c)
          BY <3>0, <3>1, <4>4 DEF ReadCandidate, Check
        <4>5. CASE Write(c)
          BY <3>0, <3>1, <4>5 DEF Write
        <4>6. CASE Parse(c) \/ Commit(c)
          BY <3>0, <3>1, <4>6 DEF Parse, Commit, Indexed
        <4> QED
          BY <2>1, <4>1, <4>2, <4>3, <4>4, <4>5, <4>6 DEF Step
      <3>2. CASE lock' # c /\ lock' # NoOne
        <4>1. lock' = lock
          BY <2>1, <3>2 DEF Step, Record, Submit, Accept, Reject, Reindex, Search, Unlink, Lock,
             WriteCandidate, ReadCandidate, Check, Write, Parse, Commit, Remove, Query, Fails,
             Crash, Indexed
        <4>2. lock \in Callers /\ Leaves(c, lock)
          BY <2>1, <3>2, <4>1, StepLeaves
        <4> QED
          BY <4>1, <4>2 DEF Leaves
      <3> QED
        BY <3>1, <3>2
    <2>2. CASE Edit \/ UNCHANGED vars
      BY <2>2 DEF Edit, vars
    <2> QED
      BY <2>1, <2>2 DEF Next, Step
  <1> QED
    BY <1>1, <1>2, MemoryInvariance, PTL DEF Spec

-----------------------------------------------------------------------------
(***************************************************************************)
(* The refinement of MemoryPromise.                                         *)
(***************************************************************************)
\* What the promise calls the places of all calls.
calls == [c \in Callers |-> CallOf(c)]

\* An empty store, and nobody has called.
LEMMA InitStorePromise == Init => Promise!Init
  BY DEF Init, Promise!Init, CallOf

\* A step of one call moves that call alone.
LEMMA OneCallMoves ==
    ASSUME IInv, NEW c \in Callers, Step(c)
    PROVE  calls' = [calls EXCEPT ![c] = CallOf(c)']
  <1>1. ASSUME NEW q \in Callers, q # c PROVE CallOf(q)' = CallOf(q)
    BY <1>1, StepLeaves DEF Leaves, CallOf
  <1> QED
    BY <1>1 DEF calls

\* A call that is under way is under way for the promise, one that is not is not.
LEMMA UnderWay ==
    ASSUME IInv, NEW c \in Callers
    PROVE  calls[c] \in Promise!Over <=> pc[c] = "idle"
  BY DEF calls, CallOf, Promise!Over, IInv, TypeOK, OpFits, Critical

\* A call begins for the promise when it begins.
LEMMA BeginsAsPromised ==
    ASSUME IInv, NEW c \in Callers, Step(c), NEW what, NEW d, NEW to \in {"waiting", "rejecting"},
           Begin(c, what, d, to)
    PROVE  Promise!Begin(c, what, d) /\ calls[c] \in Promise!Over
  <1>1. pc'[c] = to /\ op'[c] = what
    BY DEF IInv, TypeOK
  <1>2. calls' = [calls EXCEPT ![c] = what]
    BY <1>1, OneCallMoves DEF CallOf
  <1>3. calls[c] \in Promise!Over
    BY UnderWay
  <1> QED
    BY <1>2, <1>3 DEF Promise!Begin, calls

\* It returns for the promise when it returns.
LEMMA ReturnsAsPromised ==
    ASSUME IInv, NEW c \in Callers, Step(c), NEW how, Finish(c, how), UNCHANGED known
    PROVE  Promise!Returns(c, how)
  <1>1. pc'[c] = "idle" /\ op'[c] = how
    BY DEF IInv, TypeOK
  <1>2. calls' = [calls EXCEPT ![c] = how]
    BY <1>1, OneCallMoves DEF CallOf
  <1> QED
    BY <1>2 DEF Promise!Returns, calls

\* A failure, wherever it comes, is a failure for the promise.
LEMMA FailsAsPromised ==
    ASSUME IInv, NEW c \in Callers, Step(c), pc[c] # "idle", Finish(c, "failed"),
           UNCHANGED <<store, found, known>>
    PROVE  Promise!Fail(c)
  <1>1. calls[c] \notin Promise!Over
    BY UnderWay
  <1> QED
    BY <1>1, ReturnsAsPromised DEF Promise!Fail, calls

\* Nothing the promise knows of changes.
Unseen ==
    UNCHANGED <<facts, above, candidates, draft, known, found>> /\ calls' = calls

LEMMA UnseenStutters == ASSUME Unseen PROVE UNCHANGED Promise!vars
  BY DEF Unseen, Promise!vars, calls

PromiseStep(c) ==
    \/ Promise!Call(c) \/ Promise!Add(c) \/ Promise!Pick(c) \/ Promise!FindMerged(c)
    \/ Promise!Clear(c) \/ Promise!Keep(c) \/ Promise!Discard(c) \/ Promise!Confirm(c)
    \/ Promise!Tell(c) \/ Promise!Fail(c)

\* The calls.
LEMMA CallsAsPromised ==
    ASSUME IInv, NEW c \in Callers, Step(c),
           Record(c) \/ Submit(c) \/ Accept(c) \/ Reject(c) \/ Reindex(c) \/ Search(c)
    PROVE  Promise!Call(c)
  <1>1. CASE Record(c)
    BY <1>1, BeginsAsPromised DEF Record, Main, Promise!Call, calls
  <1>2. CASE Submit(c)
    BY <1>2, BeginsAsPromised DEF Submit, Promise!Call, calls
  <1>3. CASE Accept(c)
    BY <1>3, BeginsAsPromised DEF Accept, Main, Promise!Call, calls
  <1>4. CASE Reject(c)
    BY <1>4, BeginsAsPromised DEF Reject, Main, Promise!Call, calls
  <1>5. CASE Reindex(c) \/ Search(c)
    BY <1>5, BeginsAsPromised DEF Reindex, Search, Promise!Call, calls
  <1> QED
    BY <1>1, <1>2, <1>3, <1>4, <1>5

\* rejecting, submitting, and what an accept finds.
LEMMA CandidatesAsPromised ==
    ASSUME IInv, NEW c \in Callers, Step(c),
           Unlink(c) \/ WriteCandidate(c) \/ ReadCandidate(c) \/ Remove(c)
    PROVE  PromiseStep(c)
  <1> USE DEF TypeOK, Critical
  <1>0. TypeOK /\ OpFits(c) /\ Relies(c)
    BY DEF IInv
  <1>1. CASE Unlink(c)
    <2>1. calls[c] = "reject"
      BY <1>0, <1>1 DEF Unlink, OpFits, calls, CallOf
    <2> QED
      BY <1>1, <2>1, ReturnsAsPromised
         DEF Unlink, WithId, PromiseStep, Promise!Discard, calls
  <1>2. CASE WriteCandidate(c)
    <2>1. calls[c] = "submit"
      BY <1>0, <1>2 DEF WriteCandidate, OpFits, calls, CallOf
    <2>2. CASE WithId(candidates, draft[c]) \subseteq {draft[c]}
      BY <1>2, <2>1, <2>2, ReturnsAsPromised
         DEF WriteCandidate, WithId, PromiseStep, Promise!Keep, calls
    <2>3. CASE ~(WithId(candidates, draft[c]) \subseteq {draft[c]})
      BY <1>2, <2>3, FailsAsPromised DEF WriteCandidate, PromiseStep
    <2> QED
      BY <2>2, <2>3
  <1>3. CASE ReadCandidate(c)
    <2>1. calls[c] = "accept"
      BY <1>0, <1>3 DEF ReadCandidate, OpFits, calls, CallOf
    <2>2. CASE Finish(c, "failed") /\ UNCHANGED <<store, found, known>>
      BY <1>3, <2>2, FailsAsPromised DEF ReadCandidate, PromiseStep
    <2>3. ASSUME NEW d \in WithId(candidates, draft[c]), draft' = [draft EXCEPT ![c] = d],
                 Continue(c, "checking"), UNCHANGED <<op, view, store, found, known>>
          PROVE  PromiseStep(c)
      <3>1. calls' = [calls EXCEPT ![c] = "accepting"]
        BY <1>0, <1>3, <2>3, OneCallMoves DEF ReadCandidate, OpFits, CallOf
      <3> QED
        BY <2>1, <2>3, <3>1 DEF WithId, PromiseStep, Promise!Pick, Promise!Goes, calls
    <2> QED
      BY <1>3, <2>2, <2>3 DEF ReadCandidate
  <1>4. CASE Remove(c)
    <2>1. calls[c] = "merged" /\ WithId(candidates, draft[c]) \subseteq {draft[c]} /\ draft[c] \in Drafts
      BY <1>0, <1>4 DEF Remove, OpFits, Relies, HasRead, calls, CallOf
    <2>2. candidates' = candidates \ {draft[c]}
      BY <1>4, <2>1 DEF Remove, WithId
    <2> QED
      BY <1>4, <2>1, <2>2, ReturnsAsPromised DEF Remove, PromiseStep, Promise!Clear, calls
  <1> QED
    BY <1>1, <1>2, <1>3, <1>4

\* The comparison under the lock and the write: the file is what was compared, so that the
\* two are one step for the promise.
LEMMA FactsAsPromised ==
    ASSUME IInv, NEW c \in Callers, Step(c), Check(c) \/ Write(c)
    PROVE  PromiseStep(c) \/ Unseen
  <1> USE DEF TypeOK, Critical
  <1>0. TypeOK /\ OpFits(c) /\ Relies(c)
    BY DEF IInv
  <1>1. CASE Check(c)
    <2>0. pc[c] = "checking" /\ op[c] \in {"record", "accept"}
      BY <1>0, <1>1 DEF Check, OpFits
    <2>1. CASE Finish(c, "failed")
      BY <1>1, <2>0, <2>1, FailsAsPromised DEF Check, PromiseStep
    <2>2. CASE Continue(c, "writing") /\ UNCHANGED <<op, draft>>
      <3>1. CallOf(c)' = CallOf(c)
        BY <1>0, <2>0, <2>2 DEF CallOf
      <3>2. calls' = calls
        BY <3>1, OneCallMoves DEF calls
      <3> QED
        BY <1>1, <2>2, <3>2 DEF Check, Unseen
    <2>3. CASE /\ op[c] = "accept" /\ draft[c] \in facts
               /\ op' = [op EXCEPT ![c] = "merged"] /\ Continue(c, "parsing") /\ UNCHANGED draft
      <3>1. calls[c] = "accepting" /\ CallOf(c)' = "merged"
        BY <1>0, <2>0, <2>3 DEF calls, CallOf
      <3> QED
        BY <1>1, <2>3, <3>1, OneCallMoves
           DEF Check, PromiseStep, Promise!FindMerged, Promise!Goes, calls
    <2> QED
      BY <1>1, <2>1, <2>2, <2>3 DEF Check, Merged
  <1>2. CASE Write(c)
    <2>0. /\ pc[c] = "writing" /\ op[c] \in {"record", "accept"}
          /\ view[c] = facts /\ ~Duplicate(draft[c])
      BY <1>0, <1>2 DEF Write, OpFits, Relies
    <2>1. /\ facts' = facts \cup {draft[c]} /\ above' = [above EXCEPT ![draft[c]] = facts]
          /\ ~Promise!Taken(draft[c])
      BY <1>2, <2>0 DEF Write, Duplicate, Promise!Taken
    <2>2. \/ calls[c] = "record" /\ CallOf(c)' = "recorded"
          \/ calls[c] = "accepting" /\ CallOf(c)' = "merged"
      BY <1>0, <1>2, <2>0 DEF Write, calls, CallOf
    <2>3. Promise!Goes(c, "record", "recorded") \/ Promise!Goes(c, "accepting", "merged")
      BY <2>2, OneCallMoves DEF Promise!Goes, calls
    <2> QED
      BY <1>2, <2>1, <2>3 DEF Write, PromiseStep, Promise!Add
  <1> QED
    BY <1>1, <1>2

\* The index is nothing to the promise; a call that has it behind it returns or, if it was
\* a merge, still has its candidate.
LEMMA IndexAsPromised ==
    ASSUME IInv, NEW c \in Callers, Step(c), Parse(c) \/ Commit(c)
    PROVE  PromiseStep(c) \/ Unseen
  <1> USE DEF TypeOK, Critical
  <1>0. TypeOK /\ OpFits(c) /\ Relies(c)
    BY DEF IInv
  <1>1. pc[c] \in {"parsing", "committing"} /\ op[c] \in {"record", "merged", "reindex", "search"}
        /\ UNCHANGED <<facts, above, candidates, found, known>>
    BY <1>0 DEF Parse, Commit, OpFits
  <1>2. CASE pc'[c] # "idle"
    <2>1. CallOf(c)' = CallOf(c) /\ UNCHANGED draft
      BY <1>0, <1>1, <1>2 DEF Parse, Commit, Indexed, CallOf
    <2>2. calls' = calls
      BY <2>1, OneCallMoves DEF calls
    <2> QED
      BY <1>1, <2>1, <2>2 DEF Unseen
  <1>3. CASE pc'[c] = "idle"
    <2>1. \/ Finish(c, "failed") /\ UNCHANGED <<store, found, known>>
          \/ Finish(c, "done") /\ op[c] \in {"record", "reindex"}
      BY <1>0, <1>1, <1>3 DEF Parse, Commit, Indexed
    <2>2. CASE Finish(c, "failed") /\ UNCHANGED <<store, found, known>>
      BY <1>1, <2>2, FailsAsPromised DEF PromiseStep
    <2>3. CASE Finish(c, "done") /\ op[c] \in {"record", "reindex"}
      <3>1. calls[c] \in {"recorded", "reindex"}
        BY <1>1, <2>3 DEF calls, CallOf
      <3> QED
        BY <1>1, <2>3, <3>1, ReturnsAsPromised DEF PromiseStep, Promise!Confirm, calls
    <2> QED
      BY <2>1, <2>2, <2>3
  <1> QED
    BY <1>2, <1>3

\* The index a search reads without the lock holds what it has to tell of.
LEMMA QueryAsPromised ==
    ASSUME IInv, NEW c \in Callers, Step(c), Query(c)
    PROVE  PromiseStep(c)
  <1>0. TypeOK /\ OpFits(c) /\ Relies(c) /\ StoreFits
    BY DEF IInv
  <1>1. calls[c] = "search" /\ known[c] \subseteq index /\ index \in SUBSET facts
    BY <1>0 DEF Query, OpFits, Relies, StoreFits, calls, CallOf
  <1>2. Promise!Returns(c, "found")
    BY ReturnsAsPromised DEF Query
  <1>3. PICK rows \in SUBSET {d \in index : Active(d)} :
          Top(rows, {d \in index : Active(d)}) /\ found' = [found EXCEPT ![c] = rows]
    BY DEF Query
  <1>4. ASSUME NEW set PROVE Top(rows, set) => Promise!Top(rows, set)
    BY DEF Top, Promise!Top, Cardinality, Promise!Cardinality
  <1>5. Promise!Tell(c)
    BY <1>1, <1>2, <1>3, <1>4 DEF Query, Promise!Tell, calls
  <1> QED
    BY <1>5 DEF PromiseStep

\* Every step of a call is one of the promise, or nothing it could see.
LEMMA StepAsPromised ==
    ASSUME IInv, NEW c \in Callers, Step(c)
    PROVE  PromiseStep(c) \/ Unseen
  <1>1. CASE Lock(c)
    <2>1. CallOf(c)' = CallOf(c)
      BY <1>1 DEF Lock, First, CallOf, IInv, TypeOK, OpFits, Critical
    <2>2. calls' = calls
      BY <2>1, OneCallMoves DEF calls
    <2> QED
      BY <1>1, <2>2 DEF Lock, Unseen
  <1>2. CASE Fails(c) \/ Crash(c)
    BY <1>2, FailsAsPromised DEF Fails, Crash, Critical, PromiseStep
  <1> QED
    BY <1>1, <1>2, CallsAsPromised, CandidatesAsPromised, FactsAsPromised, IndexAsPromised,
       QueryAsPromised DEF Step, PromiseStep

\* However many processes call at once, fail and die, and whatever is done to the file by
\* hand: to its callers the store is a set of facts and one of candidates, and each call one
\* step on them.
THEOREM StorePromiseKept == Spec => StoreKeepsPromise
  <1>1. IInv /\ [Next]_vars => [Promise!Next]_(Promise!vars)
    <2> SUFFICES ASSUME IInv, [Next]_vars PROVE [Promise!Next]_(Promise!vars)
      OBVIOUS
    <2>1. ASSUME NEW c \in Callers, Step(c) PROVE [Promise!Next]_(Promise!vars)
      BY <2>1, StepAsPromised, UnseenStutters DEF PromiseStep, Promise!Next
    <2>2. CASE Edit \/ UNCHANGED vars
      BY <2>2 DEF Edit, vars, Promise!vars, CallOf
    <2> QED
      BY <2>1, <2>2 DEF Next, Step
  <1> QED
    BY <1>1, InitStorePromise, MemoryInvariance, PTL DEF Spec, StoreKeepsPromise, Promise!Spec
=============================================================================
