--------------------------- MODULE MigrationProofs ---------------------------
(***************************************************************************)
(* What Migration promises holds for every set of processes and rows.       *)
(*                                                                          *)
(* The properties are not inductive: that a replacement drops nothing       *)
(* follows from what each of its steps has established and from the lock    *)
(* that keeps it so.  Established says what a call may rely on at each      *)
(* place; with the write lock held by one process at a time, no step of     *)
(* another one can take it away.                                            *)
(***************************************************************************)
EXTENDS Migration, TLAPS

AfterRecheck == Migrating \ {"rechecking"}
AfterCount == {"copying", "sealing", "replacing"}

\* What a call of migrate has established when it is at its place.
Established(p) ==
    /\ pc[p] \in Migrating \cup {"applying"} => writer = p
    /\ pc[p] \in AfterRecheck => schema = "legacy"
    /\ pc[p] \in AfterCount => rows \cap Unclean = {}
    /\ pc[p] \in {"sealing", "replacing"} => copy[p] = rows
    /\ pc[p] = "replacing" => rows \in backups
    /\ pc[p] \in {"bootstrapping", "reading"} /\ schema = "damaged" => p \in overtaken

IInv ==
    /\ TypeOK
    /\ \A p \in Processes : Established(p)
    /\ MigratedIsCurrent

\* What a step of one call leaves to the others: their places, the lock when they hold
\* it, a predecessor and its rows when they have locked it, a current database and its
\* structure, backups.
LeavesOthers(p) ==
    /\ \A q \in Processes \ {p} :
         pc'[q] = pc[q] /\ copy'[q] = copy[q] /\ answer'[q] = answer[q]
    /\ writer' # writer => writer \in {p, NoOne}
    /\ schema = "legacy" /\ schema' # "legacy" => writer = p
    /\ rows' # rows => writer = p /\ schema = "legacy"
    /\ Recorded = "current" => Recorded' = "current"
    /\ schema' = "damaged" => schema = "damaged"
    /\ \A q \in Processes \ {p} : q \in overtaken => q \in overtaken'
    /\ backups \subseteq backups'

USE DEF db, Goto, Return, Release, Raise, Recorded, FoundCurrent

-----------------------------------------------------------------------------
\* Before any call nothing has been established and nobody answered.
LEMMA InitIInv == Init => IInv
  <1> SUFFICES ASSUME Init PROVE IInv
    OBVIOUS
  <1>1. TypeOK
    BY DEF Init, TypeOK, Schemas, Migrating
  <1>2. \A p \in Processes : Established(p)
    BY DEF Init, Established, Migrating, AfterRecheck, AfterCount
  <1>3. MigratedIsCurrent
    BY DEF Init, MigratedIsCurrent
  <1> QED
    BY <1>1, <1>2, <1>3 DEF IInv

\* Each step keeps every variable in its range.
LEMMA StepType ==
    ASSUME TypeOK, NEW p \in Processes, Step(p)
    PROVE  TypeOK'
  <1> USE DEF TypeOK, Schemas, Migrating
  <1>1. CASE Migrate(p)
    BY <1>1 DEF Migrate
  <1>2. CASE ReadTables(p)
    BY <1>2 DEF ReadTables
  <1>3. CASE ReadVersions(p)
    BY <1>3 DEF ReadVersions
  <1>4. CASE CompareStructure(p)
    BY <1>4 DEF CompareStructure
  <1>5. CASE Guard(p)
    BY <1>5 DEF Guard
  <1>6. CASE Recheck(p)
    BY <1>6 DEF Recheck
  <1>7. CASE ListWorktrees(p)
    BY <1>7 DEF ListWorktrees
  <1>8. CASE CountUnclean(p)
    BY <1>8 DEF CountUnclean
  <1>9. CASE Backup(p)
    BY <1>9 DEF Backup
  <1>10. CASE WriteDigest(p)
    <2>1. backups' \subseteq SUBSET Rows
      <3>1. copy[p] \in SUBSET Rows /\ backups' = backups \cup {copy[p]}
        BY <1>10 DEF WriteDigest
      <3> QED
        BY <3>1
    <2>2. UNCHANGED <<schema, rows, writer, found, copy, allowLegacy, answer, overtaken>>
      BY <1>10 DEF WriteDigest
    <2>3. pc' = [pc EXCEPT ![p] = "replacing"]
      BY <1>10 DEF WriteDigest
    <2> QED
      BY <2>1, <2>2, <2>3
  <1>11. CASE Replace(p)
    BY <1>11 DEF Replace
  <1>12. CASE Bootstrap(p)
    BY <1>12 DEF Bootstrap
  <1>13. CASE ReadApplied(p)
    BY <1>13 DEF ReadApplied
  <1>14. CASE Begin(p)
    BY <1>14 DEF Begin
  <1>15. CASE Apply(p)
    BY <1>15 DEF Apply
  <1>16. CASE Fails(p)
    BY <1>16 DEF Fails
  <1> QED
    BY <1>1, <1>2, <1>3, <1>4, <1>5, <1>6, <1>7, <1>8, <1>9, <1>10, <1>11, <1>12,
       <1>13, <1>14, <1>15, <1>16 DEF Step

\* Each step leaves to the others what they have established.
LEMMA StepLeavesOthers ==
    ASSUME IInv, NEW p \in Processes, Step(p)
    PROVE  LeavesOthers(p)
  <1> USE DEF IInv, TypeOK, LeavesOthers, Migrating
  <1>1. CASE Migrate(p)
    BY <1>1 DEF Migrate
  <1>2. CASE ReadTables(p)
    BY <1>2 DEF ReadTables
  <1>3. CASE ReadVersions(p)
    BY <1>3 DEF ReadVersions
  <1>4. CASE CompareStructure(p)
    BY <1>4 DEF CompareStructure
  <1>5. CASE Guard(p)
    BY <1>5 DEF Guard
  <1>6. CASE Recheck(p)
    BY <1>6 DEF Recheck
  <1>7. CASE ListWorktrees(p)
    BY <1>7 DEF ListWorktrees
  <1>8. CASE CountUnclean(p)
    BY <1>8 DEF CountUnclean
  <1>9. CASE Backup(p)
    BY <1>9 DEF Backup
  <1>10. CASE WriteDigest(p)
    BY <1>10 DEF WriteDigest
  <1>11. CASE Replace(p)
    <2>1. writer = p /\ schema = "legacy"
      BY <1>11 DEF Replace, Established, AfterRecheck
    <2> QED
      BY <1>11, <2>1 DEF Replace
  <1>12. CASE Bootstrap(p)
    BY <1>12 DEF Bootstrap
  <1>13. CASE ReadApplied(p)
    BY <1>13 DEF ReadApplied
  <1>14. CASE Begin(p)
    BY <1>14 DEF Begin
  <1>15. CASE Apply(p)
    BY <1>15 DEF Apply
  <1>16. CASE Fails(p)
    BY <1>16 DEF Fails
  <1> QED
    BY <1>1, <1>2, <1>3, <1>4, <1>5, <1>6, <1>7, <1>8, <1>9, <1>10, <1>11, <1>12,
       <1>13, <1>14, <1>15, <1>16 DEF Step

\* An error leaves nothing to rely on.
LEMMA ErrorEstablishes ==
    ASSUME IInv, NEW p \in Processes, Raise(p, "unknown schema") \/ Raise(p, "failed")
    PROVE  Established(p)' /\ (answer'[p] = "migrated" => FoundCurrent(p)')
  <1>1. pc'[p] = "idle" /\ answer'[p] # "migrated"
    BY DEF IInv, TypeOK
  <1> QED
    BY <1>1 DEF Established, Migrating, AfterRecheck, AfterCount

\* Each step establishes what the next place of its own call relies on.
LEMMA StepEstablishes ==
    ASSUME IInv, NEW p \in Processes, Step(p)
    PROVE  Established(p)' /\ (answer'[p] = "migrated" => FoundCurrent(p)')
  <1> USE DEF IInv, TypeOK, Established, Migrating, AfterRecheck, AfterCount
  <1>0. answer[p] = "migrated" => FoundCurrent(p)
    BY DEF MigratedIsCurrent
  <1>1. CASE Migrate(p)
    BY <1>1 DEF Migrate
  <1>2. CASE ReadTables(p)
    <2>1. CASE Raise(p, "unknown schema")
      BY <2>1, ErrorEstablishes
    <2>2. CASE ~Raise(p, "unknown schema")
      <3>1. /\ UNCHANGED <<db, found, copy>>
            /\ \/ schema = "none" /\ Goto(p, "bootstrapping")
               \/ Goto(p, "versions")
        BY <1>2, <2>2 DEF ReadTables
      <3> QED
        BY <1>0, <3>1
    <2> QED
      BY <2>1, <2>2
  <1>3. CASE ReadVersions(p)
    BY <1>0, <1>3 DEF ReadVersions
  <1>4. CASE CompareStructure(p)
    <2>1. CASE Raise(p, "unknown schema") \/ Raise(p, "failed")
      BY <2>1, ErrorEstablishes
    <2>2. CASE ~(Raise(p, "unknown schema") \/ Raise(p, "failed"))
      <3>1. /\ pc[p] = "structure" /\ UNCHANGED <<db, found, copy>>
            /\ \/ schema = "current" /\ Goto(p, "bootstrapping")
               \/ schema = "legacy" /\ Goto(p, "guarding")
        BY <1>4, <2>2 DEF CompareStructure
      <3> QED
        BY <1>0, <3>1
    <2> QED
      BY <2>1, <2>2
  <1>5. CASE Guard(p)
    BY <1>0, <1>5 DEF Guard
  <1>6. CASE Recheck(p)
    <2>1. CASE Raise(p, "unknown schema") \/ Raise(p, "failed")
      BY <2>1, ErrorEstablishes
    <2>2. CASE ~(Raise(p, "unknown schema") \/ Raise(p, "failed"))
      <3>1. /\ pc[p] = "rechecking" /\ schema = "legacy"
            /\ Goto(p, "listing") /\ UNCHANGED <<db, found, copy>>
        BY <1>6, <2>2 DEF Recheck
      <3> QED
        BY <1>0, <3>1
    <2> QED
      BY <2>1, <2>2
  <1>7. CASE ListWorktrees(p)
    BY <1>0, <1>7 DEF ListWorktrees
  <1>8. CASE CountUnclean(p)
    <2>1. CASE Raise(p, "failed")
      BY <2>1, ErrorEstablishes
    <2>2. CASE ~Raise(p, "failed")
      <3>1. /\ pc[p] = "counting" /\ rows \cap Unclean = {}
            /\ Goto(p, "copying") /\ UNCHANGED <<db, found, copy>>
        BY <1>8, <2>2 DEF CountUnclean
      <3> QED
        BY <1>0, <3>1
    <2> QED
      BY <2>1, <2>2
  <1>9. CASE Backup(p)
    BY <1>0, <1>9 DEF Backup
  <1>10. CASE WriteDigest(p)
    BY <1>0, <1>10 DEF WriteDigest
  <1>11. CASE Replace(p)
    BY <1>11 DEF Replace
  <1>12. CASE Bootstrap(p)
    BY <1>0, <1>12 DEF Bootstrap
  <1>13. CASE ReadApplied(p)
    <2>1. CASE Raise(p, "failed")
      BY <2>1, ErrorEstablishes
    <2>2. CASE ~Raise(p, "failed")
      <3>1. /\ pc[p] = "reading" /\ UNCHANGED db
            /\ \/ Goto(p, "beginning") /\ UNCHANGED <<found, copy>>
               \/ Recorded = "current" /\ Return(p, "migrated")
        BY <1>13, <2>2 DEF ReadApplied
      <3> QED
        BY <1>0, <3>1
    <2> QED
      BY <2>1, <2>2
  <1>14. CASE Begin(p)
    BY <1>0, <1>14 DEF Begin
  <1>15. CASE Apply(p)
    <2>1. CASE Raise(p, "failed")
      BY <2>1, ErrorEstablishes
    <2>2. CASE ~Raise(p, "failed")
      <3>1. schema' = "current" /\ Return(p, "migrated")
        BY <1>15, <2>2 DEF Apply
      <3>2. pc'[p] = "idle" /\ Recorded' = "current" /\ schema' # "damaged"
        BY <3>1
      <3> QED
        BY <3>2
    <2> QED
      BY <2>1, <2>2
  <1>16. CASE Fails(p)
    BY <1>16 DEF Fails
  <1> QED
    BY <1>1, <1>2, <1>3, <1>4, <1>5, <1>6, <1>7, <1>8, <1>9, <1>10, <1>11, <1>12,
       <1>13, <1>14, <1>15, <1>16 DEF Step

\* The other sessions write only while nobody holds the lock.
LEMMA EnvironmentKeepsIInv ==
    ASSUME IInv, OldInit \/ Damage \/ \E r \in Rows : Write(r)
    PROVE  IInv'
  <1>1. TypeOK' /\ writer = NoOne
    BY DEF IInv, TypeOK, Schemas, OldInit, Write, Damage
  <1>2. \A p \in Processes : FoundCurrent(p) => FoundCurrent(p)'
    BY DEF OldInit, Write, Damage
  <1>3. /\ UNCHANGED <<writer, pc, copy, answer>>
        /\ schema' = "damaged" => (schema = "damaged" /\ UNCHANGED overtaken) \/ overtaken' = Processes
    BY DEF OldInit, Write, Damage
  <1>4. \A p \in Processes : Established(p)'
    BY <1>1, <1>3, ConstantsAssumption
       DEF IInv, Established, AfterRecheck, AfterCount, Migrating
  <1>5. MigratedIsCurrent'
    BY <1>2, <1>3 DEF IInv, MigratedIsCurrent
  <1> QED
    BY <1>1, <1>4, <1>5 DEF IInv

\* Every step of a call or of the environment keeps the invariant.
LEMMA NextIInv == IInv /\ [Next]_vars => IInv'
  <1> SUFFICES ASSUME IInv, [Next]_vars PROVE IInv'
    OBVIOUS
  <1>1. ASSUME NEW p \in Processes, Step(p) PROVE IInv'
    <2>1. TypeOK'
      BY <1>1, StepType DEF IInv
    <2>2. LeavesOthers(p)
      BY <1>1, StepLeavesOthers
    <2>3. Established(p)' /\ (answer'[p] = "migrated" => FoundCurrent(p)')
      BY <1>1, StepEstablishes
    <2>4. ASSUME NEW q \in Processes \ {p}
          PROVE  Established(q)' /\ (answer'[q] = "migrated" => FoundCurrent(q)')
      <3>1. Established(q) /\ (answer[q] = "migrated" => FoundCurrent(q))
        BY DEF IInv, MigratedIsCurrent
      <3>2. q # NoOne
        BY ConstantsAssumption
      <3> QED
        BY <2>2, <3>1, <3>2
           DEF LeavesOthers, Established, AfterRecheck, AfterCount, Migrating
    <2> QED
      BY <2>1, <2>3, <2>4 DEF IInv, MigratedIsCurrent
  <1>2. CASE OldInit \/ Damage \/ \E r \in Rows : Write(r)
    BY <1>2, EnvironmentKeepsIInv
  <1>3. CASE UNCHANGED vars
    BY <1>3 DEF vars, IInv, TypeOK, Established, MigratedIsCurrent
  <1> QED
    BY <1>1, <1>2, <1>3 DEF Next

\* The types, and what every call has established at its place, hold throughout.
THEOREM Invariance == Spec => []IInv
  BY InitIInv, NextIInv, PTL DEF Spec

\* Every variable stays in its range.
THEOREM MigrationTypes == Spec => []TypeOK
  <1>1. IInv => TypeOK
    BY DEF IInv
  <1> QED
    BY <1>1, Invariance, PTL

\* For every number of processes, and whoever damages the database: migrate returns only over
\* the migrations of this version, and over another structure only if that was changed after
\* the call began.
THEOREM MigratedOverCurrent == Spec => []MigratedIsCurrent
  <1>1. IInv => MigratedIsCurrent
    BY DEF IInv
  <1> QED
    BY <1>1, Invariance, PTL

\* A step removes rows, or touches a current database, only as the replacement does
\* once it has locked a predecessor, found no open worktree and sealed its backup.
LEMMA RowsLeaveByReplacement ==
    ASSUME IInv, [Next]_vars
    PROVE  /\ rows \subseteq rows' \/ (rows \in backups /\ rows \cap Unclean = {} /\ schema = "legacy")
           /\ Recorded = "current" => Recorded' = "current"
  <1>1. ASSUME NEW p \in Processes, Step(p)
        PROVE  rows \subseteq rows' \/ (rows \in backups /\ rows \cap Unclean = {} /\ schema = "legacy")
    <2>1. CASE Replace(p)
      BY <2>1 DEF Replace, IInv, Established, AfterRecheck, AfterCount, Migrating
    <2>2. CASE ~Replace(p)
      BY <1>1, <2>2 DEF Step, Migrate, ReadTables, ReadVersions, CompareStructure, Guard,
         Recheck, ListWorktrees, CountUnclean, Backup, WriteDigest, Bootstrap, ReadApplied,
         Begin, Apply, Fails
    <2> QED
      BY <2>1, <2>2
  <1>2. ASSUME NEW p \in Processes, Step(p)
        PROVE  Recorded = "current" => Recorded' = "current"
    BY <1>2, StepLeavesOthers DEF LeavesOthers
  <1> QED
    BY <1>1, <1>2 DEF Next, Write, OldInit, Damage, vars

\* Rows leave the database only when a complete backup holds all of them.
THEOREM NoRowDropped == Spec => NothingDropped
  <1>1. IInv /\ [Next]_vars => [rows \subseteq rows' \/ rows \in backups]_rows
    BY RowsLeaveByReplacement
  <1> QED
    BY <1>1, Invariance, PTL DEF Spec, NothingDropped

\* The registration of an uncleaned worktree never leaves it.
THEOREM NoUncleanDropped == Spec => UncleanStay
  <1>1. IInv /\ [Next]_vars => [rows \cap Unclean \subseteq rows']_rows
    BY RowsLeaveByReplacement
  <1> QED
    BY <1>1, Invariance, PTL DEF Spec, UncleanStay

\* A migrated database is never rebuilt.
THEOREM NoRebuild == Spec => CurrentIsKept
  <1>1. IInv /\ [Next]_vars
          => [Recorded = "current" => Recorded' = "current" /\ rows \subseteq rows']_db
    BY RowsLeaveByReplacement
  <1> QED
    BY <1>1, Invariance, PTL DEF Spec, CurrentIsKept
=============================================================================
