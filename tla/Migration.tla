------------------------------ MODULE Migration ------------------------------
(***************************************************************************)
(* infrastructure/database.py: Database.migrate, called by every entry of   *)
(* the program before it uses state.db, by several processes at once.       *)
(* SQLite is modelled by what it promises: one writer at a time, a statement *)
(* or transaction that commits as a whole, a rollback when its connection   *)
(* closes or its process dies.  The statements of one migrate are separate  *)
(* transactions, except those under BEGIN IMMEDIATE.                        *)
(*                                                                          *)
(* schema says what the committed database looks like: "none" is a missing, *)
(* empty or table-less file, "bare" has schema_migrations only, "legacy" is *)
(* the known predecessor, "damaged" has the migrations of this version and  *)
(* another structure, "foreign" is anything else.  rows is the data in the  *)
(* four tables.                                                             *)
(***************************************************************************)
CONSTANTS
    Processes,  \* those that call migrate
    Rows,       \* the rows tasks, approvals and worktrees may hold
    Unclean,    \* the rows that register a worktree not yet cleaned
    NoOne

ASSUME ConstantsAssumption == NoOne \notin Processes

VARIABLES
    schema, rows,  \* the committed database
    writer,        \* the process that holds SQLite's write lock
    backups,       \* the backups that are complete, with their digest
    pc, allowLegacy, found, copy, \* a call's place, argument, versions read, backup
    answer,        \* how a call ended (observed)
    overtaken      \* the calls since whose beginning the structure was changed (observed)

db == <<schema, rows, writer, backups>>
vars == <<db, pc, allowLegacy, found, copy, answer, overtaken>>

Schemas == {"none", "bare", "legacy", "current", "damaged", "foreign"}
\* What schema_migrations says of a database.
Recorded == IF schema = "damaged" THEN "current" ELSE schema
Migrating == {"rechecking", "listing", "counting", "copying", "sealing", "replacing"}

TypeOK ==
    /\ schema \in Schemas
    /\ rows \subseteq Rows
    /\ writer \in Processes \cup {NoOne}
    /\ backups \subseteq SUBSET Rows
    /\ pc \in [Processes -> {"idle", "tables", "versions", "structure", "guarding", "bootstrapping",
                             "reading", "beginning", "applying"} \cup Migrating]
    /\ allowLegacy \in [Processes -> BOOLEAN]
    /\ found \in [Processes -> Schemas]
    /\ copy \in [Processes -> SUBSET Rows]
    /\ answer \in [Processes -> {"none", "migrated", "unknown schema", "failed"}]
    /\ overtaken \subseteq Processes

Init ==
    /\ schema \in Schemas \ {"bare"}
    /\ rows \in SUBSET Rows /\ (schema = "none" => rows = {})
    /\ writer = NoOne
    /\ backups = {}
    /\ pc = [p \in Processes |-> "idle"]
    /\ allowLegacy = [p \in Processes |-> FALSE]
    /\ found = [p \in Processes |-> "none"]
    /\ copy = [p \in Processes |-> {}]
    /\ answer = [p \in Processes |-> "none"]
    /\ overtaken = {}

Goto(p, to) ==
    /\ pc' = [pc EXCEPT ![p] = to]
    /\ UNCHANGED <<allowLegacy, answer, overtaken>>
\* The call ends; what it kept is forgotten.
Return(p, result) ==
    /\ pc' = [pc EXCEPT ![p] = "idle"]
    /\ answer' = [answer EXCEPT ![p] = result]
    /\ allowLegacy' = [allowLegacy EXCEPT ![p] = FALSE]
    /\ found' = [found EXCEPT ![p] = "none"]
    /\ copy' = [copy EXCEPT ![p] = {}]
    /\ UNCHANGED overtaken

\* Closing the connection rolls back, and frees the lock.
Release(p) == writer' = IF writer = p THEN NoOne ELSE writer

Raise(p, error) ==
    /\ Return(p, error)
    /\ Release(p)
    /\ UNCHANGED <<schema, rows, backups>>

-----------------------------------------------------------------------------
(***************************************************************************)
(* _is_legacy without a lock: tables, versions and structure are read one   *)
(* after the other.                                                         *)
(***************************************************************************)
Migrate(p) ==
    /\ pc[p] = "idle"
    /\ pc' = [pc EXCEPT ![p] = "tables"]
    /\ \E allowed \in BOOLEAN : allowLegacy' = [allowLegacy EXCEPT ![p] = allowed]
    /\ answer' = [answer EXCEPT ![p] = "none"]
    /\ overtaken' = overtaken \ {p}
    /\ UNCHANGED <<db, found, copy>>

ReadTables(p) ==
    /\ pc[p] = "tables"
    /\ \/ schema = "none" /\ Goto(p, "bootstrapping") /\ UNCHANGED <<db, found, copy>>
       \/ /\ schema \in {"legacy", "current", "damaged"}
          /\ Goto(p, "versions") /\ UNCHANGED <<db, found, copy>>
       \/ schema \in {"bare", "damaged", "foreign"} /\ Raise(p, "unknown schema")

ReadVersions(p) ==
    /\ pc[p] = "versions"
    /\ found' = [found EXCEPT ![p] = Recorded]
    /\ Goto(p, "structure")
    /\ UNCHANGED <<db, copy>>

CompareStructure(p) ==
    /\ pc[p] = "structure"
    /\ \/ /\ found[p] = schema
          /\ \/ schema = "current" /\ Goto(p, "bootstrapping") /\ UNCHANGED <<db, found, copy>>
             \/ /\ schema = "legacy" /\ allowLegacy[p]
                /\ Goto(p, "guarding") /\ UNCHANGED <<db, found, copy>>
             \/ schema = "legacy" /\ ~allowLegacy[p] /\ Raise(p, "failed")
       \/ found[p] # schema /\ Raise(p, "unknown schema")

-----------------------------------------------------------------------------
(***************************************************************************)
(* The explicit replacement of a predecessor, one write transaction.        *)
(***************************************************************************)

\* Mutant: a deferred BEGIN, which takes no lock until the first write.
GuardDeferred(p) ==
    /\ pc[p] = "guarding"
    /\ Goto(p, "rechecking")
    /\ UNCHANGED <<db, found, copy>>

Guard(p) ==
    /\ pc[p] = "guarding" /\ writer = NoOne
    /\ writer' = p
    /\ Goto(p, "rechecking")
    /\ UNCHANGED <<schema, rows, backups, found, copy>>

\* Mutant: what was read before the lock is still believed.
RecheckNothing(p) ==
    /\ pc[p] = "rechecking"
    /\ Goto(p, "listing")
    /\ UNCHANGED <<db, found, copy>>

Recheck(p) ==
    /\ pc[p] = "rechecking"
    /\ \/ schema = "legacy" /\ Goto(p, "listing") /\ UNCHANGED <<db, found, copy>>
       \/ schema = "current" /\ Raise(p, "failed")
       \/ schema \notin {"legacy", "current"} /\ Raise(p, "unknown schema")

\* git worktree list shows the main checkout only, or the call ends (Fails).
ListWorktrees(p) ==
    /\ pc[p] = "listing"
    /\ Goto(p, "counting")
    /\ UNCHANGED <<db, found, copy>>

\* Mutant: registrations are not counted.
CountNothing(p) ==
    /\ pc[p] = "counting"
    /\ Goto(p, "copying")
    /\ UNCHANGED <<db, found, copy>>

CountUnclean(p) ==
    /\ pc[p] = "counting"
    /\ \/ rows \cap Unclean = {} /\ Goto(p, "copying") /\ UNCHANGED <<db, found, copy>>
       \/ rows \cap Unclean # {} /\ Raise(p, "failed")

\* Mutant: the backups that are there already are copied along.
BackupAll(p) ==
    /\ pc[p] = "copying"
    /\ copy' = [copy EXCEPT ![p] = backups \cup {rows}]
    /\ Goto(p, "sealing")
    /\ UNCHANGED <<db, found>>

Backup(p) ==
    /\ pc[p] = "copying"
    /\ copy' = [copy EXCEPT ![p] = rows]
    /\ Goto(p, "sealing")
    /\ UNCHANGED <<db, found>>

WriteDigest(p) ==
    /\ pc[p] = "sealing"
    /\ backups' = backups \cup {copy[p]}
    /\ Goto(p, "replacing")
    /\ UNCHANGED <<schema, rows, writer, found, copy>>

\* Drop, recreate, record and commit.
Replace(p) ==
    /\ pc[p] = "replacing"
    /\ schema' = "current"
    /\ rows' = {}
    /\ Release(p)
    /\ pc' = [pc EXCEPT ![p] = "bootstrapping"]
    /\ UNCHANGED <<backups, allowLegacy, found, copy, answer, overtaken>>

-----------------------------------------------------------------------------
(***************************************************************************)
(* The numbered migration.                                                  *)
(***************************************************************************)

\* CREATE TABLE IF NOT EXISTS commits by itself.
Bootstrap(p) ==
    /\ pc[p] = "bootstrapping"
    /\ \/ schema = "none" /\ writer = NoOne /\ schema' = "bare"
       \/ schema # "none" /\ UNCHANGED schema
    /\ Goto(p, "reading")
    /\ UNCHANGED <<rows, writer, backups, found, copy>>

\* Mutant: the checksum of an applied migration is not compared.
ReadUnvalidated(p) ==
    /\ pc[p] = "reading"
    /\ \/ schema = "bare" /\ Goto(p, "beginning") /\ UNCHANGED <<db, found, copy>>
       \/ schema # "bare" /\ Return(p, "migrated") /\ UNCHANGED db

\* Versions and checksums are compared here, the structure is not.
ReadApplied(p) ==
    /\ pc[p] = "reading"
    /\ \/ Recorded = "bare" /\ Goto(p, "beginning") /\ UNCHANGED <<db, found, copy>>
       \/ Recorded = "current" /\ Return(p, "migrated") /\ UNCHANGED db
       \/ Recorded \notin {"bare", "current"} /\ Raise(p, "failed")

Begin(p) ==
    /\ pc[p] = "beginning" /\ writer = NoOne
    /\ writer' = p
    /\ Goto(p, "applying")
    /\ UNCHANGED <<schema, rows, backups, found, copy>>

\* The tables may exist by now: CREATE TABLE fails.
Apply(p) ==
    /\ pc[p] = "applying"
    /\ \/ /\ schema = "bare"
          /\ schema' = "current"
          /\ Release(p)
          /\ Return(p, "migrated")
          /\ UNCHANGED <<rows, backups>>
       \/ schema # "bare" /\ Raise(p, "failed")

-----------------------------------------------------------------------------
(***************************************************************************)
(* The environment.                                                         *)
(***************************************************************************)

\* An error of SQLite, git or the file system, a lock not obtained in time, or death.
Fails(p) ==
    /\ pc[p] # "idle"
    /\ Raise(p, "failed")

\* A session of either version, past its own migrate, commits a row.
Write(r) ==
    /\ schema \in {"legacy", "current", "damaged"} /\ writer = NoOne
    /\ rows' = rows \cup {r}
    /\ UNCHANGED <<schema, writer, backups, pc, allowLegacy, found, copy, answer, overtaken>>

\* The predecessor is started on a database that has no tables of its own yet.
OldInit ==
    /\ schema \in {"none", "bare"} /\ writer = NoOne
    /\ schema' = "legacy"
    /\ UNCHANGED <<rows, writer, backups, pc, allowLegacy, found, copy, answer, overtaken>>

\* Somebody changes the structure by hand and leaves schema_migrations alone.
Damage ==
    /\ schema \in {"legacy", "current"} /\ writer = NoOne
    /\ schema' = IF schema = "current" THEN "damaged" ELSE "foreign"
    /\ overtaken' = Processes
    /\ UNCHANGED <<rows, writer, backups, pc, allowLegacy, found, copy, answer>>

Step(p) ==
    \/ Migrate(p) \/ ReadTables(p) \/ ReadVersions(p) \/ CompareStructure(p)
    \/ Guard(p) \/ Recheck(p) \/ ListWorktrees(p) \/ CountUnclean(p)
    \/ Backup(p) \/ WriteDigest(p) \/ Replace(p)
    \/ Bootstrap(p) \/ ReadApplied(p) \/ Begin(p) \/ Apply(p) \/ Fails(p)

Next == (\E p \in Processes : Step(p)) \/ (\E r \in Rows : Write(r)) \/ OldInit \/ Damage

Spec == Init /\ [][Next]_vars

-----------------------------------------------------------------------------
(***************************************************************************)
(* Properties.                                                              *)
(***************************************************************************)

\* Whatever other processes commit meanwhile, no row leaves the database before a
\* complete backup, with its digest, holds every row there was.
NothingDropped == [][rows \subseteq rows' \/ rows \in backups]_rows

\* The registration of a worktree that is still in use is never dropped: nobody could
\* find the worktree afterwards.
UncleanStay == [][rows \cap Unclean \subseteq rows']_rows

\* A database that has been migrated is never rebuilt, not by a migrate either that saw
\* the predecessor before another one replaced it, and not when it has been damaged.
CurrentIsKept ==
    [][Recorded = "current" => Recorded' = "current" /\ rows \subseteq rows']_db

\* migrate returns only over a database whose migrations are those of this version, however
\* many processes create, replace or damage it at once; and never over another structure,
\* unless that was changed after the call began: the structure is compared once, without a
\* lock, and the second pass (database.py:309-322) looks at versions and checksums only.
FoundCurrent(p) == Recorded = "current" /\ (schema = "damaged" => p \in overtaken)
MigratedIsCurrent == \A p \in Processes : answer[p] = "migrated" => FoundCurrent(p)

\* A database that only this program and its predecessor have touched is never taken
\* for an unknown one.
KnownIsRecognized == \A p \in Processes : answer[p] = "unknown schema" => schema \in {"damaged", "foreign"}
=============================================================================
