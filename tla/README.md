# Verification of Codex AI OS

Codex AI OS puts governance around a coding agent: gates before and after a task, a Finish
check that runs tests, a store of project memory, disposable Git worktrees for subagents,
and a small SQLite database. It is a command-line program, an MCP server and a set of
editor hooks. Several of these run at once on one checkout, in processes that may be
killed at any moment, and share files, locks, Git and the database. That sharing is what
these specifications are about.

Paths below are relative to `src/src/codex_ai_os/`.

## Contents

| Module | Models | Runs | Proofs |
|---|---|---|---|
| `FinishRun` (+ `MCFinishRun`) | `application/finish_execution.py`, `core/checks.py:run_thin_checks`, the lock of `infrastructure/files.py` | `finish_core`, `finish_live`, `finish_doc` | `FinishRunProofs` |
| `FinishPromise` | what a run id means to whoever asks; implemented by `FinishRun` | `finish_core` (`KeepsPromise`) | `FinishPromiseProofs` |
| `CommandPromise` | what a caller of `run_owned` promises about its command; implemented by `FinishRun` and by `OwnedCommand` | - | `FinishPromiseProofs`, `McpCheckProofs` |
| `MemoryStore` (+ `MCMemoryStore`) | `infrastructure/memory.py` | `memory`, `memory_doc` | `MemoryStoreProofs` |
| `MemoryPromise` | the store as its callers may think of it; implemented by `MemoryStore` | `memory` (`StoreKeepsPromise`) | `MemoryStoreProofs` |
| `Worktree` (+ `MCWorktree`) | `core/worktree.py`, `adapters/git.py` | `hook` (through `HookGate`), `worktree_retry`, `worktree_doc` | `HookGateProofs` |
| `HookGate` | `application/hook_gateway.py`, the plugin's `pre_tool_use.py`, `resolve_runtime_root` of `infrastructure/config.py`, the decisions of `application/authorization.py`; EXTENDS `Worktree` | `hook` (through `MCHook`) | `HookGateProofs` |
| `CleanupCheck` | `application/cleanup_policy.py` | `hook` (through `MCHook`) | `HookGateProofs` |
| `Hook` | `HookGate` and `CleanupCheck` side by side | `hook` (through `MCHook`) | `HookGateProofs` |
| `Migration` (+ `MCMigration`) | `infrastructure/database.py` | `setup` (through `ProjectSetup`), `migration_doc` | `MigrationProofs` |
| `ProjectSetup` (+ `MCSetup`) | `application/project.py`, `infrastructure/documents.py`; EXTENDS `Migration` | `setup` | `ProjectSetupProofs` |
| `OwnedCommand` | `process_control.py` | through `McpCheck` | `McpCheckProofs` |
| `McpCheck` | Finish requests of `cli/mcp_server.py`; EXTENDS `OwnedCommand` | `owned` | `McpCheckProofs` |
| `FrontendApproval` | the frontend gate of `core/gates.py`, `approval_record` of `cli/mcp_server.py` | `gates` (through `MCGates`) | `GatesProofs` |
| `CodeStart` | the Code Start gate of `core/gates.py`, `core/github_remote.py`, its recheck in `core/checks.py`, the write boundary of `application/hook_gateway.py` | `gates` (through `MCGates`) | `GatesProofs` |
| `Gates` | `CodeStart` and `FrontendApproval` side by side | `gates` (through `MCGates`) | `GatesProofs` |

`tlc -config <run>.cfg <module>` repeats a run, `tlapm <module>.tla` a proof.
`PROJECT.json` gives for each definition the lines it stands for, for each property a
change of the model ("Mutant:" in the modules) that a bug in that code would amount to and
that the property detects, and the list of hazards.

## Inventory

**Finish execution** (`finish_execution.py`, `checks.py`, `files.py`). State: one JSON
record per run id under `.codex-os/state/check-runs/`, a lock file per run id whose OS
lock is held while the run executes, a lock for the directory, the record in memory, the
command being run. Operations: `run_finish` (claim the id, begin / operate / finish each
of eight checks, end) and `query_execution` (read, probe the lock, read again). It calls
`run_owned` for commands and is called from the CLI or from a worker thread of the MCP
server, which cancels it by an event. Hard: saves that fail, a late cancellation or
interrupt, two callers of one id, queries beside a run, death at any point. Correct when:
an answer is never taken back, a result never changes, "allowed" means that every check
was carried out, no command runs unrecorded, and no check is taken for done while its
processes may live.

**Owned command trees** (`process_control.py`, `adapters/process.py`). State: a bootstrap
process, a Windows job or POSIX process group, the tree below it. One operation,
`run_owned`, used by Finish, `GitRunner` and the hooks. Hard: the bootstrap, the command
and its descendants run beside the owner; cancellation and deadline race their end.
Correct when: nothing starts unowned, nothing is left, success is the command's.

**Memory store** (`memory.py`). State: `memory.jsonl` (tracked facts), a directory of
candidates, the rebuildable table `memory_index`, `memory.lock`. Operations: record,
submit / accept / reject a candidate, reindex, search. Hard: read-check-replace by several
processes, a candidate file shared without the lock, failure between the file and the
index. Correct when: no record is lost or doubled, no candidate vanishes unmerged, a
search returns current facts, the first of them if it asks for fewer.

**Worktree lifecycle** (`worktree.py`, `git.py`). State: table `worktrees`, the working
copies, branches, the target branch and HEAD, which may be another one. Operations:
prepare, check, finish, cleanup, list. Each is a sequence of Git commands and SQL
statements without any lock. Hard: a failure between two of them, work committed
meanwhile, two sessions with one name. Correct when: work is never lost, a half-done
cleanup can be repeated, a registration goes last.

**Database migration** (`database.py`). State: the schema, its version table, the rows,
backups. Operation: `migrate`, called by every entry, with `allow_legacy` only by `init
--migrate-runtime`. Hard: inspection without a lock, replacement of a live predecessor,
first calls of several processes. Correct when: nothing is dropped that is not in a
complete backup, a current database is never rebuilt, success means the migrations of this
version, and their structure unless somebody changed it meanwhile.

**Frontend approval** (`gates.py`, `mcp_server.py`). State: `UI_SPEC.md`, whose approval
block holds the digests of its own text and of `PROTOTYPE.html`; the prototype.
Operations: `approval_record` reads, digests and replaces; `evaluate_frontend` reads and
compares. Hard: no lock, two files read one after the other, Git that brings back a file
with the block it had. Correct when: what is allowed was approved as it is, and the
decision recorded last is the one that counts.

**Code Start** (`gates.py`, `github_remote.py`, `checks.py`, `hook_gateway.py`). State:
none; Git's configuration, the remotes, the tree, the research document and the formal
code are asked again by each of three layers - Start, the hook before a write, Finish.
Hard: what they ask changes between two questions and between two layers; three layers
must agree without telling each other anything. Correct when: a formal change never passes
Finish without its basis, and what Start has allowed is not blocked later as long as
nothing has changed.

**MCP server** (`cli/mcp_server.py`). State: the registered cancellation events; per
request a handler, a worker thread, two events the thread sets, a watcher and a progress
reporter. Hard: the handler can be interrupted at each of its waits, the thread can not;
the client disappears. Correct when: no check goes on after its request has ended, and
every cancelled request ends.

**Project setup** (`project.py`, `documents.py`). State: `project.yaml` and the documents
of the project. Operation: `initialize`, called by `init` and `project_init`: each missing
file is written atomically in a fixed order, then the context, then `migrate`. Hard: no
lock; users, other first calls and deaths between any two files. Correct when: nobody's
file is replaced, the answer is the project on disk, a call that returns leaves a complete
project, with the exception of `input/.gitkeep`.

**Hook** (`pre_tool_use.py`, `hook_gateway.py`, `config.py`, `authorization.py`). State:
none of its own; each call resolves the checkout of its place and of each file it writes
from the `worktrees` table and Git, judges command and files, and asks Code Start once for
each checkout. Hard: worktrees come and go during the evaluation; the runtime may be
missing, late or wrong, and the plugin answers for it. Correct when: nothing is let
through against a reason that stood all along, and a denial had a reason.

**Cleanup check** (`cleanup_policy.py`). State: a stack of directories and the listing of
one. Operation: `check_cleanup` before a deletion. Hard: the tree changes while it is
walked. Correct when: no asset that stays is overlooked, and no tree without one refused
unless it could not be inspected.

**The rest**: `command_syntax.py`, `governance_policy.py` and the readers of YAML classify
text; `repository.py`, `doctor.py`, `preflight.py` and `source_evidence.py` report what
they read; the entries parse arguments, call one component and print.

Interaction: entries call `migrate`, then one component. A Finish request calls
`run_finish` in its thread, this calls the checks and `run_owned`, and all of them look at
the request's cancellation event; the recheck of a Finish asks what Start asks. Finish
holds no lock that memory, worktrees or the database use, and these hold none of each
other's, except that a memory operation opens its database transaction under
`memory.lock`. `initialize` ends with `migrate`; the hook reads the rows and the Git state
the worktree operations write, and the facts Code Start asks for.

## Finish

One action per statement of the code that others can see: `RunIdFree`, `CreateLock`,
`FirstSave`, `StepBegins`, `SpawnCommand`, `PersistPid`, ... `End`, `EndSaveFails`,
`Unlock` and so on; every save has its failing twin. `StepReturns` is a check whose
command tree has been reclaimed; `WaitGivesUp` one where `process.wait` gave up after five
seconds (`process_control.py:223`): its `TimeoutExpired` is none of the errors the run
stops for, the check makes a finding of it (`checks.py:216`, `:270`), and the run goes on,
also to `completed`, beside what may still live (`left`). `LateError` is an interrupt or a
disconnect after the operation, `Crash` the death of the process, `Cancel` the event. A
record keeps the fields properties need: status, decision, status per check, which checks
have a pid, owner. `Queries` make the three reads of `query_execution` separately. The
probe takes the lock and lets it go (`Probe`, `LetGo`): shared on POSIX, for itself on
Windows (`files.py:50`), which is `Exclusive`. Then two queries about a lost run can
collide, and one answers `running`.

- `finish_core` (1,097,000 states; two invocations that want one id, two queries with
  exclusive probes, three checks: task_diff, a command, a check that may be skipped): the
  safety properties, and that `FinishRun` implements `FinishPromise`. This says when
  `running` may be told of a lost run: only while another query about it is undecided.
  `CommandsAreOwned` joins the two ends of a command: nothing runs before it is in the
  record of its owner, and as long as its processes may live - beside a run that goes on,
  has answered or died - no record has its check passed or skipped, so that no such run is
  allowed. Two invocations suffice for the collision on an id, two queries for that of
  probes; a third meets the same files.
- `finish_live` (two invocations, one query, two checks, shared probes, weak fairness of
  each thread): `EveryCallEnds`, also of the queries, whose retry happens once at most.
  Fairness is that a thread that can go on does: a check is bounded by its timeouts, and
  the OS gives up a dead holder's lock. No call, cancellation or crash is assumed to
  happen.
- `finish_doc` (violation): `end(error=...)` charges the error to `self.current`; when a
  cancellation is seen between two checks that is one which has passed, and the record
  then says `cancelled` for a check whose result it had. GOVERNANCE_RULES.md says
  completed checks are kept.

An interrupt is modelled inside operations and late in a run, not between any two
bytecodes. The lock is that of POSIX `flock` and Windows `msvcrt.locking`: held by one
open file, dropped at close or death. Left out: on Windows the wait for the directory lock
(`LK_LOCK`) gives up after about ten seconds with an error.

### Proved

For any sets of invocations, queries and run ids and any number of checks: `TypeCorrect`,
`AnswersAreFinal` (`AnswersStand`), `NoLockSurvives` (`EndedHoldsNothing`),
`ResultsAreFinal` (`TerminalIsFinal`), `SecondCallerIsTold` (`DuplicateIsNamed`),
`AllowedRunsWereChecked` (`AllowedMeansChecked`), `AnswersArePersisted`
(`ReturnedIsPersisted`), `CommandsHaveOwners` (`CommandsAreOwned`) and `PromiseKept`
(refinement). The assumption is `ConstantsAssumption`.

None of these is inductive. The first invariant is `IInv == TypeOK /\ Ownership /\
Answers`. `Ownership` says that whoever works on a record holds its lock and nobody else
does, that its memory and the disk agree on whether the run is over, and that a lock file
once made stays. `Answers` ties what a query has read to what can still happen. The point
of the argument is that the owner gives its lock back only after its last save: a query
that sees `running`, finds the lock free and reads `running` again has met a run nobody
will finish.

The second, `AInv`, adds for each invocation `Accounted(i)`: `Records` (a command that
passed has its process in memory), `Checked` (as long as nothing has blocked, every check
before the current one is done), `Children` (at which places a command may live) and
`OnDisk` (what of this has been saved). Since nobody else writes the record of an owner
(`OthersUntouched`), each step has to be looked at for its own invocation only;
`FilesJustified` then says of every record that lies on disk, its owner dead or not, that
an "allowed" in it rests on all checks.

`CommandPromise` is the contract between a check and the command it runs: a process is on
record before it runs, only a caller that dies, or says of the check that it failed,
leaves it behind, and one that said so starts no other. `CommandPromiseKept` shows that
each invocation of `FinishRun` keeps it, `CallPromiseKept` that the owner in
`OwnedCommand` does, at the level of pipes, bootstrap and job. So the assumption
`FinishRun` makes of `run_owned` is stated once and met where the calls are modelled in
detail. What is not shown is that `FinishRun`'s `SpawnCommand`, `PersistPid` and
`StepReturns` allow all that the contract allows.

What `EveryCallEnds` rests on is proved. `InvocationsWindDown`: each step of an invocation
uses up one of at most 6 N + 10, and no step of anybody adds one. `QueriesWindDown`: the
same for a query, since a result it asks for again is final. `DirectoryHolderWorks`: the
one lock that is waited for is held by an invocation that is claiming its id and waits for
nothing. What is left to TLC is that a thread which can go on does, and that one of its
steps is always enabled.

## Memory store

`Lock` and `Finish` delimit the critical section, whose steps are `WriteCandidate`,
`ReadCandidate`, `Check`, `Write`, `Parse`, `Commit`, `Remove`. `Reject` and `Unlink` are
two steps without the lock, `Query` reads after releasing it, `ORDER BY line_number
LIMIT`: the first `Limit` rows (`Top`). A record is a member of `Drafts` with an id, a
title and a status; the file is the set of its valid lines, for each those above it
(`above`), and whether one is broken; an edit by hand (`Edit`) breaks or mends a line and
does nothing else.

- `memory` (419,000 states; two callers; four drafts: two share an id, three a title, one
  is superseded, and a fourth has a title of its own, so that two active records can stand
  one above the other; `Limit` = 1, so that an answer can be full): all collisions a
  duplicate check tells apart occur. `Narrow` keeps the fourth out of candidates and lets
  one caller search at a time. `SearchIsCurrent`: what a full answer leaves out stands
  below all that it has. `CandidatesSurvive`: what is removed was rejected or is a fact,
  and is indexed unless the accept has met a broken line. `StoreKeepsPromise` is the
  refinement of `MemoryPromise`, in which an operation is one step on sets of records. Its
  refinement mapping says when: a record counts as soon as the file is replaced, an
  `accept` knows its record once it has read the candidate, and a call that fails may have
  had its effect - the writer that dies before the index is rebuilt has.
- `memory_doc` (violation): `reject` unlinks while an `accept` holds what it has read;
  both succeed and the rejected record is a fact.

### Proved

For any callers and drafts: `MemoryTypes`, `OneRecordPerTitle` (`NoDuplicates`),
`SearchesAreCurrent` (`SearchIsCurrent`), `CandidatesAreKept` (`CandidatesSurvive`),
`RecordsAreKept` (`NothingLost`: no record disappears, and one that was recorded or merged
by a call that returned is in the file), `StorePromiseKept` (`StoreKeepsPromise`) and
`LockHolderWorks` (nobody waits for the lock in vain), from `ConstantsAssumption` (drafts
of one id share a title). The invariant ties each place of the critical section to the
lock: whoever has read the file holds it, and what it has read is what the file holds
until it is replaced (`Relies`). `Leaves` is what a step of one caller may do to what
another relies on; a rejection, which takes no lock, takes away candidates only, and an
edit by hand changes no valid line. The refinement is shown per operation; `OneCallMoves`
and `UnseenStutters` keep the others' part of the mapping out of it.

## Worktree

One action per Git command or transaction. Git is external and modelled by what its
commands refuse without `--force` and `-D`. The main checkout is on the target branch or
on another one, and either may contain what the other lacks (`target`, `other`,
`onTarget`). `Work`, `Merge`, `Join`, `Commit` and `Switch` are what subagent and main
session do beside the code. `Stops` is a failing command or a death.

- `hook` (two sessions, one slug, two commits; the run of the next section, which composes
  this module): `WorkSurvives`: no dirty copy is removed, and a commit stays on its branch
  unless the target or the branch of HEAD contains it. The tip is compared with the target
  before other steps; `branch -d` compares again, with HEAD, and that is what keeps work
  that came later. It is also why the property names both. A slug fixes path and branch,
  so two slugs do not meet.
- `worktree_retry` (18,036 states; one session, two commits, fairness): cleanup of what is
  registered can be repeated until the row goes, wherever an earlier call has stopped, if
  the copy is not dirty and both the target and HEAD contain its work from some time on.
  Both are asked for: a branch made on another HEAD is refused as long as that is not on
  the target. The fairness is the caller's: it repeats the call, and no command fails for
  ever (strong fairness of the steps of cleanup).
- `worktree_doc` (violation): cleanup's `DELETE ... WHERE name = ?` can hit a worktree
  that was prepared under the same name meanwhile.

Directories removed by hand, symbolic links and branches with an upstream are left out.

### Proved

`WorkIsKept` (`WorkSurvives`) and `WorktreeTypes`, for any sessions, slugs and commits,
from `ConstantsAssumption`. For these the argument needs the types and no more: of all
steps only `worktree remove` takes a working copy, and not a dirty one, and only `branch
-d` a branch, and not before HEAD, which is the target or the other branch, contains it -
whatever the caller has compared long before.

`RefusalsHaveReasons` says why a cleanup may stop: a copy is dirty, the target or HEAD
lacks a commit of the branch at that moment, or another session has made or removed the
working copy meanwhile. The tip is read before it is compared; `RefusalInv` keeps that it
is still on the branch or else on the target by then, so that merged work is never taken
for unmerged. `LoneCleanupRefusesWork` is the case of one session, whatever an earlier
call has left half done: what `CleanupSucceeds` rests on. With two sessions it does not
hold: one may remove the copy the other is about to inspect.

## Hook

`HookGate` follows one call: the plugin (`Ask`, `SelectRuntime`, `StandIn`, `Deliver`)
around the runtime (`Locate`, `ReadRows`, `ListCheckouts` for the place of the call and
for each target, then `JudgeCommand`, `CheckTarget`, `AskBoundary`). Calls share nothing,
so one is enough. `StandIn` covers everything that keeps the runtime's answer away,
`EvaluationFails` every exception. Beside it the sessions of `Worktree` move and the facts
of Code Start change. An operation is told apart by its place, by what it discards and
where (nothing, work with git, volumes with docker or podman), and by the files it writes
with what they are there; recognizing that in a command line is lexing, and left out.

The properties are about the reasons against an operation, which are defined from the
state of rows, Git and facts and not from the course of the evaluation. `against` are the
reasons that have stood since the call began, `ever` those that stood at some time.

- `LetThroughIsPermitted`: nothing passes against a reason that stood all along; what
  writes a file or discards work is never let through by the plugin alone. Volumes are
  excepted, since the plugin's pattern has none of docker's words (see the disagreements
  below).
- `DeniedHasReason`: a denial with a finding had a reason at some time.

A reason that comes up or goes during the call may go either way; no check can do better
without a lock.

`CleanupCheck` looks for the checkout of the target (`LocateCheckout`), decides whether it
is a temporary container (`JudgeContainer`), asks the index (`LsFiles`) and walks the tree
with the stack and the listings of the code, while others create, delete and replace
(`Move`) and the index changes (`Index`). Entries are files, directories, and links or Git
references that lead inside or outside; `.git` and `.codex-os/project.yaml` of the target
are among them, so that it may become a checkout or a project while it is checked. Each
inspection may fail, which refuses (`Fails`). `Assets` is what makes the tree more than a
leaf that may go; `stood` are those that were there all along.

- `CheckedIsRight`: a tree that passes has no asset that stood all along, whatever moved
  or failed; and a tree that is refused has one, unless something moved or could not be
  inspected. The index of the checkout above is not read when the target is itself a
  checkout or a project, and what it tracks is no asset then. A link that is made in a
  directory already listed is not seen, and the property does not ask for that.

The run `hook` (309,508 states) restricts what happens at once, in `MCHook`. Another
branch than the target gets commits only while one session at most is under way. While a
call is under way at most one session is, and nothing is committed or changed in the
worktree (`Quiet`): the hook does not look at commits, and a second session adds no
combination of row, copy and branch that the first does not pass through. Facts change
during calls only, where they are looked at, and after the first call there are only calls
(`Bounded`). The deletion check reads neither rows nor facts, so it moves while nothing
else does (`Nothing`). Its tree has two levels below the target: `.git`, a directory and a
`project.yaml` in that, so that the walk has to come to a second level, by a directory
that may be replaced under it. Of the seven operations some have two targets in different
checkouts, so that the answer of one boundary could be used for the other, and one
discards volumes.

### Proved

`HookTypes` (`GateTypeOK`), for the three modules together. From `HookAssumption`:
`HookOnlyReads` (a hook call changes nothing of the worktrees, so `WorkIsKept` holds
beside it), `WhatPassesIsPermitted` (`LetThroughIsPermitted`) and `DenialsHaveReasons`
(`DeniedHasReason`), for any places, operations and numbers of targets. `against` only
loses elements; so what a step has refuted stays refuted, whatever moves. `GateInv` says
for each place of the evaluation which reasons are refuted for which targets
(`Established`, with `Opened` for the boundaries kept), and `PermittedIsClear` that at the
end it is all of them.

From `CleanupAssumption` (from any path one comes to the target by going to parents):
`ChecksAreRight` (`CheckedIsRight`), for every tree and any depth. `WalkInv`: an asset
that has stood all along and not been met lies below a directory that is to be opened, or
its entry or the entry of a directory above it is listed. `WalkInv` also says what the two
looks at `.git` and `project.yaml` have established: a target that was a checkout or a
project all along is neither walked as a container (`Ruled`) nor compared with an index
that is not its own (`Placed`). That opening a directory keeps this needs an entry on the
way down to the asset (`ChildOnTheWay`); "above" is defined by sets closed under parents,
which makes that a lemma without induction.

## Migration

`schema` abstracts the committed structure and checksums into six values; "damaged" has
the migrations of this version and another structure, made by hand at any time (`Damage`).
`Recorded` is what `schema_migrations` says of it, which is all that `ReadVersions` and
`ReadApplied` look at. `ReadTables`, `ReadVersions` and `CompareStructure` are the three
reads of `_is_legacy`; everything between `Guard` and `Replace` is under `BEGIN
IMMEDIATE`. `Bootstrap`, `ReadApplied`, `Begin` and `Apply` are the numbered migration.
`Fails` stands for errors, timeouts and death: in each case SQLite rolls back. `Write` and
`OldInit` are other sessions, one of which may be the predecessor version.

- `setup` (two processes, two rows of which one registers an uncleaned worktree; the run
  of the next section, which composes this module): nothing is dropped without a backup,
  whoever writes. `MigratedIsCurrent`: the structure is compared once, without a lock, so
  a call may return over one that was changed after it began (`overtaken`), and over no
  other. The interesting race has one process replace what another has inspected; a third
  adds nothing, the write lock admits one.
- `migration_doc` (violation): `schema_migrations` is committed before the migration
  (seven states). If the process stops there, every later `migrate` refuses the database
  as unknown.

### Proved

`MigratedOverCurrent`, `NoRowDropped`, `NoUncleanDropped`, `NoRebuild`, for all sets of
processes and rows, from `NoOne \notin Processes`. The invariant adds `Established(p)`:
what a call has found out at each place of the replacement, and that it holds the write
lock there. `StepLeavesOthers` shows that no step of one call disturbs what another has
established, `StepEstablishes` that a call establishes what it relies on next.

## Project setup

`ProjectSetup` is `initialize` over `Migration`: `Initialize`, `Open` (is there a
`project.yaml`?), `Load`, then for each file `Check`, `Test`, `MakeInput` and `WriteFile`,
`Summarize` (the derived context), the migration, `Migrated` and `Report`. `Edit` is a
user who creates, changes or deletes a file, `SetupFails` a failing step or a death,
`OtherEntry` an entry that migrates without `initialize`. A file holds the text of the
call that wrote it or a user's. One, `Keep`, is `input/.gitkeep`, which is for a new
`input/` only; the directory is made before the file (`MakeInput`), and users make and
remove it too (`EditInput`). The directories of other files are left out.

- `setup` (1,043,261 states; two processes, `project.yaml`, a document and
  `input/.gitkeep`, any initial files and database): `NothingOverwritten` speaks of files
  that were there when the call began: whether a file exists is asked before it is
  written, so one that appears in between is replaced. `AnswerIsOnDisk` speaks of calls
  beside which nobody else touched `project.yaml`: two first calls do replace each
  other's. `SetupIsComplete` leaves out what others have touched meanwhile, and of
  `input/.gitkeep` asks for the file or the directory: a call that dies between `mkdir`
  (`documents.py:72`) and `os.replace` (`:88`) leaves it out for ever, since `:106` asks
  for `input/`, as API_SPEC.md:26 says. The order of more files is the proof's. `MCSetup`
  restricts the database while a call of `initialize` is under way (`Plain`: no rows, no
  foreign schema, no explicit replacement, which `initialize` never asks for; a damaged
  one beside one call only) and users to deletions then (`Patient`; files that appear are
  the other call's). Two calls at once have `project.yaml` and `input/.gitkeep` to write,
  one alone the document too (`Narrow`, `Alone`); migrations without `initialize` see
  every database beside one set of files (`Bare`).

### Proved

`NothingIsOverwritten`, `AnswersOnDisk`, `SetupsAreComplete`, for any processes and any
list of files, from `SetupAssumption`, and `SetupMigrates`: a behaviour of `ProjectSetup`
is one of `Migration`, so that all theorems above hold beside `initialize`. The invariant
`SInv` says what each place of a call relies on: the files it has been through are there
unless others took them, and what it returns is what is on disk.

## Finish requests and owned commands

`OwnedCommand` is one call of `run_owned` beside its bootstrap, command and one background
descendant, on both platforms; calls share nothing, so one is enough. The pipe that
withholds the payload is the point: `OwnedWhenStarted` says that nothing runs before it is
contained and recorded, which is what `FinishRun` assumes of `SpawnCommand` and
`PersistPid`. `NoOrphans` holds on Windows only; on POSIX nothing kills the tree of a dead
owner. Left out: output, descendants that leave the process group, pids used again.

`McpCheck` is what calls it: the handler of one Finish request (`Request`, `Greet`,
`Returned`, `Interrupted`, `Drained`, `Finally`, `Settled`), the worker thread (`PickUp`,
`WorkerStarts`, `StepBegins`, `CommandReturns`, `WorkerEnds`), watcher, reporter, loss of
stdin and death. The handler's `cancel` event is `OwnedCommand`'s `cancelled`. A future
that is cancelled is dropped by the thread as it looks at it, not later; so a thread may
start after its handler has left, and must find the event set.

- `owned` (three steps, the second of which is the command; both platforms).
  `NothingRunsOn`: after the answer no step begins and no tree lives. `OutcomeIsTrue`:
  success is the command's own, and only a call that says it failed leaves something
  behind. `CancelledCallEnds` (a call of `run_owned` after its cancellation or deadline,
  and the request its client has cancelled) and `NoOrphans` are liveness. One step before
  and one after the command suffice, since the event is looked at between steps. Fairness:
  the event loop, the thread and the watcher are scheduled, a slot of the thread pool is
  free, waits are bounded (`time.sleep`, five seconds to confirm), and what has been
  killed dies. No interrupt, deadline or end of the command is assumed.

Left out: other tools, daemon threads when the process ends. A request that is cancelled
before the check has begun may still leave a record of a run, cancelled at once.

### Proved

`CommandsStartOwned` (`OwnedWhenStarted`), `OutcomesAreTrue` (`OutcomeIsTrue`),
`ServerTypesHold` (`McpTypeOK`) and `NothingRunsAfterwards` (`NothingRunsOn`), on both
platforms and for any number of steps, from `PlatformsAssumption` and `StepsAssumption`.
`OwnedInv` is about one call: a payload is sent only to a tree that is contained and
recorded, and what is returned rests on what has been confirmed. `McpInv` adds where
thread and handler stand: a command runs only while the thread waits for it (`Worker`),
and a handler that leaves while the thread lives has set the event (`Leaving`).
`CallPromiseKept` is the refinement of `CommandPromise` (see Finish).

What the two liveness properties rest on is proved. `CallsWindDown`: once cancelled or out
of time, the owner of a command has at most eleven steps to come, and nobody adds one.
`RequestsWindDown`: the same for handler, thread and owner together, at most 22, for any
number of checks, because no check begins again. `WaitedForIsAtWork`: a handler that
waits, waits for a worker that is at work or has answered, and if it is leaving the worker
will find the event set. `OrphansAreDoomed` and `OrphansDwindle`, for Windows: what a dead
owner leaves has been sent its death or is a bootstrap without a command, and nothing is
started by it.

## Gates

`FrontendApproval` keeps for `UI_SPEC.md` its text without approval blocks - that is what
is digested - and the sequence of its blocks. `ReadText`, `CheckFiles`, `DigestPrototype`
and `Replace` are the reads and the write of one approval; `Look`, `ReadSpec` and
`Compare` those of the gate. Between any two of them people edit, Git restores a version
with the block it had (`RestoreSpec`) or joins two (`MergeSpec`). Nobody writes a block by
hand.

- `ApprovedWasReviewed`: an allowed frontend was approved as one scope, text and
  prototype, although each side reads its files one after the other.
- `LatestDecisionCounts`: of two approvals the later write decides. Two things it has to
  leave out, both by the shape of the code: of two blocks only the first is replaced, so
  the gate refuses until one is removed; and an edit of the text between read and write is
  lost, which is why the text that was written is what the property compares with.

`CodeStart` keeps the facts (configuration, answering remotes, dirt, research) and one
formal path as HEAD, index and working tree have it. One gate call at a time is enough
because nothing is stored: two calls do not meet. `Select`, `Probe`, `Sweep`, `Read`,
`Diff`, `Check`, `Recheck` and `Decide` are the questions in the order of the code; the
facts and the path move between any two.

- `FormalChangeIsProved`: Finish allows a change only on the basis Start asks for. It
  speaks of a change that stays where it is while the four diffs are asked. They go from
  the oldest to the newest place, so one that is staged or committed between two of them
  can be missed.
- `StartIsKept`: the layers agree. The hook is excepted when Start was given a remote by
  name: it cannot know of it.

Left out: ignored files, a base that is the empty tree, several URLs per remote, shell
commands as a way to write, how names and contents are scanned.

- `gates` runs both. They share no file and no call, so `MCGates` lets one move only while
  the other is in an initial state; the states are the sum and not the product. Two
  approvals and one gate (a second gate reads the same files), two texts and prototypes, a
  scope that can be approved and one that cannot; `MaxReviews` = 1 recorded approval,
  beside any number of rejections, is what another approval then replaces, restores or
  doubles. Two configurations (none preferred; a fork to push to with another upstream),
  one remote that comes and goes, research for this requirement and for another, requests
  with the three outcomes of their class.

### Proved

`GateTypes` (`GatesTypeOK`). For any approvals, scopes, texts and prototypes:
`AllowedWasReviewed` (`ApprovedWasReviewed`) and `LastDecides` (`LatestDecisionCounts`),
from `FrontendAssumption` and `MissingIsNoSpec`. `FrontendInv` says that whatever block
lies in the file or is on its way in a call has been recorded, and that the last decision
is the only block as long as nobody touches the files.

For any remotes, configurations, documents and requests: `FormalChangesAreProved`
(`FormalChangeIsProved`) and `StartsAreKept` (`StartIsKept`), from `StartAssumption`.
`StartInv` says what a call that has found nothing so far has established at each place,
and `Kept` that what Start has allowed holds as long as no fact has moved.

## Proved, checked, left out

Every safety property of the passing runs is proved, types and both refinements included.
Only model-checked are the four liveness properties, since fairness and ENABLED are beyond
the prover: `EveryCallEnds`, `CleanupSucceeds`, `NoOrphans`, `CancelledCallEnds`. What is
proved of them are safety statements they rest on. `EveryCallEnds` and
`CancelledCallEnds`: the steps to come are bounded and whoever is waited for is at work.
`NoOrphans`: what a dead owner leaves is doomed and only becomes less. `CleanupSucceeds`:
cleanup refuses nothing but work that is not saved. That a step is enabled wherever one is
still to come, and that fairness then leads to the end, is TLC's part, on the instances of
the runs. No theorem needs an induction over data. The refinements are stated for the
specifications; `CommandsKeepPromise` of `FinishRun` is quantified over the invocations,
which TLC does not accept as a property, and has no run.

The theorems speak of the specifications themselves; the restrictions of `MCSetup`,
`MCHook` and `MCGates` bind TLC only. Bounds are the sets given in the `.cfg` files, the
number of checks or steps, and `MaxReviews`; no other counter grows.

Where the code and a document of the repository differ, and no run shows it because a
property was stated as the code has it:

- a lost run may be told `running` on Windows, when two queries collide (`FinishPromise`;
  API_SPEC.md:42 and the skill finish-checklist say `interrupted`);
- a run can complete, though never allowed, beside a process tree whose end was not
  confirmed (`CommandsAreOwned`; API_SPEC.md:40 says it is);
- an accept that meets a line broken by hand between its check and the rebuild removes the
  candidate although the index was not refreshed (`CandidatesSurvive`; MEMORY.md:20 and
  the docstring at `memory.py:240` say that it is kept);
- `branch -d` asks HEAD and not the target, so a branch may go that only HEAD's contains
  (`WorkSurvives`; the docstring at `worktree.py:186` says the target does);
- a prepare that dies between `git worktree add` (`worktree.py:81`) and its INSERT leaves
  a directory and branch that no command of the product takes away: cleanup answers
  `WORKTREE_UNKNOWN` and prepare `WORKTREE_EXISTS` (`CleanupSucceeds` speaks of what is
  registered; WORKTREE.md:20 keeps no orphan);
- without a runtime the plugin gives a notice, and no denial, for what discards docker
  volumes (`LetThroughIsPermitted`; GOVERNANCE_RULES.md:42 and :48 deny it);
- a `git ls-files` that is late raises `subprocess.TimeoutExpired`, which `check_cleanup`
  does not catch: the denial is that of an error and not `CLEANUP_INSPECTION_TIMEOUT`
  (phase "failed" of `CleanupCheck`; GOVERNANCE_RULES.md:53).

Not modelled: what only reads and reports (`repository.py`, `doctor.py`, `preflight.py`,
`source_evidence.py`), since it changes no state and nothing is decided over several
steps; the recognition of commands (`command_syntax.py`), patterns and YAML, which is
text; packaging. See `components` in `PROJECT.json`.

## Plan

Done: all modules of the table, the proofs of their safety properties, and the safety
statements the liveness properties rest on.

What could follow:

1. Composition of the request of `McpCheck` with the record of `FinishRun`, so that a
   cancelled request and what a later query says of its run are one statement.
   `CommandPromise` joins the two at the command; the cancellation event is the other
   seam.
2. An abstract specification of the worktrees (a name is free, prepared or ready; work is
   never lost), implemented by `Worktree` under the failures of Git.
3. An abstract specification of `migrate`, a database that is one version or another,
   implemented by `Migration`.
4. Version ranges and the patterns of protected paths as operators against reference
   definitions.
5. What the remaining checks observe (`core/checks.py` 92-358), where more than one
   finding depends on the same reading.
