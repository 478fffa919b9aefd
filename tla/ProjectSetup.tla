----------------------------- MODULE ProjectSetup -----------------------------
(***************************************************************************)
(* application/project.py: ProjectInitializer.initialize, with the atomic   *)
(* writes of infrastructure/documents.py, over the migration of the         *)
(* database.  codex-os init and the MCP tool project_init call it, several  *)
(* processes may do so for one directory at once, no lock covers it, and a  *)
(* user creates, edits and deletes the same files meanwhile.  Any step may  *)
(* fail and any process may die between two of them.                        *)
(*                                                                          *)
(* A file holds what one process made of its arguments, or a user's text:   *)
(* the contents are Processes and NoOne, Absent stands for no file.  The    *)
(* name a call was given is the calling process, so two first calls         *)
(* disagree about it.  One file, input/.gitkeep, is for a directory that the *)
(* user may have.  Left out: the hashes of the derived context, links and   *)
(* copy directories in the report, the readiness of the repository, the     *)
(* directories of the other files.                                          *)
(***************************************************************************)
EXTENDS Migration, Naturals, Sequences

CONSTANTS
    Order,     \* the files in the order in which initialize writes them
    Keep,      \* input/.gitkeep among them
    Absent

ASSUME SetupAssumption ==
    /\ Order \in Seq({Order[i] : i \in DOMAIN Order}) /\ Order # <<>>
    /\ Absent \notin Processes /\ Absent # NoOne

Files == {Order[i] : i \in DOMAIN Order}
ProjectYaml == Order[1]

ASSUME KeepAssumption == Keep \in Files \ {ProjectYaml}

VARIABLES
    files,    \* what each file holds
    input,    \* the directory input/ exists
    stage,    \* where each call of initialize stands
    next,     \* the position of the file it is about
    config,   \* the configuration it goes on with
    kept,     \* the files there since it began, while it writes (observed)
    touched   \* the files that somebody else has changed since (observed)

calls == <<stage, next, config>>
setupVars == <<files, input, calls, kept, touched>>
allVars == <<vars, setupVars>>

Contents == Processes \cup {NoOne, Absent}
Writing == {"opening", "loading", "checking", "testing", "making", "writing", "summarizing", "reporting"}

SetupTypeOK ==
    /\ files \in [Files -> Contents]
    /\ input \in BOOLEAN /\ (files[Keep] # Absent => input)
    /\ stage \in [Processes -> {"out", "migrating"} \cup Writing]
    /\ next \in [Processes -> DOMAIN Order]
    /\ config \in [Processes -> Contents]
    /\ kept \in [Processes -> SUBSET Files]
    /\ touched \in [Processes -> SUBSET Files]

SetupInit ==
    /\ Init
    /\ files \in [Files -> {NoOne, Absent}]
    /\ input \in BOOLEAN /\ (files[Keep] # Absent => input)
    /\ stage = [p \in Processes |-> "out"]
    /\ next = [p \in Processes |-> 1]
    /\ config = [p \in Processes |-> Absent]
    /\ kept = [p \in Processes |-> {}]
    /\ touched = [p \in Processes |-> {}]

Stand(p, to) == stage' = [stage EXCEPT ![p] = to]
Watched == <<files, input, kept, touched>>

\* The call returns or raises.
End(p) ==
    /\ Stand(p, "out")
    /\ next' = [next EXCEPT ![p] = 1]
    /\ config' = [config EXCEPT ![p] = Absent]
    /\ kept' = [kept EXCEPT ![p] = {}]
    /\ touched' = [touched EXCEPT ![p] = {}]
    /\ UNCHANGED <<vars, files, input>>

\* Somebody gives a file a content or takes it away; the observers take note.
Change(f, content, who) ==
    /\ files' = [files EXCEPT ![f] = content]
    /\ kept' = [p \in Processes |-> IF content = Absent THEN kept[p] \ {f} ELSE kept[p]]
    /\ touched' = [p \in Processes |->
                   IF stage[p] = "out" \/ who = p THEN touched[p] ELSE touched[p] \cup {f}]

-----------------------------------------------------------------------------
(***************************************************************************)
(* initialize                                                               *)
(***************************************************************************)
Initialize(p) ==
    /\ stage[p] = "out" /\ pc[p] = "idle"
    /\ Stand(p, "opening")
    /\ kept' = [kept EXCEPT ![p] = {f \in Files : files[f] # Absent}]
    /\ touched' = [touched EXCEPT ![p] = {}]
    /\ UNCHANGED <<vars, files, input, next, config>>

\* new_project = not config_path.is_file()
Open(p) ==
    /\ stage[p] = "opening"
    /\ \/ files[ProjectYaml] # Absent /\ Stand(p, "loading") /\ UNCHANGED config
       \/ /\ files[ProjectYaml] = Absent
          /\ Stand(p, "checking")
          /\ config' = [config EXCEPT ![p] = p]
    /\ UNCHANGED <<vars, Watched, next>>

\* On to the next file, then to the context.
Advance(p) ==
    IF next[p] < Len(Order)
    THEN next' = [next EXCEPT ![p] = @ + 1] /\ Stand(p, "checking")
    ELSE Stand(p, "summarizing") /\ UNCHANGED next

\* Mutant: the arguments count for a project that is there already.
LoadArguments(p) ==
    /\ stage[p] = "loading"
    /\ config' = [config EXCEPT ![p] = p]
    /\ Advance(p)
    /\ UNCHANGED <<vars, Watched>>

\* The file of an existing project decides, and is not written again; it may be gone by now.
Load(p) ==
    /\ stage[p] = "loading"
    /\ \/ /\ files[ProjectYaml] # Absent
          /\ config' = [config EXCEPT ![p] = files[ProjectYaml]]
          /\ Advance(p)
          /\ UNCHANGED <<vars, Watched>>
       \/ files[ProjectYaml] = Absent /\ End(p)

\* Mutants: every file is written again; those of a project that is there are not written.
CheckNothing(p) ==
    /\ stage[p] = "checking"
    /\ Stand(p, IF Order[next[p]] = Keep THEN "testing" ELSE "writing")
    /\ UNCHANGED <<vars, Watched, next, config>>
CheckForNew(p) ==
    /\ stage[p] = "checking"
    /\ IF files[Order[next[p]]] # Absent \/ config[p] # p THEN Advance(p)
       ELSE Stand(p, IF Order[next[p]] = Keep THEN "testing" ELSE "writing") /\ UNCHANGED next
    /\ UNCHANGED <<vars, Watched, config>>

\* input/.gitkeep is for a new input/ only.  write_atomic(overwrite=False) leaves a file that
\* exists alone ...
Check(p) ==
    /\ stage[p] = "checking"
    /\ IF Order[next[p]] = Keep
       THEN IF input THEN Advance(p) ELSE Stand(p, "testing") /\ UNCHANGED next
       ELSE IF files[Order[next[p]]] # Absent THEN Advance(p) ELSE Stand(p, "writing") /\ UNCHANGED next
    /\ UNCHANGED <<vars, Watched, config>>

Test(p) ==
    /\ stage[p] = "testing"
    /\ IF files[Keep] # Absent THEN Advance(p) ELSE Stand(p, "making") /\ UNCHANGED next
    /\ UNCHANGED <<vars, Watched, config>>

\* ... makes the directory of one that does not ...
MakeInput(p) ==
    /\ stage[p] = "making"
    /\ input' = TRUE
    /\ Stand(p, "writing")
    /\ UNCHANGED <<vars, files, kept, touched, next, config>>

\* ... and moves the temporary file, written meanwhile, over whatever is there by now.
WriteFile(p) ==
    /\ stage[p] = "writing"
    /\ Order[next[p]] = Keep => input
    /\ Change(Order[next[p]], config[p], p)
    /\ Advance(p)
    /\ UNCHANGED <<vars, input, config>>

\* generate_context replaces a derived cache; then Database.migrate is called.
Summarize(p) ==
    /\ stage[p] = "summarizing"
    /\ Stand(p, "migrating")
    /\ Migrate(p) /\ ~allowLegacy'[p]
    /\ kept' = [kept EXCEPT ![p] = {}]
    /\ UNCHANGED <<files, input, touched, next, config>>

Migrated(p) ==
    /\ stage[p] = "migrating" /\ pc[p] = "idle"
    /\ \/ /\ answer[p] = "migrated"
          /\ Stand(p, "reporting")
          /\ UNCHANGED <<vars, Watched, next, config>>
       \/ answer[p] # "migrated" /\ End(p)

\* documents.check looks for the files, and the call returns what it reports.
Report(p) ==
    /\ stage[p] = "reporting"
    /\ End(p)

\* A file cannot be read or written, the configuration is not valid, or the process dies.
SetupFails(p) ==
    /\ stage[p] \in Writing
    /\ End(p)

-----------------------------------------------------------------------------
(***************************************************************************)
(* Everybody else.                                                          *)
(***************************************************************************)

\* Another entry migrates, or init --migrate-runtime does; each loads the configuration.
OtherEntry(p) ==
    /\ stage[p] = "out" /\ files[ProjectYaml] # Absent
    /\ Migrate(p)
    /\ UNCHANGED setupVars

\* The steps inside Database.migrate, whoever called it.
MigrationStep ==
    /\ \/ \E p \in Processes :
            \/ ReadTables(p) \/ ReadVersions(p) \/ CompareStructure(p)
            \/ Guard(p) \/ Recheck(p) \/ ListWorktrees(p) \/ CountUnclean(p)
            \/ Backup(p) \/ WriteDigest(p) \/ Replace(p)
            \/ Bootstrap(p) \/ ReadApplied(p) \/ Begin(p) \/ Apply(p) \/ Fails(p)
       \/ \E r \in Rows : Write(r)
       \/ OldInit \/ Damage
    /\ UNCHANGED setupVars

\* A user creates or edits a file, or takes it away.
Edit(f) ==
    /\ \/ Change(f, NoOne, NoOne) /\ input' = (input \/ f = Keep)
       \/ Change(f, Absent, NoOne) /\ UNCHANGED input
    /\ UNCHANGED <<vars, calls>>

\* Or makes input/, or takes it away with what is in it.
EditInput ==
    /\ \/ input' = TRUE /\ UNCHANGED <<files, kept, touched>>
       \/ input' = FALSE /\ Change(Keep, Absent, NoOne)
    /\ UNCHANGED <<vars, calls>>

SetupStep(p) ==
    \/ Initialize(p) \/ Open(p) \/ Load(p) \/ Check(p) \/ Test(p) \/ MakeInput(p) \/ WriteFile(p) \/ Summarize(p)
    \/ Migrated(p) \/ Report(p) \/ SetupFails(p) \/ OtherEntry(p)

SetupNext ==
    \/ \E p \in Processes : SetupStep(p)
    \/ MigrationStep
    \/ \E f \in Files : Edit(f)
    \/ EditInput

SetupSpec == SetupInit /\ [][SetupNext]_allVars

-----------------------------------------------------------------------------
(***************************************************************************)
(* Properties.                                                              *)
(***************************************************************************)

\* initialize never replaces a file that was there when it was called and has not been
\* taken away since, whether a user, an earlier call or a call that died left it
\* (write_atomic with overwrite=False).
NothingOverwritten ==
    [][\A p \in Processes : WriteFile(p) => Order[next[p]] \notin kept[p]]_setupVars

\* "Initialize an idempotent local project": a call beside which nobody else touched
\* project.yaml returns the project on disk, the one it found there if there was one, and
\* not the one of its arguments.
AnswerIsOnDisk ==
    \A p \in Processes :
      stage[p] = "reporting" /\ ProjectYaml \notin touched[p] => config[p] = files[ProjectYaml]

\* A call that returns leaves a migrated database and every file of the project, also when
\* earlier ones died anywhere: only what others take away at the same time is missing.  Of
\* input/.gitkeep it leaves the file or the directory: what a death between mkdir (:72) and
\* os.replace (:88) has left out is never written again (documents.py:106, API_SPEC.md:26).
SetupIsComplete ==
    \A p \in Processes : stage[p] = "reporting" =>
      /\ FoundCurrent(p)
      /\ \A f \in Files \ touched[p] : files[f] # Absent \/ (f = Keep /\ input)
=============================================================================
