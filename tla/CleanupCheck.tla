----------------------------- MODULE CleanupCheck -----------------------------
(***************************************************************************)
(* application/cleanup_policy.py: check_cleanup, which the hook asks before *)
(* something below build, dist, .codex-os/tmp or the temporary directory is *)
(* deleted.  It reads git's index and walks the tree with a stack of        *)
(* pending directories, within five seconds, while other processes create,  *)
(* delete and replace what it walks over.  Paths that are refused as they   *)
(* are written (several targets, expansions, broad roots) are left out.     *)
(*                                                                          *)
(* The tree is the paths below the target, by their parents.  A reference   *)
(* of git (gitdir, commondir, alternates, core.worktree) and a link both    *)
(* lead somewhere: what lies there may be "inside" the target or "outside". *)
(* A target is below the temporary directory and no project, or below one   *)
(* that git knows; its own project.yaml is not reached through a link.      *)
(***************************************************************************)
EXTENDS Naturals, Sequences, FiniteSets

CONSTANTS
    Root,          \* the target
    Paths,         \* what may lie below it
    Parent,        \* the path each lies in
    Protected,     \* paths with a protected name: input, output, credentials, .env ...
    DotGit,        \* .git in the target itself
    ProjectYaml    \* .codex-os/project.yaml in the target itself

ASSUME CleanupAssumption ==
    /\ Root \notin Paths
    /\ Parent \in [Paths -> Paths \cup {Root}]
    /\ Protected \subseteq Paths
    /\ {DotGit, ProjectYaml} \subseteq Protected /\ Parent[DotGit] = Root
    \* Whoever goes from parent to parent comes to the target.
    /\ \A up \in SUBSET (Paths \cup {Root}) :
         up # {} /\ (\A p \in up \cap Paths : Parent[p] \in up) => Root \in up

Entries == {"none", "file", "dir", "inside", "outside"}

VARIABLES
    entry,     \* what is at each path
    tracked,   \* the paths in the index of the repository
    phase,     \* where the check stands
    temporary, \* the target is below the temporary directory and no project
    own,       \* the nearest checkout is the target itself
    container, \* the rules for temporary containers apply
    pending,   \* the directories to be opened
    listed,    \* the entries left of the one that is open, as they were listed
    stood,     \* the assets that have been there since the beginning (observed)
    moved,     \* something has changed since (observed)
    broken     \* something could not be inspected (observed)

files == <<entry, tracked>>
walk == <<phase, temporary, own, container, pending, listed>>
observed == <<stood, moved, broken>>
cleanupVars == <<files, walk, observed>>

Ended == {"checked", "unsafe", "timeout", "failed"}

At(p) == IF p = Root THEN "dir" ELSE entry[p]
Children(p) == {c \in Paths : Parent[c] = p /\ entry[c] # "none"}
\* Nothing lies in what is not a directory.
WellFormed(e) == \A p \in Paths : e[p] # "none" /\ Parent[p] # Root => e[Parent[p]] = "dir"

CleanupTypeOK ==
    /\ entry \in [Paths -> Entries] /\ WellFormed(entry)
    /\ tracked \subseteq Paths
    /\ phase \in {"idle", "locating", "located", "tracked", "walking"} \cup Ended
    /\ temporary \in BOOLEAN /\ own \in BOOLEAN /\ container \in BOOLEAN
    /\ pending \in Seq(Paths \cup {Root})
    /\ listed \subseteq Paths \X Entries
    /\ stood \subseteq {"outside", "link", "named", "tracked", "checkout"} \X Paths
    /\ moved \in BOOLEAN /\ broken \in BOOLEAN

(***************************************************************************)
(* What makes the target more than a task's own leaf.  A container, below   *)
(* the temporary directory and no project itself, may hold repositories,    *)
(* protected names and links of its own, but nothing that leads out of it.  *)
(* Nothing else may hold links or protected names, and what git tracks only *)
(* if it is not a checkout or a project itself.  For the index of the       *)
(* checkout above is not read then: .git and project.yaml are themselves    *)
(* what it is refused for.                                                  *)
(***************************************************************************)
IsCheckout == entry[DotGit] # "none"
IsProject == entry[ProjectYaml] \notin {"none", "dir"}
IsContainer == temporary /\ ~IsCheckout /\ entry[ProjectYaml] = "none"
ReadsIndex == ~temporary /\ ~IsCheckout /\ ~IsProject

Assets ==
    {<<"outside", p>> : p \in {q \in Paths : entry[q] = "outside"}}
    \cup {<<"link", p>> : p \in {q \in Paths : ~IsContainer /\ entry[q] \in {"inside", "outside"}}}
    \cup {<<"named", p>> : p \in {q \in Protected : ~IsContainer /\ entry[q] # "none"}}
    \cup {<<"tracked", p>> : p \in {q \in tracked : ReadsIndex}}
    \cup {<<"checkout", p>> : p \in {q \in {DotGit} : IsCheckout}}

CleanupInit ==
    /\ entry = [p \in Paths |-> "none"]
    /\ tracked = {}
    /\ phase = "idle"
    /\ temporary = FALSE /\ own = FALSE /\ container = FALSE
    /\ pending = <<>>
    /\ listed = {}
    /\ stood = {}
    /\ moved = FALSE /\ broken = FALSE

\* Whatever the tree is when the call begins.
Call ==
    /\ phase = "idle"
    /\ entry' \in {e \in [Paths -> Entries] : WellFormed(e)}
    /\ tracked' \in SUBSET (Paths \ {DotGit})
    /\ temporary' \in BOOLEAN
    /\ phase' = "locating"
    /\ stood' = Assets'
    /\ UNCHANGED <<own, container, pending, listed, moved, broken>>

Goes(to) ==
    /\ phase' = to
    /\ UNCHANGED <<files, temporary, stood, moved>>

\* The call is over; what it found is forgotten.
Ends(how) ==
    /\ Goes(how)
    /\ own' = FALSE /\ container' = FALSE
    /\ pending' = <<>> /\ listed' = {}

End(how) == Ends(how) /\ UNCHANGED broken

\* An error of the file system or of git, or a reference that cannot be read.
Fails(how) == Ends(how) /\ broken' = TRUE

\* locate_checkout: the nearest .git or project.yaml; without one the target itself.
LocateCheckout ==
    /\ phase = "locating"
    /\ \/ /\ Goes("located")
          /\ own' = (temporary \/ IsCheckout \/ IsProject)
          /\ UNCHANGED <<container, pending, listed, broken>>
       \/ Fails("unsafe")

\* Both are looked for again.
JudgeContainer ==
    /\ phase = "located"
    /\ \/ /\ Goes("tracked")
          /\ container' = IsContainer
          /\ UNCHANGED <<own, pending, listed, broken>>
       \/ Fails("unsafe")

Walks ==
    /\ Goes("walking")
    /\ pending' = <<Root>>
    /\ UNCHANGED <<own, container, listed, broken>>

\* A checkout of its own is not a container; of another one the index is asked.  A git that
\* fails refuses; one that is late is an error of the call.
LsFiles ==
    /\ phase = "tracked"
    /\ \/ own /\ IsCheckout /\ End("unsafe")
       \/ own /\ ~IsCheckout /\ Walks
       \/ ~own /\ tracked # {} /\ End("unsafe")
       \/ ~own /\ tracked = {} /\ Walks
       \/ Fails("unsafe")
       \/ ~own /\ Fails("failed")

\* Mutant: only the first level is walked.
OpenFirst ==
    /\ phase = "walking" /\ listed = {} /\ pending # <<>>
    /\ pending' = <<>>
    /\ listed' = IF pending[1] = Root THEN {<<c, entry[c]>> : c \in Children(Root)} ELSE {}
    /\ Goes("walking")
    /\ UNCHANGED <<own, container, broken>>

\* scandir lists the directory that was pushed last.  It may be gone by now, or a link:
\* then nothing is said about what is listed, but nothing of it lies here.
Open ==
    /\ phase = "walking" /\ listed = {} /\ pending # <<>>
    /\ LET directory == pending[Len(pending)] IN
       \/ /\ At(directory) \notin {"none", "file"}
          /\ pending' = SubSeq(pending, 1, Len(pending) - 1)
          /\ listed' = IF At(directory) = "dir" THEN {<<c, entry[c]>> : c \in Children(directory)} ELSE {}
          /\ Goes("walking")
          /\ UNCHANGED <<own, container, broken>>
       \/ Fails("unsafe")

\* One entry.  Whether it is a link or a directory is what was listed, where a link or a
\* reference leads is read now.
Unsafe(p, kind) ==
    \/ container /\ kind \in {"inside", "outside"} /\ entry[p] = "outside"
    \/ ~container /\ (kind \in {"inside", "outside"} \/ p \in Protected)

\* What is gone by now, or cannot be read, is an error unless the listing told enough.
Examine(e) ==
    /\ phase = "walking" /\ e \in listed
    /\ \/ Unsafe(e[1], e[2]) /\ End("unsafe")
       \/ /\ ~Unsafe(e[1], e[2])
          /\ listed' = listed \ {e}
          /\ pending' = IF e[2] = "dir" THEN Append(pending, e[1]) ELSE pending
          /\ Goes("walking")
          /\ UNCHANGED <<own, container, broken>>
       \/ Fails("unsafe")

Checked ==
    /\ phase = "walking" /\ listed = {} /\ pending = <<>>
    /\ End("checked")

\* The budget of five seconds is over, before an entry, a command of git or the answer.
TimesOut ==
    /\ phase \in {"tracked", "walking"}
    /\ End("timeout")

\* Another process creates, deletes or replaces one entry, with all that lies in it.
Move ==
    /\ phase \in {"locating", "located", "tracked", "walking"}
    /\ \E p \in Paths, kind \in Entries :
         /\ entry[p] # kind
         /\ entry' = [q \in Paths |-> IF q = p THEN kind ELSE IF Parent[q] = p THEN "none" ELSE entry[q]]
         /\ WellFormed(entry')
    /\ UNCHANGED <<tracked, walk, broken>>
    /\ stood' = stood \cap Assets'
    /\ moved' = TRUE

\* git add, or git rm --cached; git tracks no .git.
Index ==
    /\ phase \in {"locating", "located", "tracked", "walking"}
    /\ \E p \in Paths \ {DotGit} : tracked' = IF p \in tracked THEN tracked \ {p} ELSE tracked \cup {p}
    /\ UNCHANGED <<entry, walk, broken>>
    /\ stood' = stood \cap Assets'
    /\ moved' = TRUE

Leave ==
    /\ phase \in Ended
    /\ entry' = [p \in Paths |-> "none"] /\ tracked' = {}
    /\ phase' = "idle" /\ temporary' = FALSE
    /\ stood' = {} /\ moved' = FALSE /\ broken' = FALSE
    /\ UNCHANGED <<own, container, pending, listed>>

CleanupNext ==
    \/ Call \/ LocateCheckout \/ JudgeContainer \/ LsFiles \/ Open
    \/ (\E e \in listed : Examine(e)) \/ Checked \/ TimesOut \/ Move \/ Index \/ Leave

CleanupSpec == CleanupInit /\ [][CleanupNext]_cleanupVars

(***************************************************************************)
(* Properties.                                                              *)
(***************************************************************************)

\* "File cleanup checks the actual targets" (GOVERNANCE_RULES.md): the check passes no tree
\* with an asset that was there from its beginning to its end, whatever else moves
\* meanwhile, is a project for a time or cannot be read; and it refuses no tree without
\* assets unless something moves or could not be inspected, which refuses what is harmless
\* too (GOVERNANCE_RULES.md:53, test_cleanup_closure.py:77).
StaysAreSeen == phase = "checked" => stood = {}
RefusedForCause == phase = "unsafe" /\ ~moved /\ ~broken => stood # {}
CheckedIsRight == StaysAreSeen /\ RefusedForCause
=============================================================================
