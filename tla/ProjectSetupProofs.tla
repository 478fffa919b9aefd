-------------------------- MODULE ProjectSetupProofs --------------------------
(***************************************************************************)
(* What ProjectSetup promises holds for every number of processes and every *)
(* list of files.  Its steps are steps of Migration or leave the database   *)
(* alone, so that all theorems about Migration hold of it; what initialize  *)
(* promises about files follows from what each place of a call relies on.   *)
(***************************************************************************)
EXTENDS ProjectSetup, MigrationProofs

\* The stages in which a call has its configuration, and those behind its last file.
Configured == {"checking", "testing", "making", "writing", "summarizing", "migrating", "reporting"}
Written == {"summarizing", "migrating", "reporting"}

\* The files a call has been through.
Done(p) == {Order[i] : i \in {j \in DOMAIN Order : j < next[p] \/ stage[p] \in Written}}

\* A file is there, or of input/.gitkeep the directory.
There(f) == files[f] # Absent \/ (f = Keep /\ input)

\* What a call may rely on at its place, as long as nobody else touches a file.
Relies(p) ==
    /\ \A f \in kept[p] : files[f] # Absent
    /\ stage[p] \in {"making", "writing"} => Order[next[p]] \notin kept[p]
    /\ stage[p] \in {"testing", "making"} => Order[next[p]] = Keep
    /\ stage[p] \in {"out", "opening", "loading"} => next[p] = 1
    /\ stage[p] = "loading" /\ ProjectYaml \notin touched[p] => files[ProjectYaml] # Absent
    /\ stage[p] \in Configured => config[p] # Absent
    /\ stage[p] \in Configured /\ ProjectYaml \notin touched[p] =>
         \/ files[ProjectYaml] = config[p]
         \/ files[ProjectYaml] = Absent /\ next[p] = 1 /\ stage[p] \notin Written
    /\ stage[p] \in Configured => \A f \in Done(p) \ touched[p] : There(f)
    /\ stage[p] = "reporting" => FoundCurrent(p)

SInv == SetupTypeOK /\ \A p \in Processes : Relies(p)

USE DEF calls, setupVars, allVars, Watched, Stand

-----------------------------------------------------------------------------
\* Order[1] is a file, and every position names one.
LEMMA Positions == 1 \in DOMAIN Order /\ DOMAIN Order = 1..Len(Order) /\ Len(Order) \in Nat \ {0}
  BY SetupAssumption

LEMMA FileAt ==
    ProjectYaml \in Files /\ Keep \in Files \ {ProjectYaml} /\ \A i \in DOMAIN Order : Order[i] \in Files
  BY Positions, KeepAssumption DEF ProjectYaml, Files

\* A step of initialize is a step of the migration it calls, or leaves the database alone.
LEMMA StepRefines == [SetupNext]_allVars => [Next]_vars
  <1> SUFFICES ASSUME [SetupNext]_allVars PROVE [Next]_vars
    OBVIOUS
  <1>1. ASSUME NEW p \in Processes, SetupStep(p) PROVE [Next]_vars
    <2>1. CASE Summarize(p) \/ OtherEntry(p)
      BY <2>1 DEF Summarize, OtherEntry, Next, Step
    <2>2. CASE ~(Summarize(p) \/ OtherEntry(p))
      BY <1>1, <2>2 DEF SetupStep, Initialize, Open, Load, Check, Test, MakeInput, WriteFile, Migrated, Report,
         SetupFails, End
    <2> QED
      BY <2>1, <2>2
  <1>2. CASE MigrationStep
    BY <1>2 DEF MigrationStep, Next, Step
  <1>3. CASE (\E f \in Files : Edit(f)) \/ EditInput
    BY <1>3 DEF Edit, EditInput
  <1>4. CASE UNCHANGED allVars
    BY <1>4
  <1> QED
    BY <1>1, <1>2, <1>3, <1>4 DEF SetupNext

\* Beside initialize the migration behaves as it does alone: the theorems of
\* MigrationProofs hold of the composition.
THEOREM SetupMigrates == SetupSpec => Spec
  <1>1. SetupInit => Init
    BY DEF SetupInit
  <1> QED
    BY <1>1, StepRefines, PTL DEF SetupSpec, Spec

-----------------------------------------------------------------------------
\* Before any call there is nothing to rely on.
LEMMA InitSInv == SetupInit => SInv
  <1> SUFFICES ASSUME SetupInit PROVE SInv
    OBVIOUS
  <1>1. SetupTypeOK
    BY Positions DEF SetupInit, SetupTypeOK, Contents, Writing
  <1>2. \A p \in Processes : Relies(p)
    BY DEF SetupInit, Relies, Configured, Written
  <1> QED
    BY <1>1, <1>2 DEF SInv

\* What somebody changes stays in its range.
LEMMA ChangeType ==
    ASSUME SetupTypeOK, NEW f \in Files, NEW content \in Contents, NEW who, Change(f, content, who)
    PROVE  /\ files' \in [Files -> Contents]
           /\ kept' \in [Processes -> SUBSET Files]
           /\ touched' \in [Processes -> SUBSET Files]
  <1>1. files' \in [Files -> Contents]
    BY DEF Change, SetupTypeOK
  <1>2. kept' \in [Processes -> SUBSET Files]
    BY DEF Change, SetupTypeOK
  <1>3. touched' \in [Processes -> SUBSET Files]
    BY DEF Change, SetupTypeOK
  <1> QED
    BY <1>1, <1>2, <1>3

\* On the way through the files a call stays at one of them.
LEMMA AdvanceType ==
    ASSUME SetupTypeOK, NEW p \in Processes, Advance(p)
    PROVE  /\ next' \in [Processes -> DOMAIN Order]
           /\ stage' \in [Processes -> {"out", "migrating"} \cup Writing]
  <1> USE DEF SetupTypeOK, Advance, Writing
  <1>1. next' \in [Processes -> DOMAIN Order]
    <2>1. CASE UNCHANGED next
      BY <2>1
    <2>2. CASE next[p] < Len(Order) /\ next' = [next EXCEPT ![p] = @ + 1]
      <3>1. next[p] \in DOMAIN Order
        OBVIOUS
      <3>2. next[p] + 1 \in DOMAIN Order
        BY <2>2, <3>1, Positions
      <3> QED
        BY <2>2, <3>2
    <2> QED
      BY <2>1, <2>2
  <1>2. stage' \in [Processes -> {"out", "migrating"} \cup Writing]
    OBVIOUS
  <1> QED
    BY <1>1, <1>2

\* Each step keeps every variable in its range.
LEMMA StepSetupType ==
    ASSUME SetupTypeOK, [SetupNext]_allVars
    PROVE  SetupTypeOK'
  <1> USE DEF SetupTypeOK, Writing
  <1>1. ASSUME NEW p \in Processes, SetupStep(p) PROVE SetupTypeOK'
    <2>1. CASE Initialize(p)
      BY <2>1 DEF Initialize
    <2>2. CASE Open(p)
      <3>1. stage' \in [Processes -> {"out", "migrating"} \cup Writing]
        BY <2>2 DEF Open
      <3>2. config' \in [Processes -> Contents]
        BY <2>2 DEF Open, Contents
      <3> QED
        BY <2>2, <3>1, <3>2 DEF Open
    <2>3. CASE Load(p)
      <3>1. CASE config' = [config EXCEPT ![p] = files[ProjectYaml]] /\ Advance(p) /\ UNCHANGED Watched
        <4>1. files[ProjectYaml] \in Contents
          BY FileAt
        <4> QED
          BY <3>1, <4>1, AdvanceType
      <3>2. CASE End(p)
        BY <3>2, Positions DEF End, Contents
      <3> QED
        BY <2>3, <3>1, <3>2 DEF Load
    <2>4. CASE Check(p)
      <3>1. Advance(p) \/ ((Stand(p, "writing") \/ Stand(p, "testing")) /\ UNCHANGED next)
        BY <2>4 DEF Check
      <3> QED
        BY <2>4, <3>1, AdvanceType DEF Check
    <2>t. CASE Test(p)
      <3>1. Advance(p) \/ (Stand(p, "making") /\ UNCHANGED next)
        BY <2>t DEF Test
      <3> QED
        BY <2>t, <3>1, AdvanceType DEF Test
    <2>m. CASE MakeInput(p)
      BY <2>m DEF MakeInput
    <2>5. CASE WriteFile(p)
      <3>1. Order[next[p]] \in Files /\ config[p] \in Contents
        BY FileAt
      <3>2. files'[Keep] # Absent => input'
        BY <2>5 DEF WriteFile, Change
      <3> QED
        BY <2>5, <3>1, <3>2, ChangeType, AdvanceType DEF WriteFile
    <2>6. CASE Summarize(p)
      BY <2>6 DEF Summarize
    <2>7. CASE Migrated(p)
      BY <2>7, Positions DEF Migrated, End, Contents
    <2>8. CASE Report(p) \/ SetupFails(p)
      BY <2>8, Positions DEF Contents, Report, SetupFails, End
    <2>9. CASE OtherEntry(p)
      BY <2>9 DEF OtherEntry
    <2> QED
      BY <1>1, <2>1, <2>2, <2>3, <2>4, <2>t, <2>m, <2>5, <2>6, <2>7, <2>8, <2>9 DEF SetupStep
  <1>2. CASE MigrationStep
    BY <1>2 DEF MigrationStep
  <1>3. ASSUME NEW f \in Files, Edit(f) PROVE SetupTypeOK'
    <2>1. PICK content \in Contents : Change(f, content, NoOne)
      BY <1>3 DEF Edit, Contents
    <2>2. input' \in BOOLEAN /\ (files'[Keep] # Absent => input')
      BY <1>3, FileAt DEF Edit, Change
    <2> QED
      BY <1>3, <2>1, <2>2, ChangeType DEF Edit
  <1>4. CASE EditInput
    <2>1. CASE input' = TRUE /\ UNCHANGED <<files, kept, touched>>
      BY <1>4, <2>1 DEF EditInput
    <2>2. CASE input' = FALSE /\ Change(Keep, Absent, NoOne)
      <3>1. files'[Keep] = Absent
        BY <2>2, FileAt DEF Change
      <3>2. Keep \in Files /\ Absent \in Contents
        BY FileAt DEF Contents
      <3> QED
        BY <1>4, <2>2, <3>1, <3>2, ChangeType DEF EditInput
    <2> QED
      BY <1>4, <2>1, <2>2 DEF EditInput
  <1>5. CASE UNCHANGED allVars
    BY <1>5
  <1> QED
    BY <1>1, <1>2, <1>3, <1>4, <1>5 DEF SetupNext

-----------------------------------------------------------------------------
\* What a step leaves to a call that is not its own: its place, and every file that is
\* not noted as touched.
Leaves(q) ==
    /\ stage'[q] = stage[q] /\ next'[q] = next[q] /\ config'[q] = config[q]
    /\ kept'[q] \subseteq kept[q] /\ \A f \in kept'[q] : files'[f] # Absent
    /\ touched[q] \subseteq touched'[q]
    /\ stage[q] # "out" => \A f \in Files \ touched'[q] : files'[f] = files[f]
    /\ stage[q] # "out" /\ Keep \notin touched'[q] => (input => input')
    /\ FoundCurrent(q) => FoundCurrent(q)'

\* A call may rely on the same things after a step that leaves it that much.
LEMMA LeavesRelies ==
    ASSUME SInv, NEW q \in Processes, Leaves(q)
    PROVE  Relies(q)'
  <1> USE DEF Leaves
  <1>1. Relies(q) /\ SetupTypeOK
    BY DEF SInv
  <1>2. Done(q)' = Done(q)
    BY DEF Done
  <1>3. Done(q) \subseteq Files
    BY FileAt DEF Done
  <1>4. \A f \in kept'[q] : files'[f] # Absent
    OBVIOUS
  <1>5. stage'[q] \in Configured => \A f \in Done(q)' \ touched'[q] : There(f)'
    BY <1>1, <1>2, <1>3 DEF Relies, Configured, There
  <1>6. ProjectYaml \notin touched'[q] /\ stage[q] # "out" => files'[ProjectYaml] = files[ProjectYaml]
    BY FileAt
  <1>7. /\ stage'[q] \in {"making", "writing"} => Order[next'[q]] \notin kept'[q]
        /\ stage'[q] \in {"testing", "making"} => Order[next'[q]] = Keep
    BY <1>1 DEF Relies
  <1>8. /\ stage'[q] = "loading" /\ ProjectYaml \notin touched'[q] => files'[ProjectYaml] # Absent
        /\ stage'[q] \in Configured => config'[q] # Absent
        /\ stage'[q] \in Configured /\ ProjectYaml \notin touched'[q] =>
             \/ files'[ProjectYaml] = config'[q]
             \/ files'[ProjectYaml] = Absent /\ next'[q] = 1 /\ stage'[q] \notin Written
    BY <1>1, <1>6 DEF Relies, Configured
  <1> QED
    BY <1>1, <1>4, <1>5, <1>7, <1>8 DEF Relies

\* Whoever changes a file leaves that much to every other call.
LEMMA ChangeLeaves ==
    ASSUME SInv, NEW f \in Files, NEW content, NEW who, Change(f, content, who),
           NEW q \in Processes, q # who
    PROVE  /\ kept'[q] \subseteq kept[q] /\ \A g \in kept'[q] : files'[g] # Absent
           /\ touched[q] \subseteq touched'[q]
           /\ stage[q] # "out" => \A g \in Files \ touched'[q] : files'[g] = files[g]
  <1> USE DEF SInv, SetupTypeOK, Change
  <1>1. files' = [files EXCEPT ![f] = content]
    OBVIOUS
  <1>2. kept'[q] = IF content = Absent THEN kept[q] \ {f} ELSE kept[q]
    OBVIOUS
  <1>3. touched'[q] = IF stage[q] = "out" THEN touched[q] ELSE touched[q] \cup {f}
    OBVIOUS
  <1>4. kept[q] \subseteq Files /\ \A g \in kept[q] : files[g] # Absent
    BY DEF Relies
  <1> QED
    BY <1>1, <1>2, <1>3, <1>4 DEF SetupTypeOK

\* What a call has found of the database stays found, whoever takes the step.
LEMMA StepKeepsFound ==
    ASSUME IInv, [SetupNext]_allVars, NEW q \in Processes, ~SetupStep(q), FoundCurrent(q)
    PROVE  FoundCurrent(q)'
  <1> USE DEF FoundCurrent, Recorded
  <1>1. ASSUME NEW p \in Processes, Step(p), p # q PROVE FoundCurrent(q)'
    BY <1>1, StepLeavesOthers DEF LeavesOthers
  <1>2. CASE UNCHANGED vars
    BY <1>2 DEF vars, db
  <1>3. ASSUME NEW p \in Processes, p # q, SetupStep(p) PROVE FoundCurrent(q)'
    <2>1. Step(p) \/ UNCHANGED vars
      BY <1>3 DEF SetupStep, Initialize, Open, Load, Check, Test, MakeInput, WriteFile, Summarize,
         Migrated, Report, SetupFails, OtherEntry, End, Step
    <2> QED
      BY <1>1, <1>2, <1>3, <2>1
  <1>4. CASE MigrationStep
    <2>1. ASSUME NEW p \in Processes, Step(p), UNCHANGED overtaken PROVE FoundCurrent(q)'
      BY <2>1, StepLeavesOthers DEF LeavesOthers
    <2>2. CASE \/ \E r \in Rows : Write(r)
               \/ OldInit \/ Damage
      BY <2>2 DEF Write, OldInit, Damage
    <2>3. CASE \E p \in Processes : Step(p) /\ UNCHANGED overtaken
      BY <2>1, <2>3
    <2>4. ASSUME NEW p \in Processes,
                 \/ ReadTables(p) \/ ReadVersions(p) \/ CompareStructure(p)
                 \/ Guard(p) \/ Recheck(p) \/ ListWorktrees(p) \/ CountUnclean(p)
                 \/ Backup(p) \/ WriteDigest(p) \/ Replace(p)
                 \/ Bootstrap(p) \/ ReadApplied(p) \/ Begin(p) \/ Apply(p) \/ Fails(p)
          PROVE  Step(p) /\ UNCHANGED overtaken
      BY <2>4 DEF Step, ReadTables, ReadVersions, CompareStructure, Guard, Recheck,
         ListWorktrees, CountUnclean, Backup, WriteDigest, Replace, Bootstrap,
         ReadApplied, Begin, Apply, Fails, Goto, Return, Raise
    <2> QED
      BY <1>4, <2>2, <2>3, <2>4 DEF MigrationStep
  <1>5. CASE (\E f \in Files : Edit(f)) \/ EditInput \/ UNCHANGED allVars
    BY <1>2, <1>5 DEF Edit, EditInput
  <1> QED
    BY <1>3, <1>4, <1>5 DEF SetupNext

\* No step takes anything from a call that is not its own.
LEMMA StepLeaves ==
    ASSUME SInv, IInv, [SetupNext]_allVars, NEW q \in Processes,
           ~SetupStep(q)
    PROVE  Leaves(q)
  <1> USE DEF SInv, SetupTypeOK
  <1>s. FoundCurrent(q) => FoundCurrent(q)'
    BY StepKeepsFound
  <1>k. \A g \in kept[q] : files[g] # Absent
    BY DEF Relies
  <1>1. ASSUME NEW p \in Processes, p # q, SetupStep(p) PROVE Leaves(q)
    <2>1. CASE WriteFile(p)
      <3>1. Order[next[p]] \in Files /\ Change(Order[next[p]], config[p], p) /\ UNCHANGED input
        BY <2>1, FileAt DEF WriteFile
      <3>2. stage'[q] = stage[q] /\ next'[q] = next[q] /\ config'[q] = config[q]
        BY <1>1, <2>1 DEF WriteFile, Advance
      <3> HIDE DEF SInv
      <3> QED
        BY <1>s, <1>1, <3>1, <3>2, ChangeLeaves DEF Leaves
    <2>2. CASE ~WriteFile(p)
      <3>1. /\ UNCHANGED files /\ (input => input')
            /\ kept'[q] = kept[q] /\ touched'[q] = touched[q]
        BY <1>1, <2>2 DEF SetupStep, Initialize, Open, Load, Check, Test, MakeInput, Summarize, Migrated, Report,
           SetupFails, OtherEntry, End
      <3>2. stage'[q] = stage[q] /\ next'[q] = next[q] /\ config'[q] = config[q]
        BY <1>1, <2>2 DEF SetupStep, Initialize, Open, Load, Check, Test, MakeInput, Summarize, Migrated, Report,
           SetupFails, OtherEntry, End, Advance
      <3> QED
        BY <1>s, <1>k, <3>1, <3>2 DEF Leaves
    <2> QED
      BY <2>1, <2>2
  <1>2. CASE MigrationStep \/ UNCHANGED allVars
    BY <1>s, <1>k, <1>2 DEF MigrationStep, Leaves
  <1>3. ASSUME NEW f \in Files, Edit(f) PROVE Leaves(q)
    <2>1. PICK content : Change(f, content, NoOne)
      BY <1>3 DEF Edit
    <2>2. q # NoOne
      BY ConstantsAssumption
    <2>3. UNCHANGED <<stage, next, config>> /\ (input => input')
      BY <1>3 DEF Edit
    <2> HIDE DEF SInv
    <2> QED
      BY <1>s, <2>1, <2>2, <2>3, ChangeLeaves DEF Leaves
  <1>4. CASE EditInput
    <2>1. UNCHANGED <<stage, next, config>>
      BY <1>4 DEF EditInput
    <2>2. CASE input' = TRUE /\ UNCHANGED <<files, kept, touched>>
      BY <1>s, <1>k, <2>1, <2>2 DEF Leaves
    <2>3. CASE input' = FALSE /\ Change(Keep, Absent, NoOne)
      <3>1. q # NoOne /\ Keep \in Files
        BY ConstantsAssumption, FileAt
      <3>2. stage[q] # "out" => Keep \in touched'[q]
        BY <2>3, <3>1 DEF Change
      <3> HIDE DEF SInv
      <3> QED
        BY <1>s, <2>1, <2>3, <3>1, <3>2, ChangeLeaves DEF Leaves
    <2> QED
      BY <1>4, <2>2, <2>3 DEF EditInput
  <1> QED
    BY <1>1, <1>2, <1>3, <1>4 DEF SetupNext

-----------------------------------------------------------------------------
\* Past a file that is there, the call has been through one more.
LEMMA AdvanceRelies ==
    ASSUME SetupTypeOK, NEW p \in Processes, Advance(p),
           stage[p] \in {"loading", "checking", "testing", "writing"},
           \A f \in (Done(p) \cup {Order[next[p]]}) \ touched'[p] : There(f)'
    PROVE  \A f \in Done(p)' \ touched'[p] : There(f)'
  <1> USE DEF SetupTypeOK
  <1>1. Done(p)' \subseteq Done(p) \cup {Order[next[p]]}
    <2>1. CASE next[p] < Len(Order) /\ next'[p] = next[p] + 1 /\ stage'[p] = "checking"
      BY <2>1, Positions DEF Done, Written
    <2>2. CASE next[p] = Len(Order) /\ next'[p] = next[p] /\ stage'[p] = "summarizing"
      BY <2>2, Positions DEF Done, Written
    <2>3. next[p] \in 1..Len(Order)
      BY Positions
    <2> QED
      BY <2>1, <2>2, <2>3, Positions DEF Advance
  <1> QED
    BY <1>1

\* A call may rely on the same things after each step of its own.
LEMMA OwnRelies ==
    ASSUME SInv, IInv, NEW p \in Processes, SetupStep(p)
    PROVE  Relies(p)'
  <1> USE SetupAssumption
  <1>1. Relies(p) /\ SetupTypeOK
    BY DEF SInv
  <1>3. CASE Initialize(p)
    BY <1>1, <1>3 DEF SetupTypeOK, Initialize, Relies, Configured, Written
  <1>4. CASE Open(p)
    <2>1. p # Absent
      OBVIOUS
    <2>2. Done(p)' \subseteq {}
      BY <1>1, <1>4, Positions DEF SetupTypeOK, Open, Relies, Done, Written
    <2> QED
      BY <1>1, <1>4, <2>1, <2>2 DEF SetupTypeOK, Open, Relies, Configured, Written
  <1>5. CASE Load(p)
    <2>1. CASE End(p)
      BY <1>1, <2>1 DEF SetupTypeOK, End, Relies, Configured, Written
    <2>2. CASE ~End(p)
      <3>1. files[ProjectYaml] # Absent /\ config'[p] = files[ProjectYaml] /\ UNCHANGED Watched
        BY <1>1, <1>5, <2>2 DEF Load, SetupTypeOK
      <3>2. stage[p] = "loading" /\ next[p] = 1 /\ Advance(p)
        BY <1>1, <1>5, <2>2 DEF Load, Relies
      <3>3. Done(p) = {}
        BY <3>2, Positions DEF Done, Written
      <3>4. \A f \in Done(p)' \ touched'[p] : There(f)'
        <4>1. \A f \in Done(p) \cup {Order[next[p]]} : There(f)'
          BY <3>1, <3>2, <3>3 DEF There, ProjectYaml
        <4> QED
          BY <1>1, <3>2, <4>1, AdvanceRelies
      <3>5. stage'[p] \in {"checking", "summarizing"}
        BY <1>1, <3>2 DEF Advance, SetupTypeOK
      <3> QED
        BY <1>1, <3>1, <3>4, <3>5 DEF Relies, Configured, Written
    <2> QED
      BY <2>1, <2>2
  <1>6. ASSUME stage[p] \in {"checking", "testing"}, Advance(p), There(Order[next[p]]),
               UNCHANGED <<Watched, config>>
        PROVE  Relies(p)'
    <2>1. \A f \in Done(p)' \ touched'[p] : There(f)'
      <3>1. \A f \in (Done(p) \cup {Order[next[p]]}) \ touched'[p] : There(f)'
        BY <1>1, <1>6 DEF Relies, Configured, There
      <3> QED
        BY <1>1, <1>6, <3>1, AdvanceRelies
    <2>2. next[p] = 1 => files[ProjectYaml] # Absent
      BY <1>6, FileAt DEF ProjectYaml, There
    <2>3. stage'[p] \in {"checking", "summarizing"}
      BY <1>1, <1>6 DEF Advance, SetupTypeOK
    <2> QED
      BY <1>1, <1>6, <2>1, <2>2, <2>3 DEF Relies, Configured, Written
  <1>c. CASE Check(p)
    <2>1. CASE There(Order[next[p]]) /\ Advance(p)
      BY <1>6, <1>c, <2>1 DEF Check
    <2>2. CASE ~(There(Order[next[p]]) /\ Advance(p))
      <3>1. /\ UNCHANGED <<Watched, next, config>> /\ stage[p] = "checking"
            /\ \/ Stand(p, "testing") /\ Order[next[p]] = Keep
               \/ Stand(p, "writing") /\ files[Order[next[p]]] = Absent
        BY <1>c, <2>2 DEF Check, There
      <3>2. Done(p)' = Done(p)
        BY <1>1, <3>1 DEF SetupTypeOK, Done, Written
      <3>3. \A f \in Done(p)' \ touched'[p] : There(f)'
        BY <1>1, <3>1, <3>2 DEF Relies, Configured, There
      <3>4. stage'[p] = "writing" => Order[next[p]] \notin kept[p]
        BY <1>1, <3>1 DEF SetupTypeOK, Relies
      <3>5. stage'[p] \in {"testing", "writing"} /\ next'[p] = next[p]
        BY <1>1, <3>1 DEF SetupTypeOK
      <3> QED
        BY <1>1, <3>1, <3>3, <3>4, <3>5 DEF SetupTypeOK, Relies, Configured, Written
    <2> QED
      BY <2>1, <2>2
  <1>t. CASE Test(p)
    <2>0. stage[p] = "testing" /\ Order[next[p]] = Keep /\ UNCHANGED <<Watched, config>>
      BY <1>1, <1>t DEF Test, Relies
    <2>1. CASE files[Keep] # Absent /\ Advance(p)
      BY <1>6, <2>0, <2>1 DEF There
    <2>2. CASE files[Keep] = Absent /\ Stand(p, "making") /\ UNCHANGED next
      <3>1. Done(p)' = Done(p)
        BY <1>1, <2>0, <2>2 DEF SetupTypeOK, Done, Written
      <3>2. \A f \in Done(p)' \ touched'[p] : There(f)'
        BY <1>1, <2>0, <3>1 DEF Relies, Configured, There
      <3>3. Order[next[p]] \notin kept[p]
        BY <1>1, <2>0, <2>2 DEF Relies
      <3>4. stage'[p] = "making" /\ next'[p] = next[p]
        BY <1>1, <2>2 DEF SetupTypeOK
      <3> QED
        BY <1>1, <2>0, <3>2, <3>3, <3>4 DEF Relies, Configured, Written
    <2> QED
      BY <1>t, <2>1, <2>2 DEF Test
  <1>m. CASE MakeInput(p)
    <2>1. Done(p)' = Done(p)
      BY <1>1, <1>m DEF SetupTypeOK, MakeInput, Done, Written
    <2>2. \A f \in Done(p)' \ touched'[p] : There(f)'
      BY <1>1, <1>m, <2>1 DEF MakeInput, Relies, Configured, There
    <2>3. stage[p] = "making" /\ stage'[p] = "writing" /\ UNCHANGED <<next, files, kept, touched, config>>
      BY <1>1, <1>m DEF MakeInput, SetupTypeOK
    <2> QED
      BY <1>1, <2>2, <2>3 DEF Relies, Configured, Written
  <1>7. CASE WriteFile(p)
    <2>1. /\ files' = [files EXCEPT ![Order[next[p]]] = config[p]]
          /\ kept'[p] = kept[p] /\ touched'[p] = touched[p]
      <3>1. config[p] # Absent
        BY <1>1, <1>7 DEF WriteFile, Relies, Configured
      <3> QED
        BY <1>1, <1>7, <3>1 DEF WriteFile, Change, SetupTypeOK
    <2>2. config[p] # Absent /\ config' = config /\ stage[p] = "writing" /\ Advance(p)
      BY <1>1, <1>7 DEF WriteFile, Relies, Configured
    <2>3. \A f \in Files : files'[f] # files[f] => files'[f] = config[p] /\ f = Order[next[p]]
      BY <1>1, <2>1 DEF SetupTypeOK
    <2>4. files'[Order[next[p]]] = config[p]
      BY <1>1, <2>1, FileAt DEF SetupTypeOK
    <2>5. Done(p) \subseteq Files
      BY FileAt DEF Done
    <2>6. \A f \in Done(p)' \ touched'[p] : There(f)'
      <3>0. UNCHANGED input
        BY <1>7 DEF WriteFile
      <3>1. \A f \in Done(p) \ touched'[p] : There(f)'
        BY <1>1, <2>1, <2>2, <2>3, <2>5, <3>0 DEF Relies, Configured, There
      <3>2. \A f \in {Order[next[p]]} : There(f)'
        BY <2>2, <2>4 DEF There
      <3> QED
        BY <1>1, <2>2, <3>1, <3>2, AdvanceRelies
    <2>7. \A f \in kept'[p] : files'[f] # Absent
      BY <1>1, <2>1, <2>2, <2>3 DEF Relies, SetupTypeOK
    <2>8. ProjectYaml \notin touched'[p] => files'[ProjectYaml] = config'[p]
      <3>1. next[p] = 1 => files'[ProjectYaml] = config[p]
        BY <2>4 DEF ProjectYaml
      <3>2. files[ProjectYaml] = config[p] => files'[ProjectYaml] = config[p]
        BY <2>3, FileAt
      <3> QED
        BY <1>1, <2>1, <2>2, <3>1, <3>2 DEF Relies, Configured
    <2>9. stage'[p] \in {"checking", "summarizing"}
      BY <1>1, <2>2 DEF Advance, SetupTypeOK
    <2> QED
      BY <2>2, <2>6, <2>7, <2>8, <2>9 DEF Relies, Configured, Written
  <1>8. CASE Summarize(p)
    <2>1. Done(p)' = Done(p)
      BY <1>1, <1>8 DEF SetupTypeOK, Summarize, Done, Written
    <2>2. \A f \in Done(p)' \ touched'[p] : There(f)'
      BY <1>1, <1>8, <2>1 DEF Summarize, Relies, Configured, There
    <2> QED
      BY <1>1, <1>8, <2>2 DEF SetupTypeOK, Summarize, Relies, Configured, Written
  <1>9. CASE Migrated(p)
    <2>1. CASE End(p)
      BY <1>1, <2>1 DEF SetupTypeOK, End, Relies, Configured, Written
    <2>2. CASE answer[p] = "migrated" /\ Stand(p, "reporting") /\ UNCHANGED <<vars, Watched, next, config>>
      <3>1. FoundCurrent(p)'
        <4>1. FoundCurrent(p) /\ UNCHANGED <<schema, overtaken>>
          BY <2>2 DEF IInv, MigratedIsCurrent, vars, db
        <4> QED
          BY <4>1 DEF FoundCurrent, Recorded
      <3>2. Done(p)' = Done(p)
        BY <1>1, <1>9, <2>2 DEF SetupTypeOK, Migrated, Done, Written
      <3>3. \A f \in Done(p)' \ touched'[p] : There(f)'
        BY <1>1, <1>9, <2>2, <3>2 DEF Migrated, Relies, Configured, There
      <3> QED
        BY <1>1, <1>9, <2>2, <3>1, <3>3 DEF SetupTypeOK, Migrated, Relies, Configured, Written
    <2> QED
      BY <1>9, <2>1, <2>2 DEF Migrated
  <1>10. CASE Report(p) \/ SetupFails(p)
    BY <1>1, <1>10 DEF SetupTypeOK, Report, SetupFails, End, Relies, Configured, Written
  <1>11. CASE OtherEntry(p)
    BY <1>1, <1>11 DEF OtherEntry, Relies, Configured, Written
  <1> QED
    BY <1>3, <1>4, <1>5, <1>c, <1>t, <1>m, <1>7, <1>8, <1>9, <1>10, <1>11 DEF SetupStep

-----------------------------------------------------------------------------
\* Every step keeps the types and what each call relies on.
LEMMA NextSInv == SInv /\ IInv /\ [SetupNext]_allVars => SInv'
  <1> SUFFICES ASSUME SInv, IInv, [SetupNext]_allVars PROVE SInv'
    OBVIOUS
  <1>1. SetupTypeOK'
    BY StepSetupType DEF SInv
  <1>2. ASSUME NEW q \in Processes PROVE Relies(q)'
    <2>1. CASE SetupStep(q)
      BY <2>1, OwnRelies
    <2>2. CASE ~SetupStep(q)
      BY <2>2, StepLeaves, LeavesRelies
    <2> QED
      BY <2>1, <2>2
  <1> QED
    BY <1>1, <1>2 DEF SInv

\* They hold throughout, next to the invariant of the migration.
THEOREM SetupInvariance == SetupSpec => []SInv
  <1>1. SetupSpec => []IInv
    BY SetupMigrates, Invariance, PTL
  <1> QED
    BY <1>1, InitSInv, NextSInv, PTL DEF SetupSpec

\* No call ever replaces a file that was there when it began and stayed, with any number
\* of calls, users and deaths.
THEOREM NothingIsOverwritten == SetupSpec => NothingOverwritten
  <1>1. SInv => [\A p \in Processes : WriteFile(p) => Order[next[p]] \notin kept[p]]_setupVars
    BY DEF SInv, Relies, WriteFile
  <1> QED
    BY <1>1, SetupInvariance, PTL DEF NothingOverwritten

\* A call returns the project on disk.
THEOREM AnswersOnDisk == SetupSpec => []AnswerIsOnDisk
  <1>1. SInv => AnswerIsOnDisk
    BY DEF SInv, Relies, Configured, Written, AnswerIsOnDisk
  <1> QED
    BY <1>1, SetupInvariance, PTL

\* A call that returns leaves a migrated database and every file, whatever died before it;
\* of input/.gitkeep the directory is enough.
THEOREM SetupsAreComplete == SetupSpec => []SetupIsComplete
  <1>1. SInv => SetupIsComplete
    <2> SUFFICES ASSUME SInv, NEW p \in Processes, stage[p] = "reporting"
                 PROVE  FoundCurrent(p) /\ \A f \in Files \ touched[p] : There(f)
      BY DEF SetupIsComplete, There
    <2>1. Files = Done(p)
      BY DEF Files, Done, Written
    <2> QED
      BY <2>1 DEF SInv, Relies, Configured
  <1> QED
    BY <1>1, SetupInvariance, PTL
=============================================================================
