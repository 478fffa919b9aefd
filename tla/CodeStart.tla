------------------------------ MODULE CodeStart ------------------------------
(***************************************************************************)
(* core/gates.py, core/checks.py, core/github_remote.py, hook_gateway.py:   *)
(* the Code Start gate at its three layers.  evaluate_code_start answers    *)
(* before the work, the hook before each write to a formal path, and Finish *)
(* afterwards, when it finds a formal change.  Nothing is stored in         *)
(* between: each layer asks Git, the remotes and the files again, one       *)
(* question after the other, while people and commands go on working.       *)
(*                                                                          *)
(* The formal code is one path.  It is 0 as at the task's base, 1 changed;  *)
(* a base that does not resolve is a Git command that fails, and so is a    *)
(* question that runs out of its time.                                      *)
(***************************************************************************)
EXTENDS Sequences, FiniteSets, Naturals

CONSTANTS
    Remotes,  \* names of remotes, each with one URL
    Allowed,  \* those whose URL is on an allowed host
    Unsteady, \* those that may stop answering and start again
    Configs,  \* the Git configurations that occur
    Kinds,    \* what may lie in the tree, of Dirt
    Research, \* the contents of the research document that occur
    Requests, \* the arguments that are given to Start and Finish
    None      \* not configured, not given, no such file

\* Copies that are proven to be generated or upstream's, input/ and uncommitted work are none.
Dirt == {"copy", "pollution", "conflict", "impure output"}

\* The branch's upstream may be "." : a local branch, or one that is gone.
Local == {"local", "gone"}
Configurations ==
    [pushRemote : Remotes \cup {None}, pushDefault : Remotes \cup {None},
     upstream : Remotes \cup Local \cup {None}, remotes : SUBSET Remotes]

ASSUME StartAssumption ==
    /\ Allowed \subseteq Remotes /\ Unsteady \subseteq Remotes
    /\ Remotes \cap (Local \cup {None}) = {}
    /\ Configs \subseteq Configurations
    /\ Kinds \subseteq Dirt

VARIABLES
    config, online, tree, research, \* the facts: Git's configuration, the remotes that
                                    \* answer, what lies in the tree, the document
    head, index, work, fresh,       \* the formal path; fresh: it is new since the base
    request,  \* the gate call that is being answered, or was answered last
    basis     \* history: what Start allowed, as long as no fact has changed since it looked

facts == <<config, online, tree, research>>
versions == <<head, index, work, fresh>>
startVars == <<facts, versions, request, basis>>

\* One class that needs research and one that does not; any other word is no class.
Known == {"major_feature", "bugfix"}
\* The findings of Code Start; "other" is any that has nothing to do with it.
Findings == {"remote", "hygiene", "research", "unverified", "other"}
NoRequest == [kind |-> "none", at |-> "answered", args |-> None, found |-> {}, calm |-> FALSE,
              probes |-> <<>>, formal |-> FALSE, stayed |-> {}]

StartInit ==
    /\ config \in Configs
    /\ online = Remotes
    /\ tree = {}
    /\ research \in Research
    /\ head = 0 /\ index = 0 /\ work = 0 /\ fresh \in BOOLEAN
    /\ request = NoRequest
    /\ basis = None

-----------------------------------------------------------------------------
(***************************************************************************)
(* What the layers ask.                                                     *)
(***************************************************************************)
\* One remote is taken when none is named; of several none is.
Sole(remotes) == IF Cardinality(remotes) = 1 THEN CHOOSE r \in remotes : TRUE ELSE None

\* check_remote: the remote that is given, or that Git would push to; never just "origin".
SelectedBy(c, given) ==
    LET named == SelectSeq(<<given, c.pushRemote, c.pushDefault,
                             IF c.upstream \in Remotes THEN c.upstream ELSE None>>,
                           LAMBDA name : name # None)
    IN  IF named # <<>> THEN Head(named) ELSE Sole(c.remotes)
Selected(given) == SelectedBy(config, given)

\* The selected remote and the upstream, when there is one, must both exist.
Selectable(given) ==
    /\ Selected(given) \in config.remotes
    /\ config.upstream \in config.remotes \cup {"local", None}

\* The URLs that are going to be probed, each once.
Probes(given) ==
    <<Selected(given)>> \o IF config.upstream \in Remotes \ {Selected(given)}
                           THEN <<config.upstream>> ELSE <<>>

Clean == tree = {}

\* One document unlocks one requirement.
Researched(args) ==
    args.class = "major_feature" =>
        /\ args.requirement # None /\ research # None
        /\ research.requirement = args.requirement /\ research.complete

\* Code Start as one look would find it.
CodeStartHolds(args) ==
    /\ args.class \in Known
    /\ Selectable(args.remote)
    /\ {Selected(args.remote), config.upstream} \subseteq (Allowed \cap online) \cup {"local", None}
    /\ Clean
    /\ Researched(args)

\* Where the path differs from what comes before it: HEAD, the index, the working tree.
Places(h, i, w) == {p \in {"commits", "index", "work"} :
                      \/ p = "commits" /\ h # 0
                      \/ p = "index" /\ i # h
                      \/ p = "work" /\ w # i}

\* A path that is new and not in the index is nothing to git diff.
Untracked == fresh /\ index = 0

\* Mutant: the files Git does not track are not asked for.
ShownByDiff ==
    [commits |-> head # 0, index |-> index # head,
     work |-> work # index /\ ~Untracked, others |-> FALSE]

\* Whether the path is in the answer to each of the four questions.
Shown ==
    [commits |-> head # 0, index |-> index # head,
     work |-> work # index /\ ~Untracked, others |-> work # index /\ Untracked]

-----------------------------------------------------------------------------
(***************************************************************************)
(* The calls.                                                               *)
(***************************************************************************)
Advance(to, findings) == request' = [request EXCEPT !.at = to, !.found = @ \cup findings]
GateReads == UNCHANGED <<facts, versions, basis>>

Ask(kind, args, at, findings, stayed) ==
    /\ request.at = "answered"
    /\ request' = [kind |-> kind, at |-> at, args |-> args, found |-> findings, calm |-> TRUE,
                   probes |-> <<>>, formal |-> FALSE, stayed |-> stayed]
    /\ GateReads

\* An explicit class of the known ones, or an error.
AskStart == \E args \in Requests :
    IF args.class \in Known THEN Ask("start", args, "selecting", {}, {})
    ELSE Ask("start", args, "answered", {"unverified"}, {})

\* A write to the formal path is announced; all the hook knows is the path.
AskHook == Ask("hook", None, "selecting", {}, {})

AskFinish == \E args \in Requests : Ask("finish", args, "commits", {}, Places(head, index, work))

\* Mutant: the second layer does not pass the remote on.
GivenToStart == IF request.kind = "start" THEN request.args.remote ELSE None

\* The remote the caller has named.
Given == IF request.kind = "hook" THEN None ELSE request.args.remote

Select ==
    /\ request.at = "selecting"
    /\ IF Selectable(Given)
       THEN request' = [request EXCEPT !.at = "probing", !.probes = Probes(Given)]
       ELSE Advance("sweeping", {"remote"})
    /\ GateReads

\* The first URL that is not allowed or does not answer ends the check.
Probe ==
    /\ request.at = "probing"
    /\ LET url == Head(request.probes)
       IN  IF url \notin Allowed \cap online THEN Advance("sweeping", {"remote"})
           ELSE IF Len(request.probes) = 1 THEN Advance("sweeping", {})
           ELSE request' = [request EXCEPT !.probes = Tail(@)]
    /\ GateReads

AfterSweep == IF request.kind = "hook" THEN "deciding" ELSE "reading"

Sweep ==
    /\ request.at = "sweeping"
    /\ Advance(AfterSweep, IF Clean THEN {} ELSE {"hygiene"})
    /\ GateReads

Read ==
    /\ request.at = "reading"
    /\ Advance("deciding", IF Researched(request.args) THEN {} ELSE {"research"})
    /\ GateReads

Following == [commits |-> "index", index |-> "work", work |-> "others", others |-> "checking"]
Diffing == DOMAIN Following

\* _formal_dirty_paths: four questions, one after the other.
Diff ==
    /\ request.at \in Diffing
    /\ request' = [request EXCEPT !.formal = @ \/ Shown[request.at], !.at = Following[@]]
    /\ GateReads

\* The tests, the linter and the rest, then the hygiene of a Finish.
Check ==
    /\ request.at = "checking"
    /\ \E failed \in SUBSET {"other"} :
          Advance("rechecking", failed \cup (IF Clean THEN {} ELSE {"hygiene"}))
    /\ GateReads

\* _code_start_recheck_findings: only a formal change needs a basis.
Recheck ==
    /\ request.at = "rechecking"
    /\ IF ~request.formal THEN Advance("deciding", {})
       ELSE IF request.args.class \notin Known THEN Advance("deciding", {"unverified"})
       ELSE Advance("selecting", {})
    /\ GateReads

\* A command of Git fails or is out of time: never in favour of the caller.
GitFails ==
    /\ \/ request.at \in {"selecting", "probing"} /\ Advance("sweeping", {"other"})
       \/ request.at = "sweeping" /\ Advance(AfterSweep, {"other"})
       \/ request.at \in Diffing /\ Advance("deciding", {"other"})
    /\ GateReads

\* A Finish also asks whether memory was written or is not needed.
Decide ==
    /\ request.at = "deciding"
    /\ \E missing \in SUBSET {"other"} :
          /\ request.kind # "finish" => missing = {}
          /\ request' = [request EXCEPT !.at = "answered", !.found = @ \cup missing, !.formal = FALSE]
          /\ basis' = IF request.kind = "start" /\ request.calm /\ request.found = {}
                      THEN request.args ELSE basis
    /\ UNCHANGED <<facts, versions>>

-----------------------------------------------------------------------------
(***************************************************************************)
(* What goes on beside them.                                                *)
(***************************************************************************)
FactsMove ==
    /\ basis' = None
    /\ request' = [request EXCEPT !.calm = FALSE]
    /\ UNCHANGED versions

Reconfigure == config' \in Configs \ {config} /\ UNCHANGED <<online, tree, research>> /\ FactsMove

RemoteGoes == \E r \in Unsteady :
    /\ online' = IF r \in online THEN online \ {r} ELSE online \cup {r}
    /\ UNCHANGED <<config, tree, research>> /\ FactsMove

Litter == \E kind \in Kinds :
    /\ tree' = IF kind \in tree THEN tree \ {kind} ELSE tree \cup {kind}
    /\ UNCHANGED <<config, online, research>> /\ FactsMove

Rewrite == research' \in Research \ {research} /\ UNCHANGED <<config, online, tree>> /\ FactsMove

\* Edited, generated, staged, committed, taken back: the path moves while the gate reads.
PathMoves ==
    /\ \/ work' = 1 - work /\ UNCHANGED <<head, index>>
       \/ index' = work /\ UNCHANGED <<head, work>>
       \/ head' = index /\ UNCHANGED <<index, work>>
       \/ index' = head /\ UNCHANGED <<head, work>>
       \/ work' = index /\ UNCHANGED <<head, index>>
    /\ request' = IF request.at \in Diffing
                  THEN [request EXCEPT !.stayed = @ \cap Places(head', index', work')]
                  ELSE request
    /\ UNCHANGED <<facts, fresh, basis>>

GateGoes ==
    \/ Select \/ Probe \/ Sweep \/ Read
    \/ Diff \/ Check \/ Recheck \/ GitFails \/ Decide
StartNext ==
    \/ AskStart \/ AskHook \/ AskFinish \/ GateGoes
    \/ Reconfigure \/ RemoteGoes \/ Litter \/ Rewrite \/ PathMoves

StartSpec == StartInit /\ [][StartNext]_startVars

-----------------------------------------------------------------------------
(***************************************************************************)
(* Properties.                                                              *)
(***************************************************************************)
StartTypeOK ==
    /\ config \in Configs /\ online \subseteq Remotes /\ tree \subseteq Kinds /\ research \in Research
    /\ {head, index, work} \subseteq {0, 1} /\ fresh \in BOOLEAN
    /\ request.found \subseteq Findings
    /\ basis \in Requests \cup {None}

\* A Finish is allowed over a formal change only on the basis Code Start asks for - whether
\* the change is committed, staged, in the working tree or not tracked, and although the four
\* questions are asked one after the other.  The change must stay in one place while they
\* are (one that is staged or committed between them can be missed), and the facts of Code
\* Start must not move (the check samples them one by one).
FormalChangeIsProved ==
    (request.kind = "finish" /\ request.at = "answered" /\ request.found = {} /\ request.stayed # {})
        => /\ request.args.class \in Known
           /\ request.calm => CodeStartHolds(request.args)

\* As long as the facts stay as they are, what Start has allowed is not blocked afterwards:
\* not by the hook, unless Start was given a remote the hook cannot know of, and not by the
\* Code Start layer of a Finish with the same arguments.
StartIsKept ==
    (basis # None /\ request.at = "answered") =>
        \/ request.kind = "hook" /\ basis.remote # None
        \/ request.kind = "finish" /\ request.args # basis
        \/ request.kind \in {"start", "none"}
        \/ request.found \subseteq {"other"}
=============================================================================
