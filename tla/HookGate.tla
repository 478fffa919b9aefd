------------------------------- MODULE HookGate -------------------------------
(***************************************************************************)
(* What Codex asks before it runs a tool: the plugin's hook                 *)
(* (pre_tool_use.py), which selects and calls the runtime and stands in for *)
(* it when it does not answer; the runtime's evaluation (hook_gateway.py),  *)
(* with the resolution of a place to its checkout (config.py), the rules    *)
(* for commands and paths (authorization.py, governance_policy.py) and the  *)
(* Code Start boundary, asked once for each checkout.  Meanwhile sessions   *)
(* prepare and clean up the worktrees the call is about (Worktree) and the  *)
(* facts behind Code Start change.  Calls share nothing, so there is one.   *)
(*                                                                          *)
(* An operation is [cwd, discards, at, targets]: the place it is called in, *)
(* what it discards and in which place (-C), and the files it writes, each  *)
(* with its place and what it is there.  It discards "work" with git (reset *)
(* --hard, checkout --, clean -f, branch -D), or "volumes" with docker or   *)
(* podman (compose down -v, volume prune, system prune).  What git may do   *)
(* nowhere (push --force, update-ref -d) is work discarded in Main.  Left   *)
(* out: links, patches and redirections that cannot be read, the deletion   *)
(* of files (CleanupCheck) and the facts of Code Start (CodeStart).         *)
(***************************************************************************)
EXTENDS Worktree, Naturals, Sequences

CONSTANTS
    Main, Outside,  \* the main checkout, and a directory of no project
    Operations,     \* what Codex may be about to do
    NoCall

Places == Names \cup {Main, Outside}
Kinds == {"plain", "formal", "memory", "protected"}

ASSUME HookAssumption ==
    /\ Main \notin Names /\ Outside \notin Names /\ Main # Outside
    /\ NoCall \notin Operations
    /\ Operations \subseteq [cwd : Places, discards : {"nothing", "work", "volumes"}, at : Places,
                             targets : Seq([in : Places, kind : Kinds])]

VARIABLES
    blocked,    \* the checkouts whose formal code Code Start blocks now
    call,       \* the operation of the hook call
    stage,      \* where the call stands
    item,       \* the target it is about; 0 is the place of the call
    boundaries, \* the checkouts it has asked about and found open
    verdict,    \* the last answer: "pass" is an empty one, "failed" a denial without a
                \* finding, "notice" a context
    against,    \* the reasons that have stood since the call began (observed)
    ever        \* those that have stood at some time since (observed)

hookVars == <<call, stage, item, boundaries, verdict>>
observers == <<against, ever>>
gateVars == <<vars, blocked, hookVars, observers>>

Evaluating == {"locating", "reading", "listing", "judging", "checking", "asking"}

HookTypeOK ==
    /\ blocked \subseteq Places
    /\ call \in Operations \cup {NoCall}
    /\ stage \in {"idle", "selecting", "permitting", "refusing"} \cup Evaluating
    /\ item \in Nat
    /\ boundaries \subseteq Places
    /\ verdict \in {"none", "pass", "deny", "failed", "notice"}
    /\ against \subseteq ever

HookInit ==
    /\ Init
    /\ blocked \in SUBSET (Names \cup {Main})
    /\ call = NoCall
    /\ stage = "idle"
    /\ item = 0
    /\ boundaries = {}
    /\ verdict = "none"
    /\ against = {} /\ ever = {}

-----------------------------------------------------------------------------
(***************************************************************************)
(* What speaks against an operation, said of the places and not of the      *)
(* course of its evaluation.                                                *)
(***************************************************************************)
PlacesOf(o) == {o.cwd} \cup {o.targets[i].in : i \in DOMAIN o.targets}

\* Some target lies in p and is of the kind there.  Nobody governs the outside.
Targets(o, p, kind) ==
    p # Outside /\ \E i \in DOMAIN o.targets : o.targets[i] = [in |-> p, kind |-> kind]

Speaks(o, why, p) ==
    \/ why = "unregistered" /\ p \in PlacesOf(o) \cap Names /\ row[p] \notin {"active", "ready"}
    \/ why = "absent" /\ p \in PlacesOf(o) \cap Names /\ (dir[p] = "none" \/ tip[p] = NoBranch)
    \/ why = "discards" /\ p = o.at /\ o.discards = "work" /\ (o.cwd \notin Names \/ o.at # o.cwd)
    \/ why = "discards" /\ p = o.at /\ o.discards = "volumes"
    \/ why = "elsewhere" /\ o.cwd \in Names \ {p} /\ \E kind \in Kinds : Targets(o, p, kind)
    \/ why = "memory" /\ p \in Names /\ Targets(o, p, "memory")
    \/ why = "protected" /\ Targets(o, p, "protected")
    \/ why = "blocked" /\ p \in blocked /\ Targets(o, p, "formal")

Whys == {"unregistered", "absent", "discards", "elsewhere", "memory", "protected", "blocked"}
Reasons(o) == {r \in Whys \X (PlacesOf(o) \cup {o.at}) : Speaks(o, r[1], r[2])}

\* Conjoined to every step.
Observe ==
    IF call' = NoCall THEN against' = {} /\ ever' = {}
    ELSE /\ against' = IF call = NoCall THEN Reasons(call)' ELSE against \cap Reasons(call)'
         /\ ever' = ever \cup Reasons(call)'

-----------------------------------------------------------------------------
(***************************************************************************)
(* The plugin's hook.                                                       *)
(***************************************************************************)
To(where) == stage' = where

Ask ==
    /\ stage = "idle"
    /\ \E o \in Operations : call' = o
    /\ To("selecting")
    /\ verdict' = "none"
    /\ UNCHANGED <<vars, blocked, item, boundaries>>

Answer(v) ==
    /\ call' = NoCall
    /\ To("idle")
    /\ item' = 0
    /\ boundaries' = {}
    /\ verdict' = v
    /\ UNCHANGED <<vars, blocked>>

\* The runtime was found, has the right identity and has read the payload.
SelectRuntime ==
    /\ stage = "selecting"
    /\ To("locating")
    /\ UNCHANGED <<vars, blocked, call, item, boundaries, verdict>>

\* Everything that writes, and every command that looks as if it did.  No word of the
\* pattern is one of docker's; what is written volume rm is work discarded in Main.
Sensitive(o) == o.discards = "work" \/ o.targets # <<>>

\* The runtime is missing or another one, is late, exits with an error or answers with
\* something else: the plugin decides for itself.
StandIn ==
    /\ stage # "idle"
    /\ Answer(IF Sensitive(call) THEN "failed" ELSE "notice")

\* The answer is valid and in time.
Deliver ==
    \/ stage = "permitting" /\ Answer("pass")
    \/ stage = "refusing" /\ Answer("deny")

-----------------------------------------------------------------------------
(***************************************************************************)
(* resolve_runtime_root: for the place of the call, then for each target.   *)
(***************************************************************************)
Place == IF item = 0 THEN call.cwd ELSE call.targets[item].in

Resolved == To(IF item = 0 THEN "judging" ELSE "checking")

\* A worktree that is gone leaves a path under .worktrees of the main checkout.
Locate ==
    /\ stage = "locating"
    /\ \/ Place \notin Names /\ Resolved
       \/ Place \in Names /\ dir[Place] # "none" /\ To("reading")
       \/ Place \in Names /\ dir[Place] = "none" /\ To("refusing")
    /\ UNCHANGED <<vars, blocked, call, item, boundaries, verdict>>

\* _registered_worktree reads the rows that are active or ready ...
ReadRows ==
    /\ stage = "reading"
    /\ To(IF row[Place] \in {"active", "ready"} THEN "listing" ELSE "refusing")
    /\ UNCHANGED <<vars, blocked, call, item, boundaries, verdict>>

\* ... and then compares them with what git lists.
ListCheckouts ==
    /\ stage = "listing"
    /\ \/ dir[Place] # "none" /\ tip[Place] # NoBranch /\ Resolved
       \/ (dir[Place] = "none" \/ tip[Place] = NoBranch) /\ To("refusing")
    /\ UNCHANGED <<vars, blocked, call, item, boundaries, verdict>>

-----------------------------------------------------------------------------
(***************************************************************************)
(* The rules.                                                               *)
(***************************************************************************)

\* To the next target, or out of them.
NextTarget ==
    IF item < Len(call.targets)
    THEN item' = item + 1 /\ To("locating")
    ELSE To("permitting") /\ UNCHANGED item

\* _authorize_invocation: a registered worktree may discard work that is its own.
MayDiscard(o) == o.discards = "work" /\ o.cwd \in Names /\ o.at = o.cwd

JudgeCommand ==
    /\ stage = "judging"
    /\ IF call.discards # "nothing" /\ ~MayDiscard(call) THEN To("refusing") /\ UNCHANGED item
       ELSE NextTarget
    /\ UNCHANGED <<vars, blocked, call, boundaries, verdict>>

Target == call.targets[item]

\* Mutant: nobody writes memory but through candidates.
DeniesMemory ==
    \/ call.cwd \in Names /\ Target.in # call.cwd
    \/ Target.kind \in {"memory", "protected"}

\* A worktree writes neither another checkout nor memory, nobody a protected path.
Denies ==
    \/ call.cwd \in Names /\ Target.in # call.cwd
    \/ Target.kind = "memory" /\ Target.in \in Names
    \/ Target.kind = "protected"

\* Formal code is for the boundary of its checkout, asked for at most once.
CheckTarget ==
    /\ stage = "checking"
    /\ \/ Target.in = Outside /\ NextTarget
       \/ Target.in # Outside /\ Denies /\ To("refusing") /\ UNCHANGED item
       \/ /\ Target.in # Outside /\ ~Denies
          /\ IF Target.kind = "formal" /\ Target.in \notin boundaries
             THEN To("asking") /\ UNCHANGED item
             ELSE NextTarget
    /\ UNCHANGED <<vars, blocked, call, boundaries, verdict>>

\* Mutant: one answer counts for every checkout.
AskBoundaryOnce ==
    /\ stage = "asking"
    /\ IF Target.in \in blocked THEN To("refusing") /\ UNCHANGED <<item, boundaries>>
       ELSE NextTarget /\ boundaries' = Places
    /\ UNCHANGED <<vars, blocked, call, verdict>>

AskBoundary ==
    /\ stage = "asking"
    /\ IF Target.in \in blocked THEN To("refusing") /\ UNCHANGED <<item, boundaries>>
       ELSE NextTarget /\ boundaries' = boundaries \cup {Target.in}
    /\ UNCHANGED <<vars, blocked, call, verdict>>

\* An exception of the evaluation, or its network budget at an end, is a denial.
EvaluationFails ==
    /\ stage \in Evaluating
    /\ Answer("failed")

-----------------------------------------------------------------------------
HookStep ==
    \/ Ask \/ SelectRuntime \/ StandIn \/ Deliver
    \/ Locate \/ ReadRows \/ ListCheckouts
    \/ JudgeCommand \/ CheckTarget \/ AskBoundary \/ EvaluationFails

\* The facts of Code Start change for a checkout.
Facts ==
    /\ \E p \in Names \cup {Main} :
         blocked' = IF p \in blocked THEN blocked \ {p} ELSE blocked \cup {p}
    /\ UNCHANGED <<vars, hookVars>>

WorktreeStep == Next /\ UNCHANGED <<blocked, hookVars>>

GateNext == (HookStep \/ Facts \/ WorktreeStep) /\ Observe

GateSpec == HookInit /\ [][GateNext]_gateVars

-----------------------------------------------------------------------------
(***************************************************************************)
(* Properties.                                                              *)
(***************************************************************************)

\* "Failures must not silently permit sensitive operations" (pre_tool_use.py): whatever
\* fails, and whatever worktrees and facts do meanwhile, nothing is let through against a
\* reason that stood from the beginning of the call to its end; and what writes a file or
\* discards work is never let through by the plugin alone.  What discards volumes is: a
\* plugin without a runtime only gives a notice, against GOVERNANCE_RULES.md:42 and :48,
\* which deny it unconditionally and every destructive operation without a runtime.
LetThroughIsPermitted ==
    [][/\ verdict = "none" /\ verdict' = "pass" => against = {}
       /\ verdict = "none" /\ verdict' = "notice"
            => call.targets = <<>> /\ call.discards \in {"nothing", "volumes"}]_gateVars

\* "Never a kernel bypass", and no needless refusal either: a denial with a finding, other
\* than one for an error, had a reason at some time during the call.
DeniedHasReason == [][verdict = "none" /\ verdict' = "deny" => ever # {}]_gateVars
=============================================================================
