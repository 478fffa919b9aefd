--------------------------- MODULE FrontendApproval ---------------------------
(***************************************************************************)
(* core/gates.py, cli/mcp_server.py: the approval of a frontend design.     *)
(* approval_record reads UI_SPEC.md, digests it and the prototype, and      *)
(* writes the file back with one approval block replaced; the frontend gate *)
(* reads both files and compares.  There is no lock: several calls, edits   *)
(* and Git (a restored or merged version of UI_SPEC.md) interleave.         *)
(*                                                                          *)
(* A text is the specification without its approval blocks, up to line ends *)
(* and white space around it: what _spec_digest digests.  Nobody writes a   *)
(* block by hand.                                                           *)
(***************************************************************************)
EXTENDS Sequences, FiniteSets, Naturals

CONSTANTS
    Approvers,   \* calls of approval_record(gate = "frontend")
    Checkers,    \* calls of governance_check(stage = "frontend")
    Scopes,      \* the scopes approvals are asked for
    Asked,       \* the scopes the gate is asked for
    Texts,
    DefaultText, \* "# UI Spec"
    Prototypes,
    Missing,     \* there is no such file
    MaxReviews   \* bound: no approval is asked for when so many are recorded

ASSUME FrontendAssumption ==
    /\ DefaultText \in Texts
    /\ MaxReviews \in Nat
    /\ Missing \notin Texts \cup Prototypes \cup Scopes \cup Asked

VARIABLES
    spec,      \* docs/design/UI_SPEC.md
    prototype, \* docs/design/PROTOTYPE.html
    approver,  \* per call: where it stands, what it was given, what it has read
    checker,   \* per call: the same
    reviewed,  \* history: what approving calls have recorded
    latest     \* history: {the decision recorded last}, or {} when a file has been changed since

files == <<spec, prototype>>
frontendVars == <<files, approver, checker, reviewed, latest>>

\* What an approval block holds; of a rejection nothing else is ever looked at.
Approvals == [scope : Scopes, text : Texts, prototype : Prototypes \cup {Missing}]
Rejection == [scope |-> Missing, text |-> Missing, prototype |-> Missing]
Specs == [text : Texts, blocks : Seq(Approvals \cup {Rejection})]

ASSUME MissingIsNoSpec == Missing \notin Specs

FrontendInit ==
    /\ spec \in {Missing, [text |-> DefaultText, blocks |-> <<>>]}
    /\ prototype \in Prototypes \cup {Missing}
    /\ approver = [c \in Approvers |-> [at |-> "idle"]]
    /\ checker = [g \in Checkers |-> [at |-> "idle"]]
    /\ reviewed = {}
    /\ latest = {}

\* Mutant: nothing takes the place of a specification that is missing.
TextOrNothing(read) == IF read = Missing THEN Missing ELSE read.text

TextOf(read) == IF read = Missing THEN DefaultText ELSE read.text
BlocksOf(read) == IF read = Missing THEN <<>> ELSE read.blocks

Answer(calls, c) == [calls EXCEPT ![c] = [at |-> "idle"]]

-----------------------------------------------------------------------------
(***************************************************************************)
(* approval_record.                                                         *)
(***************************************************************************)
\* The first block is going to be replaced; the text and other blocks are written back.
\* Only an approval looks at the files again, and at the prototype.
ReadText(c) ==
    /\ approver[c].at = "idle"
    /\ LET text == TextOf(spec)
           rest == IF BlocksOf(spec) = <<>> THEN <<>> ELSE Tail(BlocksOf(spec))
       IN  \/ /\ Cardinality(reviewed) < MaxReviews
              /\ \E s \in Scopes : approver' = [approver EXCEPT ![c] =
                    [at |-> "checking", scope |-> s, text |-> text, rest |-> rest]]
           \/ approver' = [approver EXCEPT ![c] =
                    [at |-> "replacing", text |-> text, rest |-> rest, block |-> Rejection]]
    /\ UNCHANGED <<files, checker, reviewed, latest>>

CheckFiles(c) ==
    /\ approver[c].at = "checking"
    /\ approver' = IF Missing \in {spec, prototype} THEN Answer(approver, c)
                   ELSE [approver EXCEPT ![c].at = "digesting"]
    /\ UNCHANGED <<files, checker, reviewed, latest>>

\* The digests are of the text that was read, and of the prototype as it is now.
DigestPrototype(c) ==
    /\ approver[c].at = "digesting"
    /\ approver' = [approver EXCEPT ![c] =
          [at |-> "replacing", text |-> @.text, rest |-> @.rest,
           block |-> [scope |-> @.scope, text |-> @.text, prototype |-> prototype]]]
    /\ UNCHANGED <<files, checker, reviewed, latest>>

\* What is decided from now on: nothing, if a merge has left a second block in the text that
\* was read, or if the prototype that was approved is no longer there.
Decision(call) ==
    IF call.rest # <<>> THEN {}
    ELSE IF call.block = Rejection THEN {Rejection}
    ELSE IF prototype = call.block.prototype /\ prototype # Missing THEN {call.block} ELSE {}

Write(c, blocks) ==
    /\ approver[c].at = "replacing"
    /\ LET call == approver[c]
       IN  /\ spec' = [text |-> call.text, blocks |-> <<call.block>> \o blocks]
           /\ reviewed' = reviewed \cup ({call.block} \ {Rejection})
           /\ latest' = Decision(call)
    /\ approver' = Answer(approver, c)
    /\ UNCHANGED <<prototype, checker>>

\* Mutant: the block goes before the one that is there.
ReplaceNothing(c) == Write(c, BlocksOf(spec))

\* The whole file is written, so what was edited since it was read is gone.  The row that
\* follows is an index: when it fails there is a warning and the call succeeds.
Replace(c) == Write(c, approver[c].rest)

\* A read or the write fails, or the process dies: the file is as it was.
ApprovalFails(c) ==
    /\ approver[c].at \in {"checking", "digesting", "replacing"}
    /\ approver' = Answer(approver, c)
    /\ UNCHANGED <<files, checker, reviewed, latest>>

-----------------------------------------------------------------------------
(***************************************************************************)
(* evaluate_frontend, for an impact that needs an approval; any other is    *)
(* allowed without a look at the files.                                     *)
(***************************************************************************)
\* The one block there is approves this scope and this text.
BlockMatches(read, s) ==
    /\ read # Missing
    /\ Len(read.blocks) = 1
    /\ LET block == read.blocks[1] IN block.scope = s /\ block.text = read.text

\* _frontend_approval_fact, for the files as they are.
Fact(s) == BlockMatches(spec, s) /\ prototype \in {spec.blocks[1].prototype} \ {Missing}

\* A missing file is a finding of its own and blocks, whatever is read later.
Look(g) ==
    /\ checker[g].at \in {"idle", "answered"}
    /\ IF Missing \in {spec, prototype}
       THEN checker' = Answer(checker, g)
       ELSE \E s \in Asked : checker' = [checker EXCEPT ![g] = [at |-> "reading", scope |-> s]]
    /\ UNCHANGED <<files, approver, reviewed, latest>>

ReadSpec(g) ==
    /\ checker[g].at = "reading"
    /\ checker' = IF BlockMatches(spec, checker[g].scope)
                  THEN [checker EXCEPT ![g] = [at |-> "comparing", scope |-> @.scope, text |-> spec.text,
                                               digest |-> spec.blocks[1].prototype]]
                  ELSE Answer(checker, g)
    /\ UNCHANGED <<files, approver, reviewed, latest>>

\* Mutant: any prototype will do.
CompareNothing(g) ==
    /\ checker[g].at = "comparing"
    /\ checker' = IF prototype # Missing
                  THEN [checker EXCEPT ![g] = [at |-> "answered", scope |-> @.scope, text |-> @.text,
                                               prototype |-> prototype]]
                  ELSE Answer(checker, g)
    /\ UNCHANGED <<files, approver, reviewed, latest>>

\* The answer "allowed" is kept, with what it is about.
Compare(g) ==
    /\ checker[g].at = "comparing"
    /\ checker' = IF prototype \in {checker[g].digest} \ {Missing}
                  THEN [checker EXCEPT ![g] = [at |-> "answered", scope |-> @.scope, text |-> @.text,
                                               prototype |-> prototype]]
                  ELSE Answer(checker, g)
    /\ UNCHANGED <<files, approver, reviewed, latest>>

-----------------------------------------------------------------------------
(***************************************************************************)
(* People, their editors and Git.                                           *)
(***************************************************************************)
EditSpec ==
    /\ \/ spec' = Missing
       \/ \E t \in Texts : spec' = [text |-> t, blocks |-> BlocksOf(spec)]
    /\ spec' # spec
    /\ latest' = {}
    /\ UNCHANGED <<prototype, approver, checker, reviewed>>

EditPrototype ==
    /\ prototype' \in (Prototypes \cup {Missing}) \ {prototype}
    /\ latest' = {}
    /\ UNCHANGED <<spec, approver, checker, reviewed>>

\* Git brings back a version of the file with the block it had then, or one from before.
RestoreSpec ==
    /\ \E t \in Texts, blocks \in {<<>>} \cup {<<approval>> : approval \in reviewed} :
          spec' = [text |-> t, blocks |-> blocks]
    /\ latest' = {}
    /\ UNCHANGED <<prototype, approver, checker, reviewed>>

\* A merge keeps the approval blocks of both sides.
MergeSpec ==
    /\ spec # Missing /\ Len(spec.blocks) = 1
    /\ \E approval \in reviewed : spec' = [spec EXCEPT !.blocks = Append(@, approval)]
    /\ latest' = {}
    /\ UNCHANGED <<prototype, approver, checker, reviewed>>

ApproverStep(c) ==
    \/ ReadText(c) \/ CheckFiles(c) \/ DigestPrototype(c)
    \/ Replace(c) \/ ApprovalFails(c)
CheckerStep(g) == Look(g) \/ ReadSpec(g) \/ Compare(g)
FilesChange == EditSpec \/ EditPrototype \/ RestoreSpec \/ MergeSpec

FrontendNext ==
    \/ \E c \in Approvers : ApproverStep(c)
    \/ \E g \in Checkers : CheckerStep(g)
    \/ FilesChange

FrontendSpec == FrontendInit /\ [][FrontendNext]_frontendVars

-----------------------------------------------------------------------------
(***************************************************************************)
(* Properties.                                                              *)
(***************************************************************************)
FrontendTypeOK ==
    /\ spec \in Specs \cup {Missing}
    /\ prototype \in Prototypes \cup {Missing}
    /\ reviewed \subseteq Approvals
    /\ latest \subseteq Approvals \cup {Rejection}

\* The gate allows a frontend only for a scope, a specification and a prototype that one
\* approval has recorded together - although it reads the two files one after the other,
\* the approval does too, and Git brings back older files with older blocks
\* (_frontend_approval_fact, write_frontend_approval).
ApprovedWasReviewed ==
    \A g \in Checkers : checker[g].at = "answered" =>
        \E approval \in reviewed :
            /\ approval.scope = checker[g].scope
            /\ approval.text = checker[g].text
            /\ approval.prototype = checker[g].prototype

\* As long as nobody touches the files, what was recorded last decides, whichever of two
\* approvals began first: a rejection blocks every scope at once, an approval allows its own
\* scope and no other, and no earlier approval is left beside it.  It asks that the text that
\* was read had one approval block at most: of two only the first is replaced, and the gate
\* refuses both.
LatestDecisionCounts ==
    \A decision \in latest, s \in Asked : Fact(s) <=> decision.scope = s
=============================================================================
