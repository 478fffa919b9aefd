----------------------------- MODULE GatesProofs -----------------------------
(***************************************************************************)
(* The two gates with a state of their own, for any number of approvals and *)
(* checks under way, any texts and prototypes, any remotes, configurations, *)
(* documents and arguments.                                                 *)
(*                                                                          *)
(* FrontendApproval: whatever block lies in the file, or is on its way      *)
(* through a call, has been recorded by an approval; and the last decision  *)
(* is the only block there is as long as nobody touches the files.          *)
(*                                                                          *)
(* CodeStart: what a call has established when it arrives at a place, if it *)
(* has found nothing so far.                                                *)
(***************************************************************************)
EXTENDS Gates, SequenceTheorems, TLAPS

-----------------------------------------------------------------------------
(***************************************************************************)
(* The frontend approval.                                                   *)
(***************************************************************************)
Blocks == Approvals \cup {Rejection}
Files == Prototypes \cup {Missing}
Idle == [at |-> "idle"]

\* Where an approval may stand, with what it has read and is going to write.
ApproverCalls ==
    {Idle}
    \cup [at : {"checking", "digesting"}, scope : Scopes, text : Texts, rest : Seq(Blocks)]
    \cup [at : {"replacing"}, text : Texts, rest : Seq(Blocks), block : Blocks]

\* Where a check of the gate may stand, with what it has read.
CheckerCalls ==
    {Idle}
    \cup [at : {"reading"}, scope : Asked]
    \cup [at : {"comparing"}, scope : Asked, text : Texts, digest : Files]
    \cup [at : {"answered"}, scope : Asked, text : Texts, prototype : Files]

\* The blocks of a sequence have been recorded.
Recorded(s) == \A i \in 1 .. Len(s) : s[i] \in reviewed \cup {Rejection}

\* Some approval has recorded these together.
Reviewed(scope, text, p) ==
    \E approval \in reviewed : approval.scope = scope /\ approval.text = text /\ approval.prototype = p

\* The block an approval is going to write is about the text it writes.
Writes(call) ==
    /\ call.at # "idle" => Recorded(call.rest)
    /\ call.at = "replacing" /\ call.block # Rejection => call.block.text = call.text

Claims(call) ==
    /\ call.at = "comparing" => Reviewed(call.scope, call.text, call.digest)
    /\ call.at = "answered" => Reviewed(call.scope, call.text, call.prototype)

\* The decision recorded last is in the file, alone, and about the files as they are.
Decided(d) ==
    /\ spec # Missing /\ spec.blocks = <<d>>
    /\ d = Rejection \/ (d.text = spec.text /\ d.prototype = prototype /\ prototype # Missing)

FrontendInv ==
    /\ FrontendTypeOK
    /\ approver \in [Approvers -> ApproverCalls]
    /\ checker \in [Checkers -> CheckerCalls]
    /\ Recorded(BlocksOf(spec))
    /\ \A c \in Approvers : Writes(approver[c])
    /\ \A g \in Checkers : Claims(checker[g])
    /\ \A d \in latest : Decided(d)

\* What a file that may be missing is read as.
LEMMA ReadsAs ==
    ASSUME FrontendInv
    PROVE  TextOf(spec) \in Texts /\ BlocksOf(spec) \in Seq(Blocks)
  BY FrontendAssumption DEF FrontendInv, FrontendTypeOK, TextOf, BlocksOf, Specs, Blocks

\* Without the first block.
LEMMA TailRecorded ==
    ASSUME NEW s \in Seq(Blocks), s # <<>>, Recorded(s)
    PROVE  Tail(s) \in Seq(Blocks) /\ Recorded(Tail(s))
  <1>1. Tail(s) \in Seq(Blocks) /\ Len(Tail(s)) = Len(s) - 1
        /\ \A i \in 1 .. Len(Tail(s)) : Tail(s)[i] = s[i + 1]
    BY HeadTailProperties
  <1>2. Len(s) \in Nat
    BY LenProperties
  <1> QED
    BY <1>1, <1>2 DEF Recorded

\* A block before others: it comes first, and alone if there was none.
LEMMA PutFirst ==
    ASSUME NEW s \in Seq(Blocks), NEW b \in Blocks
    PROVE  /\ <<b>> \o s \in Seq(Blocks)
           /\ Recorded(s) => \A i \in 1 .. Len(<<b>> \o s) :
                               (<<b>> \o s)[i] \in reviewed \cup {Rejection} \cup {b}
           /\ s = <<>> => <<b>> \o s = <<b>>
  <1>1. <<b>> \in Seq(Blocks) /\ Len(<<b>>) = 1 /\ <<b>>[1] = b
    OBVIOUS
  <1>2. <<b>> \o s \in Seq(Blocks) /\ Len(<<b>> \o s) = 1 + Len(s)
        /\ \A i \in 1 .. 1 + Len(s) : (<<b>> \o s)[i] = IF i <= 1 THEN <<b>>[i] ELSE s[i - 1]
    BY <1>1, ConcatProperties
  <1>3. Len(s) \in Nat
    BY LenProperties
  <1>4. s = <<>> => <<b>> \o s = <<b>>
    BY <1>1, ConcatEmptySeq
  <1> QED
    BY <1>1, <1>2, <1>3, <1>4 DEF Recorded

\* No file, no call, no decision.
LEMMA InitFrontend == FrontendInit => FrontendInv
  <1> SUFFICES ASSUME FrontendInit PROVE FrontendInv
    OBVIOUS
  <1>1. [text |-> DefaultText, blocks |-> <<>>] \in Specs
    BY FrontendAssumption, EmptySeq DEF Specs
  <1>0. FrontendTypeOK
    BY <1>1 DEF FrontendInit, FrontendTypeOK
  <1>2. approver \in [Approvers -> ApproverCalls] /\ checker \in [Checkers -> CheckerCalls]
    BY DEF FrontendInit, ApproverCalls, CheckerCalls, Idle
  <1>3. Recorded(BlocksOf(spec))
    BY DEF FrontendInit, Recorded, BlocksOf
  <1>4. /\ \A c \in Approvers : Writes(approver[c])
        /\ \A g \in Checkers : Claims(checker[g])
        /\ \A d \in latest : Decided(d)
    BY DEF FrontendInit, Writes, Claims
  <1> QED
    BY <1>0, <1>2, <1>3, <1>4 DEF FrontendInv

-----------------------------------------------------------------------------
\* What is said of the calls stays true when the records only grow.
LEMMA RecordsGrow ==
    ASSUME reviewed \subseteq reviewed'
    PROVE  /\ \A s : Recorded(s) => Recorded(s)'
           /\ \A call : Writes(call) => Writes(call)'
           /\ \A call : Claims(call) => Claims(call)'
  BY DEF Recorded, Writes, Claims, Reviewed

\* A step that writes nothing only has to say where its call goes.
LEMMA NothingWritten ==
    ASSUME FrontendInv, UNCHANGED <<files, reviewed, latest>>,
           approver' \in [Approvers -> ApproverCalls], checker' \in [Checkers -> CheckerCalls],
           \A c \in Approvers : approver'[c] = approver[c] \/ Writes(approver'[c]),
           \A g \in Checkers : checker'[g] = checker[g] \/ Claims(checker'[g])
    PROVE  FrontendInv'
  <1> USE DEF FrontendInv, files
  <1>1. FrontendTypeOK' /\ \A d \in latest' : Decided(d)'
    BY DEF FrontendTypeOK, Decided
  <1>2. Recorded(BlocksOf(spec))'
    BY DEF BlocksOf, Recorded
  <1>3. \A c \in Approvers : Writes(approver[c])'
    BY DEF Writes, Recorded
  <1>4. \A g \in Checkers : Claims(checker[g])'
    BY DEF Claims, Reviewed
  <1> QED
    BY <1>1, <1>2, <1>3, <1>4

\* An approval that reads, digests or gives up goes where it may be.
LEMMA ApproverReads ==
    ASSUME FrontendInv, NEW c \in Approvers,
           ReadText(c) \/ CheckFiles(c) \/ DigestPrototype(c) \/ ApprovalFails(c)
    PROVE  FrontendInv'
  <1> USE DEF FrontendInv
  <1>1. /\ UNCHANGED <<files, checker, reviewed, latest>>
        /\ \E call \in ApproverCalls : Writes(call) /\ approver' = [approver EXCEPT ![c] = call]
    <2>1. Idle \in ApproverCalls /\ Writes(Idle)
      BY DEF ApproverCalls, Writes, Idle
    <2>2. approver[c] \in ApproverCalls /\ Writes(approver[c])
      OBVIOUS
    <2>3. CASE ReadText(c)
      <3> DEFINE rest == IF BlocksOf(spec) = <<>> THEN <<>> ELSE Tail(BlocksOf(spec))
      <3>1. TextOf(spec) \in Texts /\ rest \in Seq(Blocks) /\ Recorded(rest)
        BY ReadsAs, TailRecorded, EmptySeq DEF Recorded
      <3> HIDE DEF rest
      <3>2. \A s \in Scopes :
              LET call == [at |-> "checking", scope |-> s, text |-> TextOf(spec), rest |-> rest]
              IN  call \in ApproverCalls /\ Writes(call)
        BY <3>1 DEF ApproverCalls, Writes
      <3>3. LET call == [at |-> "replacing", text |-> TextOf(spec), rest |-> rest, block |-> Rejection]
            IN  call \in ApproverCalls /\ Writes(call)
        BY <3>1 DEF ApproverCalls, Writes, Blocks
      <3>4. \/ \E s \in Scopes : approver' = [approver EXCEPT ![c] =
                  [at |-> "checking", scope |-> s, text |-> TextOf(spec), rest |-> rest]]
            \/ approver' = [approver EXCEPT ![c] =
                  [at |-> "replacing", text |-> TextOf(spec), rest |-> rest, block |-> Rejection]]
        BY <2>3 DEF ReadText, rest
      <3> QED
        BY <2>3, <3>2, <3>3, <3>4 DEF ReadText
    <2>4. CASE CheckFiles(c)
      <3>1. [approver[c] EXCEPT !.at = "digesting"] \in ApproverCalls
            /\ Writes([approver[c] EXCEPT !.at = "digesting"])
        BY <2>2, <2>4 DEF CheckFiles, ApproverCalls, Writes, Idle
      <3> QED
        BY <2>1, <2>4, <3>1 DEF CheckFiles, Answer, Idle
    <2>5. CASE DigestPrototype(c)
      <3> DEFINE call == [at |-> "replacing", text |-> approver[c].text, rest |-> approver[c].rest,
                          block |-> [scope |-> approver[c].scope, text |-> approver[c].text,
                                     prototype |-> prototype]]
      <3>1. /\ approver[c].text \in Texts /\ approver[c].rest \in Seq(Blocks)
            /\ approver[c].scope \in Scopes /\ Recorded(approver[c].rest)
        BY <2>2, <2>5 DEF DigestPrototype, ApproverCalls, Writes, Idle
      <3>2. call \in ApproverCalls /\ Writes(call)
        BY <3>1 DEF ApproverCalls, Writes, Blocks, Approvals, FrontendTypeOK
      <3> QED
        BY <2>5, <3>2 DEF DigestPrototype
    <2>6. CASE ApprovalFails(c)
      BY <2>1, <2>6 DEF ApprovalFails, Answer, Idle
    <2> QED
      BY <2>3, <2>4, <2>5, <2>6
  <1>2. PICK call \in ApproverCalls : Writes(call) /\ approver' = [approver EXCEPT ![c] = call]
    BY <1>1
  <1>3. approver' \in [Approvers -> ApproverCalls]
        /\ \A a \in Approvers : approver'[a] = approver[a] \/ Writes(approver'[a])
    BY <1>2
  <1>4. checker' = checker
    BY <1>1
  <1> QED
    BY <1>1, <1>3, <1>4, NothingWritten

\* A check claims nothing that was not recorded: the block it has read was, and is no rejection.
LEMMA CheckerReads ==
    ASSUME FrontendInv, NEW g \in Checkers, CheckerStep(g)
    PROVE  FrontendInv'
  <1> USE DEF FrontendInv
  <1>1. /\ UNCHANGED <<files, approver, reviewed, latest>>
        /\ \E call \in CheckerCalls : Claims(call) /\ checker' = [checker EXCEPT ![g] = call]
    <2>1. Idle \in CheckerCalls /\ Claims(Idle)
      BY DEF CheckerCalls, Claims, Idle
    <2>2. checker[g] \in CheckerCalls /\ Claims(checker[g])
      OBVIOUS
    <2>3. CASE Look(g)
      <3>1. \A s \in Asked : [at |-> "reading", scope |-> s] \in CheckerCalls
                            /\ Claims([at |-> "reading", scope |-> s])
        BY DEF CheckerCalls, Claims
      <3> QED
        BY <2>1, <2>3, <3>1 DEF Look, Answer, Idle
    <2>4. CASE ReadSpec(g)
      <3>1. CASE ~BlockMatches(spec, checker[g].scope)
        BY <2>1, <2>4, <3>1 DEF ReadSpec, Answer, Idle
      <3>2. CASE BlockMatches(spec, checker[g].scope)
        <4> DEFINE call == [at |-> "comparing", scope |-> checker[g].scope, text |-> spec.text,
                            digest |-> spec.blocks[1].prototype]
        <4>1. checker[g].scope \in Asked
          BY <2>2, <2>4 DEF ReadSpec, CheckerCalls, Idle
        <4>2. spec.blocks[1] \in reviewed \cup {Rejection} /\ spec.text \in Texts
          BY <3>2 DEF BlockMatches, BlocksOf, Recorded, FrontendTypeOK, Specs
        <4>3. spec.blocks[1] \in reviewed
          BY <3>2, <4>1, <4>2, FrontendAssumption DEF BlockMatches, Rejection
        <4>4. Reviewed(call.scope, call.text, call.digest) /\ call.digest \in Files
          BY <3>2, <4>3 DEF BlockMatches, Reviewed, FrontendTypeOK, Approvals, Files
        <4>5. call \in CheckerCalls /\ Claims(call)
          BY <4>1, <4>2, <4>4 DEF CheckerCalls, Claims
        <4> QED
          BY <2>4, <3>2, <4>5 DEF ReadSpec
      <3> QED
        BY <3>1, <3>2
    <2>5. CASE Compare(g)
      <3> DEFINE call == [at |-> "answered", scope |-> checker[g].scope, text |-> checker[g].text,
                          prototype |-> prototype]
      <3>1. /\ checker[g].scope \in Asked /\ checker[g].text \in Texts
            /\ Reviewed(checker[g].scope, checker[g].text, checker[g].digest)
        BY <2>2, <2>5 DEF Compare, CheckerCalls, Claims, Idle
      <3>2. prototype = checker[g].digest => call \in CheckerCalls /\ Claims(call)
        BY <3>1 DEF CheckerCalls, Claims, FrontendTypeOK, Files
      <3> QED
        BY <2>1, <2>5, <3>2 DEF Compare, Answer, Idle
    <2> QED
      BY <2>3, <2>4, <2>5 DEF CheckerStep
  <1>2. PICK call \in CheckerCalls : Claims(call) /\ checker' = [checker EXCEPT ![g] = call]
    BY <1>1
  <1>3. checker' \in [Checkers -> CheckerCalls]
        /\ \A h \in Checkers : checker'[h] = checker[h] \/ Claims(checker'[h])
    BY <1>2
  <1>4. approver' = approver
    BY <1>1
  <1> QED
    BY <1>1, <1>3, <1>4, NothingWritten

\* The block that is written is recorded with it, and decides if it is alone.
LEMMA ApproverWrites ==
    ASSUME FrontendInv, NEW c \in Approvers, Replace(c)
    PROVE  FrontendInv'
  <1>0. PICK call, blocks : call = approver[c] /\ blocks = <<call.block>> \o call.rest
    OBVIOUS
  <1>1. /\ call.text \in Texts /\ call.rest \in Seq(Blocks) /\ call.block \in Blocks
        /\ Recorded(call.rest) /\ (call.block # Rejection => call.block.text = call.text)
    <2>1. call \in ApproverCalls /\ Writes(call) /\ call.at = "replacing"
      BY <1>0 DEF FrontendInv, Replace, Write
    <2>2. call \in [at : {"replacing"}, text : Texts, rest : Seq(Blocks), block : Blocks]
      BY <2>1 DEF ApproverCalls, Idle
    <2> QED
      BY <2>1, <2>2 DEF Writes
  <1>2. /\ spec' = [text |-> call.text, blocks |-> blocks]
        /\ reviewed' = reviewed \cup ({call.block} \ {Rejection})
        /\ latest' = Decision(call) /\ approver' = [approver EXCEPT ![c] = Idle]
        /\ prototype' = prototype /\ checker' = checker
    BY <1>0 DEF Replace, Write, Answer, Idle
  <1>3. /\ blocks \in Seq(Blocks)
        /\ \A i \in 1 .. Len(blocks) : blocks[i] \in reviewed \cup {Rejection} \cup {call.block}
        /\ call.rest = <<>> => blocks = <<call.block>>
    BY <1>0, <1>1, PutFirst
  <1>4. spec' \in Specs /\ spec' # Missing
    BY <1>1, <1>2, <1>3, MissingIsNoSpec DEF Specs, Blocks
  <1>5. reviewed' \subseteq Approvals /\ reviewed \subseteq reviewed'
    BY <1>1, <1>2 DEF Blocks, FrontendInv, FrontendTypeOK
  <1>6. latest' \subseteq Blocks /\ \A d \in latest' : Decided(d)'
    <2>1. \A d \in latest' :
            /\ d = call.block /\ call.rest = <<>>
            /\ d = Rejection \/ (prototype = d.prototype /\ prototype # Missing)
      BY <1>2 DEF Decision
    <2>2. ASSUME NEW d \in latest' PROVE Decided(d)'
      <3>1. spec'.blocks = blocks /\ spec'.text = call.text
        BY <1>2
      <3>2. blocks = <<d>>
        BY <1>3, <2>1
      <3>3. d = Rejection \/ (d.text = call.text /\ d.prototype = prototype /\ prototype # Missing)
        BY <1>1, <2>1
      <3> QED
        BY <1>2, <1>4, <3>1, <3>2, <3>3 DEF Decided
    <2> QED
      BY <1>1, <2>1, <2>2
  <1>7. FrontendTypeOK'
    BY <1>2, <1>4, <1>5, <1>6 DEF FrontendInv, FrontendTypeOK, Blocks
  <1>8. Recorded(BlocksOf(spec))'
    BY <1>2, <1>3, <1>4 DEF BlocksOf, Recorded
  <1>9. approver' \in [Approvers -> ApproverCalls] /\ \A a \in Approvers : Writes(approver[a])'
    <2>1. Idle \in ApproverCalls /\ Writes(Idle)'
      BY DEF ApproverCalls, Writes, Idle
    <2>2. \A a \in Approvers : Writes(approver[a]) => (a # c => Writes(approver[a])')
      BY <1>2, <1>5 DEF Writes, Recorded
    <2> QED
      BY <1>2, <2>1, <2>2 DEF FrontendInv, Writes
  <1>10. checker' \in [Checkers -> CheckerCalls] /\ \A g \in Checkers : Claims(checker[g])'
    BY <1>2, <1>5 DEF FrontendInv, Claims, Reviewed
  <1> QED
    BY <1>6, <1>7, <1>8, <1>9, <1>10 DEF FrontendInv

\* People and Git bring blocks into the file that were recorded, and nothing is decided.
LEMMA FilesMove ==
    ASSUME FrontendInv, FilesChange
    PROVE  FrontendInv'
  <1> USE DEF FrontendInv
  <1>1. /\ UNCHANGED <<approver, checker, reviewed>> /\ latest' = {}
        /\ prototype' \in Files
        /\ spec' \in Specs \cup {Missing} /\ Recorded(BlocksOf(spec'))
    <2>1. CASE EditSpec
      <3>1. CASE spec' = Missing
        BY <2>1, <3>1 DEF EditSpec, BlocksOf, Recorded, FrontendTypeOK, Files
      <3>2. ASSUME NEW t \in Texts, spec' = [text |-> t, blocks |-> BlocksOf(spec)]
            PROVE  spec' \in Specs /\ Recorded(BlocksOf(spec'))
        <4>1. spec' \in Specs
          BY <3>2, ReadsAs DEF Specs, Blocks
        <4> QED
          BY <3>2, <4>1, MissingIsNoSpec DEF BlocksOf
      <3> QED
        BY <2>1, <3>1, <3>2 DEF EditSpec, FrontendTypeOK, Files
    <2>2. CASE EditPrototype
      BY <2>2 DEF EditPrototype, FrontendTypeOK, Files
    <2>3. CASE RestoreSpec
      <3>1. PICK t \in Texts, blocks \in {<<>>} \cup {<<approval>> : approval \in reviewed} :
              spec' = [text |-> t, blocks |-> blocks]
        BY <2>3 DEF RestoreSpec
      <3>2. blocks \in Seq(Blocks) /\ Recorded(blocks)
        <4>1. CASE blocks = <<>>
          BY <4>1 DEF Recorded
        <4>2. ASSUME NEW approval \in reviewed, blocks = <<approval>>
              PROVE  blocks \in Seq(Blocks) /\ Recorded(blocks)
          <5>1. approval \in Blocks
            BY DEF Blocks, FrontendTypeOK
          <5>2. Len(blocks) = 1 /\ blocks[1] = approval
            BY <4>2
          <5> QED
            BY <4>2, <5>1, <5>2 DEF Recorded
        <4> QED
          BY <3>1, <4>1, <4>2
      <3>3. spec' \in Specs
        BY <3>1, <3>2 DEF Specs, Blocks
      <3> QED
        BY <2>3, <3>1, <3>2, <3>3, MissingIsNoSpec DEF RestoreSpec, BlocksOf, FrontendTypeOK, Files
    <2>4. CASE MergeSpec
      <3>1. PICK approval \in reviewed : spec' = [spec EXCEPT !.blocks = Append(@, approval)]
        BY <2>4 DEF MergeSpec
      <3>2. spec \in Specs /\ spec.blocks \in Seq(Blocks) /\ Recorded(spec.blocks) /\ approval \in Blocks
        BY <2>4 DEF MergeSpec, FrontendTypeOK, Specs, BlocksOf, Blocks
      <3>3. Append(spec.blocks, approval) \in Seq(Blocks) /\ Recorded(Append(spec.blocks, approval))
        BY <3>2, AppendProperties, LenProperties DEF Recorded
      <3>4. spec' \in Specs /\ spec'.blocks = Append(spec.blocks, approval)
        BY <3>1, <3>2, <3>3 DEF Specs, Blocks
      <3> QED
        BY <2>4, <3>3, <3>4, MissingIsNoSpec DEF MergeSpec, BlocksOf, FrontendTypeOK, Files
    <2> QED
      BY <2>1, <2>2, <2>3, <2>4 DEF FilesChange
  <1>2. Recorded(BlocksOf(spec))'
    BY <1>1 DEF Recorded, BlocksOf
  <1>3. FrontendTypeOK'
    BY <1>1 DEF FrontendTypeOK, Files
  <1>4. \A c \in Approvers : Writes(approver[c])'
    BY <1>1 DEF Writes, Recorded
  <1>5. \A g \in Checkers : Claims(checker[g])'
    BY <1>1 DEF Claims, Reviewed
  <1> QED
    BY <1>1, <1>2, <1>3, <1>4, <1>5

\* Every reachable state of the files and the calls satisfies the inductive invariant.
THEOREM FrontendInvariance == FrontendSpec => []FrontendInv
  <1>1. FrontendInv /\ [FrontendNext]_frontendVars => FrontendInv'
    <2> SUFFICES ASSUME FrontendInv, [FrontendNext]_frontendVars PROVE FrontendInv'
      OBVIOUS
    <2>1. ASSUME NEW c \in Approvers, ApproverStep(c) PROVE FrontendInv'
      BY <2>1, ApproverReads, ApproverWrites DEF ApproverStep
    <2>2. CASE UNCHANGED frontendVars
      BY <2>2, NothingWritten DEF frontendVars, FrontendInv
    <2> QED
      BY <2>1, <2>2, CheckerReads, FilesMove DEF FrontendNext
  <1> QED
    BY <1>1, InitFrontend, PTL DEF FrontendSpec

\* The gate allows only what one approval has recorded together, however many approvals,
\* checks, edits and restored files come between the two reads of each.
THEOREM AllowedWasReviewed == FrontendSpec => []ApprovedWasReviewed
  <1>1. FrontendInv => ApprovedWasReviewed
    BY DEF FrontendInv, Claims, Reviewed, ApprovedWasReviewed
  <1> QED
    BY <1>1, FrontendInvariance, PTL

\* What was recorded last decides for every scope that may be asked for, as long as nobody
\* touches the files.
THEOREM LastDecides == FrontendSpec => []LatestDecisionCounts
  <1>1. FrontendInv => LatestDecisionCounts
    <2> SUFFICES ASSUME FrontendInv, NEW d \in latest, NEW s \in Asked
                 PROVE  Fact(s) <=> d.scope = s
      BY DEF LatestDecisionCounts
    <2>1. Decided(d) /\ s # Missing
      BY FrontendAssumption DEF FrontendInv
    <2>2. Len(spec.blocks) = 1 /\ spec.blocks[1] = d
      BY <2>1 DEF Decided
    <2>3. CASE d = Rejection
      BY <2>1, <2>2, <2>3 DEF Fact, BlockMatches, Rejection
    <2>4. CASE d # Rejection
      BY <2>1, <2>2, <2>4 DEF Fact, BlockMatches, Decided
    <2> QED
      BY <2>3, <2>4
  <1> QED
    BY <1>1, FrontendInvariance, PTL

-----------------------------------------------------------------------------
(***************************************************************************)
(* Code Start.                                                              *)
(***************************************************************************)
Questions == {"commits", "index", "work", "others"}
Proving == {"selecting", "probing", "sweeping", "reading", "deciding"}

Calls ==
    [kind : {"none", "start", "hook", "finish"},
     at : {"answered", "checking", "rechecking"} \cup Questions \cup Proving,
     args : Requests \cup {None}, found : SUBSET Findings, calm : BOOLEAN,
     probes : Seq(Remotes), formal : BOOLEAN, stayed : SUBSET {"commits", "index", "work"}]

CallTypes == StartTypeOK /\ request \in Calls

\* Which kind of call can be where.
Fits ==
    /\ request.at \in Questions \cup {"checking", "rechecking"} => request.kind = "finish"
    /\ request.at = "reading" => request.kind # "hook"
    /\ request.at # "answered" => request.kind # "none"
    /\ request.kind \in {"start", "finish"} => request.args \in Requests
    /\ request.kind = "start" /\ request.at # "answered" => request.args.class \in Known
    /\ request.kind = "finish" /\ request.at \in Proving /\ request.found = {} /\ request.formal
         => request.args.class \in Known
    /\ request.kind = "finish" /\ request.at \in Proving \ {"deciding"} => request.formal
    /\ request.formal => request.kind = "finish"
    /\ request.calm \/ basis = None

\* A change that has stayed in its place is noticed by the question about that place.
Noticed ==
    /\ request.at \in Questions => request.stayed \subseteq Places(head, index, work)
    /\ request.at \in {"index", "work", "others"} /\ "commits" \in request.stayed => request.formal
    /\ request.at \in {"work", "others"} /\ "index" \in request.stayed => request.formal
    /\ request.at = "others" /\ "work" \in request.stayed => request.formal \/ Untracked
    /\ request.kind = "finish" /\ request.found = {} /\ request.stayed # {}
         /\ request.at \in Proving \cup {"checking", "rechecking"} => request.formal

Among(u, s) == \E i \in 1 .. Len(s) : s[i] = u
Reachable(u) == u \in (Allowed \cap online) \cup {"local", None}

\* What is left to be probed, of what is to be probed.
Probing ==
    request.at = "probing" =>
        /\ request.probes # <<>>
        /\ request.calm =>
             /\ Selectable(Given)
             /\ \A u : Among(u, request.probes) => u \in {Selected(Given), config.upstream}
             /\ \A u \in {Selected(Given), config.upstream} :
                  request.found = {} => Reachable(u) \/ Among(u, request.probes)

\* What a call that has to prove Code Start has established, with nothing found and no
\* fact moved.
Established ==
    request.calm /\ request.found = {} /\ (request.kind = "start" \/ request.formal) =>
        /\ request.at \in {"sweeping", "reading", "deciding"} =>
             Selectable(Given) /\ Reachable(Selected(Given)) /\ Reachable(config.upstream)
        /\ request.at \in {"reading", "deciding"} => Clean
        /\ request.at = "deciding" => Researched(request.args)

\* A call the basis speaks for finds nothing that has to do with Code Start.
Kin ==
    \/ request.kind = "hook" /\ basis.remote = None
    \/ request.kind = "finish" /\ request.args = basis
Kept == basis # None => CodeStartHolds(basis) /\ (Kin => request.found \subseteq {"other"})

StartInv == CallTypes /\ Fits /\ Noticed /\ Probing /\ Established /\ FormalChangeIsProved /\ Kept

\* The first of a sequence, and the rest.
LEMMA FirstAndRest ==
    ASSUME NEW S, NEW s \in Seq(S), s # <<>>
    PROVE  /\ Head(s) \in S /\ Among(Head(s), s) /\ Tail(s) \in Seq(S)
           /\ \A u : Among(u, Tail(s)) => Among(u, s)
           /\ \A u : Among(u, s) => u = Head(s) \/ (Len(s) # 1 /\ Among(u, Tail(s)))
           /\ Len(s) # 1 => Tail(s) # <<>>
  <1>1. /\ Head(s) = s[1] /\ Head(s) \in S /\ Tail(s) \in Seq(S) /\ Len(Tail(s)) = Len(s) - 1
        /\ \A i \in 1 .. Len(Tail(s)) : Tail(s)[i] = s[i + 1]
    BY HeadTailProperties
  <1>2. Len(s) \in Nat /\ Len(s) # 0
    BY LenProperties, EmptySeq
  <1>3. Among(Head(s), s)
    BY <1>1, <1>2 DEF Among
  <1>4. \A u : Among(u, Tail(s)) => Among(u, s)
    BY <1>1, <1>2 DEF Among
  <1>5. ASSUME NEW u, Among(u, s), u # Head(s) PROVE Len(s) # 1 /\ Among(u, Tail(s))
    <2>1. PICK i \in 1 .. Len(s) : s[i] = u
      BY <1>5 DEF Among
    <2>2. i # 1 /\ i - 1 \in 1 .. Len(Tail(s)) /\ (i - 1) + 1 = i
      BY <1>1, <1>2, <1>5, <2>1
    <2>3. Tail(s)[i - 1] = u
      BY <1>1, <2>1, <2>2
    <2> QED
      BY <1>2, <2>1, <2>2, <2>3 DEF Among
  <1>6. Len(s) # 1 => Len(Tail(s)) # 0
    BY <1>1, <1>2
  <1>7. Tail(s) = <<>> => Len(Tail(s)) = 0
    <2>1. Len(<<>>) = 0
      OBVIOUS
    <2> QED
      BY <2>1, Zenon
  <1> QED
    BY <1>1, <1>3, <1>4, <1>5, <1>6, <1>7

\* What can be selected is a remote, and what is probed is that and the upstream.
LEMMA ProbesBoth ==
    ASSUME CallTypes, NEW given, Selectable(given)
    PROVE  /\ Probes(given) \in Seq(Remotes) /\ Probes(given) # <<>>
           /\ \A u : Among(u, Probes(given)) => u \in {Selected(given), config.upstream}
           /\ \A u \in {Selected(given), config.upstream} : Reachable(u) \/ Among(u, Probes(given))
  <1> DEFINE s == Selected(given)
             p == Probes(given)
  <1>1. config \in Configurations
    BY StartAssumption DEF CallTypes, StartTypeOK
  <1>2. s \in Remotes
    BY <1>1 DEF Selectable, Configurations
  <1>3. CASE config.upstream \in Remotes \ {s}
    <2>1. PICK a, b : a = <<s>> /\ b = <<config.upstream>> /\ p = a \o b
      BY <1>3 DEF Probes
    <2>2. /\ a \in Seq(Remotes) /\ Len(a) = 1 /\ a[1] = s
          /\ b \in Seq(Remotes) /\ Len(b) = 1 /\ b[1] = config.upstream
      BY <1>2, <1>3, <2>1
    <2>3. /\ p \in Seq(Remotes) /\ Len(p) = Len(a) + Len(b)
          /\ \A i \in 1 .. Len(a) + Len(b) : p[i] = IF i <= Len(a) THEN a[i] ELSE b[i - Len(a)]
      BY <2>1, <2>2, ConcatProperties
    <2> HIDE DEF p
    <2>4. Len(p) = 2 /\ p[1] = s /\ p[2] = config.upstream
      BY <2>2, <2>3
    <2>7. p # <<>>
      BY <2>4
    <2>5. Among(s, p) /\ Among(config.upstream, p)
      BY <2>4 DEF Among
    <2>6. \A u : Among(u, p) => u \in {s, config.upstream}
      BY <2>4 DEF Among
    <2> QED
      BY <2>3, <2>5, <2>6, <2>7 DEF p
  <1>4. CASE config.upstream \notin Remotes \ {s}
    <2>1. p = <<s>> \o << >>
      BY <1>4 DEF Probes
    <2>2. p = <<s>>
      <3>1. \A t \in Seq(Remotes) : t \o << >> = t
        BY ConcatEmptySeq
      <3>2. <<s>> \in Seq(Remotes)
        BY <1>2
      <3> QED
        BY <2>1, <3>1, <3>2, Zenon
    <2>3. Len(p) = 1 /\ p[1] = s
      BY <2>2
    <2>4. p \in Seq(Remotes) /\ p # <<>>
      BY <1>2, <2>2
    <2>5. Among(s, p) /\ \A u : Among(u, p) => u = s
      BY <2>3 DEF Among
    <2>6. config.upstream = s \/ Reachable(config.upstream)
      BY <1>1, <1>4 DEF Selectable, Configurations, Reachable
    <2> QED
      BY <2>4, <2>5, <2>6
  <1> QED
    BY <1>3, <1>4

\* What is asked of the facts has the same answer as long as they do not move.
LEMMA SameFacts ==
    ASSUME UNCHANGED facts
    PROVE  /\ \A given : Selected(given)' = Selected(given)
           /\ \A given : Selectable(given)' = Selectable(given)
           /\ Clean' = Clean
           /\ \A u : Reachable(u)' = Reachable(u)
           /\ \A args : Researched(args)' = Researched(args)
           /\ \A args : CodeStartHolds(args)' = CodeStartHolds(args)
  <1> USE DEF facts
  <1>1. \A given : Selected(given)' = Selected(given)
    BY DEF Selected
  <1>2. \A given : Selectable(given)' = Selectable(given)
    BY <1>1 DEF Selectable
  <1>3. Clean' = Clean /\ \A u : Reachable(u)' = Reachable(u)
    BY DEF Clean, Reachable
  <1>4. \A args : Researched(args)' = Researched(args)
    BY DEF Researched
  <1>5. \A args : CodeStartHolds(args)' = CodeStartHolds(args)
    BY <1>1, <1>2, <1>3, <1>4 DEF CodeStartHolds
  <1> QED
    BY <1>1, <1>2, <1>3, <1>4, <1>5

\* Code Start as a basis has found it: everything it asks for, one by one.
LEMMA HoldsOf ==
    ASSUME CallTypes, NEW args, CodeStartHolds(args)
    PROVE  /\ args.class \in Known /\ Selectable(args.remote) /\ Clean /\ Researched(args)
           /\ Reachable(Selected(args.remote)) /\ Reachable(config.upstream)
  BY DEF CodeStartHolds, Reachable

\* No call and no basis.
LEMMA InitStart == StartInit => StartInv
  <1> SUFFICES ASSUME StartInit PROVE StartInv
    OBVIOUS
  <1>1. CallTypes
    BY EmptySeq DEF StartInit, CallTypes, StartTypeOK, Calls, NoRequest
  <1>2. Fits /\ Noticed /\ Probing /\ Established /\ FormalChangeIsProved /\ Kept
    BY DEF StartInit, Fits, Noticed, Probing, Established, FormalChangeIsProved, Kept, NoRequest,
       Questions, Proving
  <1> QED
    BY <1>1, <1>2 DEF StartInv

\* A new call has asked nothing.
LEMMA AskKeeps ==
    ASSUME StartInv, AskStart \/ AskHook \/ AskFinish
    PROVE  StartInv'
  <1> USE DEF GateReads, Ask
  <1>1. PICK kind, args, at, found, stayed :
          /\ request.at = "answered" /\ GateReads
          /\ request' = [kind |-> kind, at |-> at, args |-> args, found |-> found, calm |-> TRUE,
                         probes |-> <<>>, formal |-> FALSE, stayed |-> stayed]
          /\ \/ kind = "start" /\ args \in Requests /\ args.class \in Known /\ at = "selecting"
                /\ found = {} /\ stayed = {}
             \/ kind = "start" /\ args \in Requests /\ at = "answered" /\ found = {"unverified"} /\ stayed = {}
             \/ kind = "hook" /\ args = None /\ at = "selecting" /\ found = {} /\ stayed = {}
             \/ kind = "finish" /\ args \in Requests /\ at = "commits" /\ found = {}
                /\ stayed = Places(head, index, work)
    BY DEF AskStart, AskHook, AskFinish
  <1>2. CallTypes'
    <2>1. Places(head, index, work) \subseteq {"commits", "index", "work"}
      BY DEF Places
    <2>2. request' \in Calls
      BY <1>1, <2>1, EmptySeq DEF Calls, Questions, Proving, Findings
    <2> QED
      BY <1>1, <2>2 DEF StartInv, CallTypes, StartTypeOK, facts, versions, Findings
  <1>3. Fits'
    BY <1>1 DEF Fits, Questions, Proving
  <1>4. Noticed'
    BY <1>1 DEF Noticed, Questions, Proving, versions
  <1>5. Probing' /\ Established'
    BY <1>1 DEF Probing, Established
  <1>6. FormalChangeIsProved'
    BY <1>1 DEF FormalChangeIsProved
  <1>7. Kept'
    <2>1. UNCHANGED facts /\ basis' = basis
      BY <1>1
    <2>2. CodeStartHolds(basis)' = CodeStartHolds(basis)
      BY <2>1, SameFacts
    <2> QED
      BY <1>1, <2>1, <2>2 DEF StartInv, Kept, Kin
  <1> QED
    BY <1>2, <1>3, <1>4, <1>5, <1>6, <1>7 DEF StartInv

\* When a fact moves, the call that is under way claims nothing any more.
LEMMA FactsMoveKeeps ==
    ASSUME StartInv, Reconfigure \/ RemoteGoes \/ Litter \/ Rewrite
    PROVE  StartInv'
  <1>1. FactsMove /\ config' \in Configs /\ online' \subseteq Remotes /\ tree' \subseteq Kinds
        /\ research' \in Research
    BY StartAssumption DEF Reconfigure, RemoteGoes, Litter, Rewrite, StartInv, CallTypes, StartTypeOK
  <1>2. /\ basis' = None /\ request' = [request EXCEPT !.calm = FALSE] /\ request \in Calls
        /\ UNCHANGED versions
    BY <1>1 DEF FactsMove, StartInv, CallTypes
  <1>3. request' \in Calls /\ \A f \in {"kind", "at", "args", "found", "probes", "formal", "stayed"} : request'[f] = request[f]
    BY <1>2 DEF Calls
  <1>4. request'.calm = FALSE
    BY <1>2 DEF Calls
  <1>5. CallTypes'
    BY <1>1, <1>2, <1>3 DEF StartInv, CallTypes, StartTypeOK, versions
  <1>6. Fits'
    BY <1>2 DEF StartInv, Fits, Calls
  <1>7. Noticed'
    BY <1>2 DEF StartInv, Noticed, versions, Untracked, Calls
  <1>8. Probing' /\ Established'
    BY <1>2, <1>4 DEF StartInv, Probing, Established, Calls
  <1>9. FormalChangeIsProved'
    BY <1>2, <1>4 DEF StartInv, FormalChangeIsProved, Calls
  <1>10. Kept'
    BY <1>2 DEF Kept
  <1> QED
    BY <1>5, <1>6, <1>7, <1>8, <1>9, <1>10 DEF StartInv

\* The path moves: a change that stays is where it was, and in git's sight as it was.
LEMMA PathMovesKeeps ==
    ASSUME StartInv, PathMoves
    PROVE  StartInv'
  <1>1. UNCHANGED <<facts, fresh, basis>> /\ {head', index', work'} \subseteq {0, 1}
    BY DEF PathMoves, StartInv, CallTypes, StartTypeOK
  <1>2. PICK stayed \in SUBSET {"commits", "index", "work"} :
          /\ request' = [request EXCEPT !.stayed = stayed] /\ stayed \subseteq request.stayed
          /\ request.at \in Diffing => stayed \subseteq Places(head', index', work')
          /\ request.at \notin Diffing => stayed = request.stayed
    <2>1. request.stayed \in SUBSET {"commits", "index", "work"} /\ request = [request EXCEPT !.stayed = @]
      BY DEF StartInv, CallTypes, Calls
    <2>2. CASE request.at \in Diffing
      BY <2>1, <2>2 DEF PathMoves
    <2>3. CASE request.at \notin Diffing
      BY <2>1, <2>3 DEF PathMoves
    <2> QED
      BY <2>2, <2>3
  <1>3. Diffing = Questions
    BY DEF Diffing, Following, Questions
  <1>4. request \in Calls /\ request' \in Calls
    BY <1>2 DEF StartInv, CallTypes, Calls
  <1>5. CallTypes'
    BY <1>1, <1>4 DEF StartInv, CallTypes, StartTypeOK, facts, Calls
  <1>6. Fits'
    BY <1>1, <1>2, <1>4 DEF StartInv, Fits, Calls
  <1>7. Noticed'
    <2>1. request.at = "others" /\ "work" \in stayed => Untracked' = Untracked
      BY <1>1, <1>2, <1>3 DEF PathMoves, StartInv, CallTypes, StartTypeOK, Noticed, Places, Untracked,
         Questions
    <2> QED
      BY <1>2, <1>3, <1>4, <2>1 DEF StartInv, Noticed, Calls
  <1>8. /\ request'.kind = request.kind /\ request'.args = request.args /\ request'.at = request.at
        /\ request'.found = request.found /\ request'.calm = request.calm
        /\ request'.probes = request.probes /\ request'.formal = request.formal
        /\ request'.stayed \subseteq request.stayed /\ Given' = Given /\ config' = config
    BY <1>1, <1>2, <1>4 DEF Calls, Given, facts
  <1>9. Probing'
    BY <1>1, <1>8, SameFacts DEF StartInv, Probing
  <1>10. Established'
    BY <1>1, <1>8, SameFacts DEF StartInv, Established
  <1>11. FormalChangeIsProved'
    BY <1>1, <1>8, SameFacts DEF StartInv, FormalChangeIsProved
  <1>12. Kept'
    BY <1>1, <1>8, SameFacts DEF StartInv, Kept, Kin
  <1> QED
    BY <1>5, <1>6, <1>7, <1>9, <1>10, <1>11, <1>12 DEF StartInv

-----------------------------------------------------------------------------
\* What a call goes on with, wherever it advances to.
LEMMA AdvanceKeeps ==
    ASSUME StartInv, GateReads, request.at # "answered", NEW findings \in SUBSET Findings,
           NEW to \in {"selecting", "sweeping", "reading", "deciding", "rechecking"},
           Advance(to, findings),
           to = "rechecking" => request.kind = "finish",
           to = "reading" => request.kind # "hook",
           request.kind = "finish" =>
             /\ to \in Proving \ {"deciding"} => request.formal
             /\ to \in Proving /\ request.found \cup findings = {} /\ request.formal
                  => request.args.class \in Known
             /\ request.found \cup findings = {} /\ request.stayed # {} => request.formal,
           request.calm /\ request.found \cup findings = {} /\ (request.kind = "start" \/ request.formal) =>
             /\ to \in {"sweeping", "reading", "deciding"} =>
                  Selectable(Given) /\ Reachable(Selected(Given)) /\ Reachable(config.upstream)
             /\ to \in {"reading", "deciding"} => Clean
             /\ to = "deciding" => Researched(request.args),
           basis # None /\ Kin => findings \subseteq {"other"}
    PROVE  StartInv'
  <1>1. /\ UNCHANGED facts /\ UNCHANGED versions /\ basis' = basis
        /\ config' = config /\ head' = head /\ index' = index /\ work' = work /\ fresh' = fresh
    BY DEF GateReads, facts, versions
  <1>2. /\ request' \in Calls /\ request'.at = to /\ request'.found = request.found \cup findings
        /\ request'.kind = request.kind /\ request'.args = request.args
        /\ request'.calm = request.calm /\ request'.stayed = request.stayed
        /\ request'.formal = request.formal
    BY DEF StartInv, CallTypes, Calls, Advance, Proving
  <1>3. Given' = Given
    BY <1>2 DEF Given
  <1>4. CallTypes'
    BY <1>1, <1>2 DEF StartInv, CallTypes, StartTypeOK, facts, versions, Calls
  <1>5. Fits'
    BY <1>1, <1>2 DEF StartInv, Fits, Questions, Proving
  <1>6. Noticed'
    BY <1>1, <1>2 DEF Noticed, Questions
  <1>7. Probing' /\ FormalChangeIsProved'
    BY <1>2 DEF Probing, FormalChangeIsProved
  <1>8. Established'
    <2>1. /\ Selectable(Given)' = Selectable(Given) /\ Selected(Given)' = Selected(Given)
          /\ Clean' = Clean /\ Researched(request.args)' = Researched(request.args)
          /\ Reachable(Selected(Given))' = Reachable(Selected(Given))
          /\ Reachable(config.upstream)' = Reachable(config.upstream)
      BY <1>1, <1>2, <1>3, SameFacts
    <2> QED
      BY <1>2, <2>1 DEF Established
  <1>9. Kept'
    <2>1. CodeStartHolds(basis)' = CodeStartHolds(basis)
      BY <1>1, SameFacts
    <2> QED
      BY <1>1, <1>2, <2>1 DEF StartInv, Kept, Kin
  <1> QED
    BY <1>4, <1>5, <1>6, <1>7, <1>8, <1>9 DEF StartInv

\* What a call may rely on that has a basis or has something to prove.
LEMMA KinHolds ==
    ASSUME StartInv, basis # None, Kin, request.at # "answered"
    PROVE  /\ request.calm /\ Selectable(Given) /\ Clean
           /\ Reachable(Selected(Given)) /\ Reachable(config.upstream)
           /\ request.kind = "finish" => request.args.class \in Known /\ Researched(request.args)
  <1>1. Given = basis.remote
    BY DEF Kin, Given
  <1>2. request.calm
    BY DEF StartInv, Fits
  <1> QED
    BY <1>1, <1>2, HoldsOf DEF StartInv, Kept, Kin

\* What is going to be probed is the selected remote and the upstream.
LEMMA SelectKeeps ==
    ASSUME StartInv, Select
    PROVE  StartInv'
  <1>1. request.at = "selecting" /\ GateReads
    BY DEF Select
  <1>2. CASE ~Selectable(Given)
    <2>1. Advance("sweeping", {"remote"})
      BY <1>2 DEF Select
    <2>2. ~(basis # None /\ Kin)
      BY <1>1, <1>2, KinHolds
    <2> QED
      BY <1>1, <2>1, <2>2, AdvanceKeeps DEF StartInv, Fits, Findings, Proving
  <1>3. CASE Selectable(Given)
    <2>1. /\ Probes(Given) \in Seq(Remotes) /\ Probes(Given) # <<>>
          /\ \A u : Among(u, Probes(Given)) => u \in {Selected(Given), config.upstream}
          /\ \A u \in {Selected(Given), config.upstream} : Reachable(u) \/ Among(u, Probes(Given))
      BY <1>3, ProbesBoth DEF StartInv
    <2>2. request' = [request EXCEPT !.at = "probing", !.probes = Probes(Given)]
      BY <1>3 DEF Select
    <2>3. /\ request' \in Calls /\ request'.at = "probing" /\ request'.probes = Probes(Given)
          /\ request'.found = request.found
          /\ request'.kind = request.kind /\ request'.args = request.args
          /\ request'.calm = request.calm /\ request'.stayed = request.stayed
          /\ request'.formal = request.formal
      BY <2>1, <2>2 DEF StartInv, CallTypes, Calls, Proving
    <2>4. /\ UNCHANGED facts /\ UNCHANGED versions /\ basis' = basis /\ config' = config
      BY <1>1 DEF GateReads, facts
    <2>5. Given' = Given
      BY <2>3 DEF Given
    <2>6. CallTypes'
      BY <2>3, <2>4 DEF StartInv, CallTypes, StartTypeOK, facts, versions, Calls
    <2>7. Fits'
      BY <1>1, <2>3, <2>4 DEF StartInv, Fits, Questions, Proving
    <2>8. Noticed'
      BY <1>1, <2>3, <2>4 DEF StartInv, Noticed, Questions, Proving
    <2>9. Probing'
      <3>1. /\ Selectable(Given)' /\ Selected(Given)' = Selected(Given)
            /\ \A u : Reachable(u)' = Reachable(u)
        BY <1>3, <2>4, <2>5, SameFacts
      <3> QED
        BY <2>1, <2>3, <2>4, <3>1 DEF Probing
    <2>10. Established' /\ FormalChangeIsProved'
      BY <2>3 DEF Established, FormalChangeIsProved
    <2>11. Kept'
      <3>1. CodeStartHolds(basis)' = CodeStartHolds(basis)
        BY <2>4, SameFacts
      <3> QED
        BY <2>3, <2>4, <3>1 DEF StartInv, Kept, Kin
    <2> QED
      BY <2>6, <2>7, <2>8, <2>9, <2>10, <2>11 DEF StartInv
  <1> QED
    BY <1>2, <1>3

\* Each probe takes one off; when none is left, all have answered.
LEMMA ProbeKeeps ==
    ASSUME StartInv, Probe
    PROVE  StartInv'
  <1>1. /\ request.at = "probing" /\ GateReads /\ request.probes # <<>>
        /\ request \in Calls /\ request.probes \in Seq(Remotes)
    BY DEF Probe, StartInv, CallTypes, Calls, Probing
  <1>2. PICK url, rest : url = Head(request.probes) /\ rest = Tail(request.probes)
    OBVIOUS
  <1>3. /\ url \in Remotes /\ Among(url, request.probes) /\ rest \in Seq(Remotes)
        /\ \A u : Among(u, rest) => Among(u, request.probes)
        /\ \A u : Among(u, request.probes) => u = url \/ (Len(request.probes) # 1 /\ Among(u, rest))
        /\ Len(request.probes) # 1 => rest # <<>>
    BY <1>1, <1>2, FirstAndRest
  <1>4. Reachable(url) <=> url \in Allowed \cap online
    BY <1>3, StartAssumption DEF Reachable, Local
  <1>5. CASE url \notin Allowed \cap online
    <2>1. Advance("sweeping", {"remote"})
      BY <1>2, <1>5 DEF Probe
    <2>2. ~(basis # None /\ Kin)
      BY <1>1, <1>3, <1>4, <1>5, KinHolds DEF StartInv, Probing
    <2> QED
      BY <1>1, <2>1, <2>2, AdvanceKeeps DEF StartInv, Fits, Findings, Proving
  <1>6. CASE url \in Allowed \cap online /\ Len(request.probes) = 1
    <2>1. Advance("sweeping", {})
      BY <1>2, <1>6 DEF Probe
    <2>2. request.calm /\ request.found = {}
            => Selectable(Given) /\ Reachable(Selected(Given)) /\ Reachable(config.upstream)
      BY <1>1, <1>3, <1>4, <1>6 DEF StartInv, Probing
    <2> QED
      BY <1>1, <2>1, <2>2, AdvanceKeeps DEF StartInv, Fits, Noticed, Proving
  <1>7. CASE url \in Allowed \cap online /\ Len(request.probes) # 1
    <2>1. request' = [request EXCEPT !.probes = rest]
      BY <1>2, <1>7 DEF Probe
    <2>2. /\ request' \in Calls /\ request'.at = request.at /\ request'.probes = rest
          /\ request'.found = request.found
          /\ request'.kind = request.kind /\ request'.args = request.args
          /\ request'.calm = request.calm /\ request'.stayed = request.stayed
          /\ request'.formal = request.formal
      BY <1>1, <1>3, <2>1 DEF Calls
    <2>3. /\ UNCHANGED facts /\ UNCHANGED versions /\ basis' = basis /\ config' = config
      BY <1>1 DEF GateReads, facts
    <2>4. Given' = Given
      BY <2>2 DEF Given
    <2>5. CallTypes'
      BY <2>2, <2>3 DEF StartInv, CallTypes, StartTypeOK, facts, versions, Calls
    <2>6. Fits' /\ Noticed'
      BY <1>1, <2>2, <2>3 DEF StartInv, Fits, Noticed, Questions, Proving
    <2>7. Probing'
      <3>1. /\ Selectable(Given)' = Selectable(Given) /\ Selected(Given)' = Selected(Given)
            /\ \A u : Reachable(u)' = Reachable(u)
        BY <2>3, <2>4, SameFacts
      <3>2. request.calm => /\ Selectable(Given)
                            /\ \A u : Among(u, rest) => u \in {Selected(Given), config.upstream}
        BY <1>1, <1>3 DEF StartInv, Probing
      <3>3. request.calm /\ request.found = {} =>
              \A u \in {Selected(Given), config.upstream} : Reachable(u) \/ Among(u, rest)
        BY <1>1, <1>3, <1>4, <1>7 DEF StartInv, Probing
      <3>4. rest # <<>>
        BY <1>3, <1>7
      <3> QED
        BY <2>2, <2>3, <3>1, <3>2, <3>3, <3>4 DEF Probing
    <2>8. Established' /\ FormalChangeIsProved'
      BY <1>1, <2>2 DEF Established, FormalChangeIsProved
    <2>9. Kept'
      <3>1. CodeStartHolds(basis)' = CodeStartHolds(basis)
        BY <2>3, SameFacts
      <3> QED
        BY <2>2, <2>3, <3>1 DEF StartInv, Kept, Kin
    <2> QED
      BY <2>5, <2>6, <2>7, <2>8, <2>9 DEF StartInv
  <1> QED
    BY <1>5, <1>6, <1>7

\* The tree is clean, or there is a finding.
LEMMA SweepKeeps ==
    ASSUME StartInv, Sweep
    PROVE  StartInv'
  <1>1. request.at = "sweeping" /\ GateReads
    BY DEF Sweep
  <1>2. AfterSweep \in {"reading", "deciding"} /\ (AfterSweep = "deciding" <=> request.kind = "hook")
    BY DEF AfterSweep
  <1>3. CASE Clean
    <2>1. Advance(AfterSweep, {})
      BY <1>3 DEF Sweep
    <2> QED
      BY <1>1, <1>2, <1>3, <2>1, AdvanceKeeps DEF StartInv, Fits, Noticed, Established, Proving
  <1>4. CASE ~Clean
    <2>1. Advance(AfterSweep, {"hygiene"})
      BY <1>4 DEF Sweep
    <2>2. ~(basis # None /\ Kin)
      BY <1>1, <1>4, KinHolds
    <2> QED
      BY <1>1, <1>2, <2>1, <2>2, AdvanceKeeps DEF StartInv, Fits, Findings, Proving
  <1> QED
    BY <1>3, <1>4

\* The requirement is researched, or there is a finding.
LEMMA ReadKeeps ==
    ASSUME StartInv, Read
    PROVE  StartInv'
  <1>1. request.at = "reading" /\ GateReads
    BY DEF Read
  <1>2. CASE Researched(request.args)
    <2>1. Advance("deciding", {})
      BY <1>2 DEF Read
    <2> QED
      BY <1>1, <1>2, <2>1, AdvanceKeeps DEF StartInv, Fits, Noticed, Established, Proving
  <1>3. CASE ~Researched(request.args)
    <2>1. Advance("deciding", {"research"})
      BY <1>3 DEF Read
    <2>2. ~(basis # None /\ Kin)
      BY <1>1, <1>3, KinHolds DEF StartInv, Fits, Kin
    <2> QED
      BY <1>1, <2>1, <2>2, AdvanceKeeps DEF StartInv, Fits, Findings, Proving
  <1> QED
    BY <1>2, <1>3

\* What is not in its place any more is not in stayed; what is, the question shows.
LEMMA DiffKeeps ==
    ASSUME StartInv, Diff
    PROVE  StartInv'
  <1>1. request.at \in Questions /\ GateReads /\ request \in Calls /\ request.kind = "finish"
    BY DEF Diff, Diffing, Following, Questions, StartInv, CallTypes, Fits
  <1>0. PICK next, shown :
          /\ request' = [request EXCEPT !.formal = @ \/ shown, !.at = next]
          /\ next = Following[request.at] /\ shown = Shown[request.at]
    BY <1>1 DEF Diff
  <1>2. /\ shown \in BOOLEAN
        /\ \/ request.at = "commits" /\ next = "index" /\ (shown <=> head # 0)
           \/ request.at = "index" /\ next = "work" /\ (shown <=> index # head)
           \/ request.at = "work" /\ next = "others" /\ (shown <=> work # index /\ ~Untracked)
           \/ request.at = "others" /\ next = "checking" /\ (shown <=> work # index /\ Untracked)
    <2>1. /\ Shown["commits"] = (head # 0) /\ Shown["index"] = (index # head)
          /\ Shown["work"] = (work # index /\ ~Untracked)
          /\ Shown["others"] = (work # index /\ Untracked)
      BY DEF Shown
    <2>2. /\ Following["commits"] = "index" /\ Following["index"] = "work"
          /\ Following["work"] = "others" /\ Following["others"] = "checking"
      BY DEF Following
    <2>3. CASE request.at = "commits"
      BY <1>0, <2>1, <2>2, <2>3
    <2>4. CASE request.at = "index"
      BY <1>0, <2>1, <2>2, <2>4
    <2>5. CASE request.at = "work"
      BY <1>0, <2>1, <2>2, <2>5
    <2>6. CASE request.at = "others"
      BY <1>0, <2>1, <2>2, <2>6
    <2> QED
      BY <1>1, <2>3, <2>4, <2>5, <2>6 DEF Questions
  <1>3. /\ request' \in Calls /\ request'.at = next
        /\ (request'.formal <=> request.formal \/ shown)
        /\ request'.found = request.found
        /\ request'.kind = request.kind /\ request'.args = request.args
        /\ request'.calm = request.calm /\ request'.stayed = request.stayed
    BY <1>0, <1>1, <1>2 DEF Calls, Questions
  <1>4. /\ UNCHANGED facts /\ UNCHANGED versions /\ basis' = basis
        /\ head' = head /\ index' = index /\ work' = work /\ fresh' = fresh
    BY <1>1 DEF GateReads, versions
  <1>5. CallTypes'
    BY <1>3, <1>4 DEF StartInv, CallTypes, StartTypeOK, facts, versions, Calls
  <1>6. Fits'
    BY <1>1, <1>2, <1>3, <1>4 DEF StartInv, Fits, Questions, Proving
  <1>7. Noticed'
    <2>1. request.stayed \subseteq Places(head, index, work)
      BY <1>1 DEF StartInv, Noticed
    <2>2. /\ "commits" \in request.stayed => head # 0
          /\ "index" \in request.stayed => index # head
          /\ "work" \in request.stayed => work # index
      BY <2>1 DEF Places
    <2>3. request.stayed \subseteq {"commits", "index", "work"}
      BY <1>1 DEF Calls
    <2>4. Untracked' = Untracked
      BY <1>4 DEF Untracked
    <2> QED
      BY <1>1, <1>2, <1>3, <1>4, <2>1, <2>2, <2>3, <2>4 DEF StartInv, Noticed, Questions, Proving
  <1>8. Probing' /\ FormalChangeIsProved'
    BY <1>2, <1>3 DEF Probing, FormalChangeIsProved
  <1>9. Established'
    BY <1>2, <1>3 DEF Established
  <1>10. Kept'
    <2>1. CodeStartHolds(basis)' = CodeStartHolds(basis)
      BY <1>4, SameFacts
    <2> QED
      BY <1>3, <1>4, <2>1 DEF StartInv, Kept, Kin
  <1> QED
    BY <1>5, <1>6, <1>7, <1>8, <1>9, <1>10 DEF StartInv

\* The checks find what they find; a clean tree adds nothing of Code Start's.
LEMMA CheckKeeps ==
    ASSUME StartInv, Check
    PROVE  StartInv'
  <1>1. request.at = "checking" /\ GateReads /\ request.kind = "finish"
    BY DEF Check, StartInv, Fits
  <1>2. PICK failed \in SUBSET {"other"} :
          Advance("rechecking", failed \cup (IF Clean THEN {} ELSE {"hygiene"}))
    BY DEF Check
  <1>3. failed \cup (IF Clean THEN {} ELSE {"hygiene"}) \in SUBSET Findings
    BY DEF Findings
  <1>4. basis # None /\ Kin => failed \cup (IF Clean THEN {} ELSE {"hygiene"}) \subseteq {"other"}
    BY <1>1, KinHolds
  <1>5. request.found = {} /\ request.stayed # {} => request.formal
    BY <1>1 DEF StartInv, Noticed
  <1> QED
    BY <1>1, <1>2, <1>3, <1>4, <1>5, AdvanceKeeps DEF Proving

\* Only a formal change goes on to prove Code Start, and only with a known class.
LEMMA RecheckKeeps ==
    ASSUME StartInv, Recheck
    PROVE  StartInv'
  <1>1. request.at = "rechecking" /\ GateReads /\ request.kind = "finish"
    BY DEF Recheck, StartInv, Fits
  <1>2. request.found = {} /\ request.stayed # {} => request.formal
    BY <1>1 DEF StartInv, Noticed
  <1>3. CASE ~request.formal
    <2>1. Advance("deciding", {})
      BY <1>3 DEF Recheck
    <2> QED
      BY <1>1, <1>2, <1>3, <2>1, AdvanceKeeps DEF Proving
  <1>4. CASE request.formal /\ request.args.class \notin Known
    <2>1. Advance("deciding", {"unverified"})
      BY <1>4 DEF Recheck
    <2>2. ~(basis # None /\ Kin)
      BY <1>1, <1>4, KinHolds
    <2> QED
      BY <1>1, <1>4, <2>1, <2>2, AdvanceKeeps DEF Findings, Proving
  <1>5. CASE request.formal /\ request.args.class \in Known
    <2>1. Advance("selecting", {})
      BY <1>5 DEF Recheck
    <2> QED
      BY <1>1, <1>5, <2>1, AdvanceKeeps DEF Proving
  <1> QED
    BY <1>3, <1>4, <1>5

\* A failure is a finding of its own, and nothing is claimed any more.
LEMMA GitFailsKeeps ==
    ASSUME StartInv, GitFails
    PROVE  StartInv'
  <1>1. PICK to \in {"sweeping", "reading", "deciding"} :
          /\ Advance(to, {"other"}) /\ GateReads /\ request.at # "answered"
          /\ to = "reading" => request.kind # "hook"
          /\ request.kind = "finish" /\ to # "deciding" => request.formal
    BY DEF GitFails, AfterSweep, Diffing, Following, StartInv, Fits, Proving
  <1> QED
    BY <1>1, AdvanceKeeps DEF Findings, Proving

\* The answer: what was established is true now, if no fact has moved.
LEMMA DecideKeeps ==
    ASSUME StartInv, Decide
    PROVE  StartInv'
  <1>1. PICK missing \in SUBSET {"other"} :
          /\ request.kind # "finish" => missing = {}
          /\ request' = [request EXCEPT !.at = "answered", !.found = @ \cup missing, !.formal = FALSE]
          /\ basis' = IF request.kind = "start" /\ request.calm /\ request.found = {}
                      THEN request.args ELSE basis
    BY DEF Decide
  <1>2. request.at = "deciding" /\ UNCHANGED facts /\ UNCHANGED versions /\ request \in Calls
    BY DEF Decide, StartInv, CallTypes
  <1>3. /\ request' \in Calls /\ request'.at = "answered" /\ request'.formal = FALSE
        /\ request'.found = request.found \cup missing
        /\ request'.kind = request.kind /\ request'.args = request.args
        /\ request'.calm = request.calm /\ request'.stayed = request.stayed
    BY <1>1, <1>2 DEF Calls, Findings
  <1>4. CallTypes'
    BY <1>1, <1>2, <1>3 DEF StartInv, CallTypes, StartTypeOK, facts, versions, Calls, Fits
  <1>5. Fits'
    BY <1>1, <1>3 DEF StartInv, Fits, Questions, Proving
  <1>6. Noticed' /\ Probing' /\ Established'
    BY <1>3 DEF Noticed, Probing, Established, Questions, Proving
  <1>7. ASSUME request.calm, request.found = {},
               request.kind = "start" \/ (request.kind = "finish" /\ request.formal)
        PROVE  CodeStartHolds(request.args)
    <2>1. Given = request.args.remote
      BY <1>7 DEF Given
    <2>2. request.args.class \in Known
      BY <1>2, <1>7 DEF StartInv, Fits, Proving
    <2>3. /\ Selectable(Given) /\ Reachable(Selected(Given)) /\ Reachable(config.upstream)
          /\ Clean /\ Researched(request.args)
      BY <1>2, <1>7 DEF StartInv, Established
    <2> QED
      BY <2>1, <2>2, <2>3 DEF CodeStartHolds, Reachable
  <1>8. FormalChangeIsProved'
    <2> SUFFICES ASSUME request.kind = "finish", request.found = {}, request.stayed # {}
                 PROVE  /\ request.args.class \in Known
                        /\ request.calm => CodeStartHolds(request.args)'
      BY <1>3 DEF FormalChangeIsProved
    <2>1. request.formal
      BY <1>2 DEF StartInv, Noticed, Proving
    <2>2. request.args.class \in Known
      BY <1>2, <2>1 DEF StartInv, Fits, Proving
    <2>3. CodeStartHolds(request.args)' = CodeStartHolds(request.args)
      BY <1>2, <1>3, SameFacts
    <2> QED
      BY <1>7, <2>1, <2>2, <2>3
  <1>9. Kept'
    <2>1. CASE request.kind = "start" /\ request.calm /\ request.found = {}
      <3>1. basis' = request.args /\ CodeStartHolds(request.args)
        BY <1>1, <1>7, <2>1
      <3>2. CodeStartHolds(basis)'
        BY <1>2, <3>1, SameFacts
      <3> QED
        BY <1>3, <2>1, <3>2 DEF Kept, Kin
    <2>2. CASE ~(request.kind = "start" /\ request.calm /\ request.found = {})
      <3>1. basis' = basis
        BY <1>1, <2>2
      <3>2. CodeStartHolds(basis)' = CodeStartHolds(basis)
        BY <1>2, <3>1, SameFacts
      <3> QED
        BY <1>3, <3>1, <3>2 DEF StartInv, Kept, Kin
    <2> QED
      BY <2>1, <2>2
  <1> QED
    BY <1>4, <1>5, <1>6, <1>8, <1>9 DEF StartInv

\* Every reachable state of Code Start satisfies the inductive invariant.
THEOREM StartInvariance == StartSpec => []StartInv
  <1>1. StartInv /\ [StartNext]_startVars => StartInv'
    <2> SUFFICES ASSUME StartInv, [StartNext]_startVars PROVE StartInv'
      OBVIOUS
    <2>1. CASE GateGoes
      BY <2>1, SelectKeeps, ProbeKeeps, SweepKeeps, ReadKeeps, DiffKeeps, CheckKeeps, RecheckKeeps,
         GitFailsKeeps, DecideKeeps DEF GateGoes
    <2>2. CASE UNCHANGED startVars
      <3>1. UNCHANGED facts /\ UNCHANGED versions /\ request' = request /\ basis' = basis
        BY <2>2 DEF startVars
      <3>2. Given' = Given
        BY <3>1 DEF Given
      <3>3. CallTypes' /\ Fits' /\ Noticed'
        BY <3>1 DEF StartInv, CallTypes, StartTypeOK, Fits, Noticed, facts, versions, Untracked
      <3>4. Probing' /\ Established'
        BY <3>1, <3>2, SameFacts DEF StartInv, Probing, Established, facts
      <3>5. FormalChangeIsProved' /\ Kept'
        BY <3>1, SameFacts DEF StartInv, FormalChangeIsProved, Kept, Kin
      <3> QED
        BY <3>3, <3>4, <3>5 DEF StartInv
    <2> QED
      BY <2>1, <2>2, AskKeeps, FactsMoveKeeps, PathMovesKeeps DEF StartNext
  <1> QED
    BY <1>1, InitStart, PTL DEF StartSpec

\* The values of both gates stay in their ranges.
THEOREM GateTypes == StartSpec /\ FrontendSpec => []GatesTypeOK
  <1>1. StartInv => StartTypeOK
    BY DEF StartInv, CallTypes
  <1>2. FrontendInv => FrontendTypeOK
    BY DEF FrontendInv
  <1> QED
    BY <1>1, <1>2, StartInvariance, FrontendInvariance, PTL DEF GatesTypeOK

\* A Finish that is allowed over a formal change that stayed where it was rests on what
\* Code Start asks for, in whichever order Git, files and remotes were asked and changed.
THEOREM FormalChangesAreProved == StartSpec => []FormalChangeIsProved
  <1>1. StartInv => FormalChangeIsProved
    BY DEF StartInv
  <1> QED
    BY <1>1, StartInvariance, PTL

\* As long as no fact moves, what Start has allowed is blocked neither by the hook nor by
\* the Code Start layer of Finish.
THEOREM StartsAreKept == StartSpec => []StartIsKept
  <1>1. StartInv => StartIsKept
    BY DEF StartInv, CallTypes, Calls, Kept, Kin, StartIsKept
  <1> QED
    BY <1>1, StartInvariance, PTL
=============================================================================
