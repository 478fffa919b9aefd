---------------------------- MODULE MemoryPromise ----------------------------
(***************************************************************************)
(* What the memory store promises to those who call it, as if nothing but   *)
(* sets of records were there: no file that is read and replaced, no index  *)
(* and no lock.  A call takes effect at one step, returns "done" only when  *)
(* it has, and may fail before or after that.                               *)
(***************************************************************************)
EXTENDS Naturals, FiniteSets

CONSTANTS
    Callers, Worktrees, Drafts,
    Id(_), Title(_), Active(_),
    Limit,   \* how many records a search asks for
    NoDraft

VARIABLES
    facts,      \* the records
    above,      \* those that were there before each of them
    candidates, \* what has been submitted and neither merged nor rejected
    call,       \* what each caller is at, or what its last call came to
    about,      \* the record its call is about
    since,      \* the facts when it called search
    answer      \* what its search has found

vars == <<facts, above, candidates, call, about, since, answer>>

Over == {"none", "done", "failed", "found"}

Init ==
    /\ facts = {} /\ candidates = {}
    /\ above = [d \in Drafts |-> {}]
    /\ call = [c \in Callers |-> "none"]
    /\ about = [c \in Callers |-> NoDraft]
    /\ since = [c \in Callers |-> {}]
    /\ answer = [c \in Callers |-> {}]

Begin(c, what, d) ==
    /\ about' = [about EXCEPT ![c] = d]
    /\ call' = [call EXCEPT ![c] = what]
    /\ since' = [since EXCEPT ![c] = IF what = "search" THEN facts ELSE {}]
    /\ answer' = [answer EXCEPT ![c] = {}]
    /\ UNCHANGED <<facts, above, candidates>>

\* Only a main session records, accepts and rejects; what is rejected is there.
Call(c) ==
    /\ call[c] \in Over
    /\ \/ \E d \in Drafts : Begin(c, "submit", d)
       \/ c \notin Worktrees /\ \E d \in Drafts : Begin(c, "record", d) \/ Begin(c, "accept", d)
       \/ c \notin Worktrees /\ \E d \in candidates : Begin(c, "reject", d)
       \/ Begin(c, "reindex", NoDraft) \/ Begin(c, "search", NoDraft)

Goes(c, from, to) == call[c] = from /\ call' = [call EXCEPT ![c] = to]
Returns(c, how) ==
    /\ about' = [about EXCEPT ![c] = NoDraft]
    /\ call' = [call EXCEPT ![c] = how]
    /\ UNCHANGED since

Taken(d) == \E e \in facts : Id(e) = Id(d) \/ (Active(e) /\ Title(e) = Title(d))

\* A record becomes a fact if, at this step, none is like it.
Add(c) ==
    /\ Goes(c, "record", "recorded") \/ Goes(c, "accepting", "merged")
    /\ ~Taken(about[c])
    /\ facts' = facts \cup {about[c]}
    /\ above' = [above EXCEPT ![about[c]] = facts]
    /\ UNCHANGED <<candidates, about, since, answer>>

\* accept takes the candidate there is under the name it was given, and has nothing to add
\* when a fact is identical to it.
Pick(c) ==
    /\ Goes(c, "accept", "accepting")
    /\ \E d \in candidates : Id(d) = Id(about[c]) /\ about' = [about EXCEPT ![c] = d]
    /\ UNCHANGED <<facts, above, candidates, since, answer>>
FindMerged(c) ==
    /\ about[c] \in facts
    /\ Goes(c, "accepting", "merged")
    /\ UNCHANGED <<facts, above, candidates, about, since, answer>>

\* The candidate goes that has been merged, and no other.
Clear(c) ==
    /\ call[c] = "merged" /\ Returns(c, "done")
    /\ candidates' = candidates \ {about[c]}
    /\ UNCHANGED <<facts, above, answer>>

\* The only candidate of its name.
Keep(c) ==
    /\ call[c] = "submit" /\ Returns(c, "done")
    /\ \A d \in candidates : Id(d) = Id(about[c]) => d = about[c]
    /\ candidates' = candidates \cup {about[c]}
    /\ UNCHANGED <<facts, above, answer>>

\* Done if a candidate of that name was there.
Discard(c) ==
    LET named == {d \in candidates : Id(d) = Id(about[c])} IN
    /\ call[c] = "reject" /\ Returns(c, IF named = {} THEN "failed" ELSE "done")
    /\ candidates' = candidates \ named
    /\ UNCHANGED <<facts, above, answer>>

Confirm(c) ==
    /\ call[c] \in {"recorded", "reindex"} /\ Returns(c, "done")
    /\ UNCHANGED <<facts, above, candidates, answer>>

\* The oldest of a set, all of it or as many as are asked for.
Top(rows, set) ==
    /\ rows = set \/ Cardinality(rows) = Limit
    /\ Cardinality(rows) <= Limit
    /\ \A d \in set \ rows : rows \subseteq above[d]

\* The oldest of the active ones of some facts, of those at least that were there at the call.
Tell(c) ==
    /\ call[c] = "search" /\ Returns(c, "found")
    /\ \E seen \in SUBSET facts : \E rows \in SUBSET {d \in seen : Active(d)} :
         /\ since[c] \subseteq seen
         /\ Top(rows, {d \in seen : Active(d)})
         /\ answer' = [answer EXCEPT ![c] = rows]
    /\ UNCHANGED <<facts, above, candidates>>

Fail(c) ==
    /\ call[c] \notin Over /\ Returns(c, "failed")
    /\ UNCHANGED <<facts, above, candidates, answer>>

Next ==
    \E c \in Callers :
      \/ Call(c) \/ Add(c) \/ Pick(c) \/ FindMerged(c) \/ Clear(c) \/ Keep(c)
      \/ Discard(c) \/ Confirm(c) \/ Tell(c) \/ Fail(c)

Spec == Init /\ [][Next]_vars
=============================================================================
