----------------------------- MODULE MemoryStore -----------------------------
(***************************************************************************)
(* infrastructure/memory.py: the JSONL file of facts, the files of          *)
(* candidates submitted by worktrees, and the rebuildable search index.     *)
(* Calls come from several processes.  Every writer but reject_candidate    *)
(* works under memory.lock; a search rebuilds the index under the lock and  *)
(* reads it afterwards without.  Any step under the lock may fail, any      *)
(* process may die, and the JSONL file may be edited by hand at any time.   *)
(*                                                                          *)
(* A record is a member of Drafts: what _build_entry makes of valid input.  *)
(* Its id is a hash of type, title, summary and source, so one id has one   *)
(* type and title, and may come with different tags, commit or status.      *)
(* Of line numbers their order is kept; the terms of a search are left out. *)
(***************************************************************************)
EXTENDS Naturals, FiniteSets

CONSTANTS
    Callers,    \* processes of main sessions, CLI calls and MCP servers
    Worktrees,  \* those of them that run in a registered worktree
    Drafts,     \* the records they may submit
    Id(_),      \* the id of a record
    Title(_),   \* its type and title, as compared for duplicates
    Active(_),  \* its status is "active"
    Limit,      \* how many rows a search asks for
    NoOne, NoDraft

ASSUME ConstantsAssumption ==
    /\ Limit \in Nat \ {0}
    /\ Worktrees \subseteq Callers
    /\ NoOne \notin Callers /\ NoDraft \notin Drafts
    /\ \A d, e \in Drafts : Id(d) = Id(e) => Title(d) = Title(e)
    /\ \A d \in Drafts : Active(d) \in BOOLEAN

VARIABLES
    facts,       \* the valid lines of memory.jsonl
    above,       \* the facts on the lines above each of them
    invalid,     \* it has a line that does not parse
    candidates,  \* the records in memory-candidates/, one file per id
    index,       \* the rows of memory_index
    lock,        \* who holds memory.lock
    pc, op,      \* where each caller stands, in which operation
    draft,       \* the record it is about
    view,        \* the lines it parsed last
    found,       \* the rows its search returned
    known        \* the facts when it called (observed, not in the code)

store == <<facts, above, invalid, candidates, index>>
callVars == <<op, draft, view, found, known>>
vars == <<store, lock, pc, callVars>>

Critical == {"submitting", "reading", "checking", "writing", "parsing", "committing", "removing"}

TypeOK ==
    /\ facts \subseteq Drafts /\ candidates \subseteq Drafts /\ index \subseteq Drafts
    /\ above \in [Drafts -> SUBSET Drafts]
    /\ invalid \in BOOLEAN
    /\ lock \in Callers \cup {NoOne}
    /\ pc \in [Callers -> {"idle", "waiting", "rejecting", "querying"} \cup Critical]
    /\ op \in [Callers -> {"none", "record", "submit", "accept", "merged", "reject", "reindex",
                           "search", "done", "failed", "found"}]
    /\ draft \in [Callers -> Drafts \cup {NoDraft}]
    /\ view \in [Callers -> SUBSET Drafts]
    /\ found \in [Callers -> SUBSET Drafts]
    /\ known \in [Callers -> SUBSET Drafts]

Init ==
    /\ facts = {} /\ invalid = FALSE /\ candidates = {} /\ index = {}
    /\ above = [d \in Drafts |-> {}]
    /\ lock = NoOne
    /\ pc = [c \in Callers |-> "idle"]
    /\ op = [c \in Callers |-> "none"]
    /\ draft = [c \in Callers |-> NoDraft]
    /\ view = [c \in Callers |-> {}]
    /\ found = [c \in Callers |-> {}]
    /\ known = [c \in Callers |-> {}]

Goto(c, from, to) == pc[c] = from /\ pc' = [pc EXCEPT ![c] = to]
Begin(c, what, d, to) ==
    /\ Goto(c, "idle", to)
    /\ op' = [op EXCEPT ![c] = what]
    /\ draft' = [draft EXCEPT ![c] = d]
    /\ known' = [known EXCEPT ![c] = IF what = "search" THEN facts ELSE {}]
    /\ found' = [found EXCEPT ![c] = {}]
    /\ UNCHANGED <<store, lock, view>>

\* The call returns or raises; the context manager releases the lock.
Finish(c, how) ==
    /\ pc' = [pc EXCEPT ![c] = "idle"]
    /\ op' = [op EXCEPT ![c] = how]
    /\ draft' = [draft EXCEPT ![c] = NoDraft]
    /\ view' = [view EXCEPT ![c] = {}]
    /\ lock' = IF lock = c THEN NoOne ELSE lock
Continue(c, to) ==
    /\ pc' = [pc EXCEPT ![c] = to]
    /\ UNCHANGED lock

-----------------------------------------------------------------------------
(***************************************************************************)
(* The calls.  Worktrees submit and search; only a main session records,    *)
(* accepts and rejects.                                                     *)
(***************************************************************************)
Main(c) == c \notin Worktrees

Record(c) == Main(c) /\ \E d \in Drafts : Begin(c, "record", d, "waiting")
Submit(c) == \E d \in Drafts : Begin(c, "submit", d, "waiting")
Accept(c) == Main(c) /\ \E d \in Drafts : Begin(c, "accept", d, "waiting")
Reindex(c) == Begin(c, "reindex", NoDraft, "waiting")
Search(c) == Begin(c, "search", NoDraft, "waiting")

\* reject_candidate looks for the file without the lock ...
Reject(c) == Main(c) /\ \E d \in candidates : Begin(c, "reject", d, "rejecting")

WithId(set, d) == {e \in set : Id(e) = Id(d)}

\* ... and unlinks whatever has that name by then, or raises because nothing has.
Unlink(c) ==
    /\ pc[c] = "rejecting"
    /\ candidates' = candidates \ WithId(candidates, draft[c])
    /\ Finish(c, IF WithId(candidates, draft[c]) = {} THEN "failed" ELSE "done")
    /\ UNCHANGED <<facts, above, invalid, index, found, known>>

First(operation) ==
    CASE operation = "submit" -> "submitting"
      [] operation = "accept" -> "reading"
      [] operation = "record" -> "checking"
      [] OTHER -> "parsing"

\* Mutant: the lock is not taken.
LockIgnored(c) ==
    /\ Goto(c, "waiting", First(op[c]))
    /\ UNCHANGED <<store, callVars, lock>>

Lock(c) ==
    /\ lock = NoOne
    /\ Goto(c, "waiting", First(op[c]))
    /\ lock' = c
    /\ UNCHANGED <<store, callVars>>

-----------------------------------------------------------------------------
(***************************************************************************)
(* Under the lock.                                                          *)
(***************************************************************************)

\* Mutant: a candidate is written over another one with its id.
OverwriteCandidate(c) ==
    /\ pc[c] = "submitting"
    /\ candidates' = (candidates \ WithId(candidates, draft[c])) \cup {draft[c]}
    /\ Finish(c, "done")
    /\ UNCHANGED <<facts, above, invalid, index, found, known>>

\* A different candidate with the same id is preserved and this one refused.
WriteCandidate(c) ==
    /\ pc[c] = "submitting"
    /\ IF WithId(candidates, draft[c]) \subseteq {draft[c]}
       THEN candidates' = candidates \cup {draft[c]} /\ Finish(c, "done")
       ELSE Finish(c, "failed") /\ UNCHANGED candidates
    /\ UNCHANGED <<facts, above, invalid, index, found, known>>

\* accept names an id; what is merged is what its file holds now.
ReadCandidate(c) ==
    /\ pc[c] = "reading"
    /\ \/ \E d \in WithId(candidates, draft[c]) :
            /\ draft' = [draft EXCEPT ![c] = d]
            /\ Continue(c, "checking")
            /\ UNCHANGED <<op, view>>
       \/ WithId(candidates, draft[c]) = {} /\ Finish(c, "failed")
    /\ UNCHANGED <<store, found, known>>

\* Mutant: only the id is compared.
SameId(d) == WithId(facts, d) # {}

\* The id is taken, or an active record has this type and title.
Duplicate(d) == \E e \in facts : Id(e) = Id(d) \/ (Active(e) /\ Title(e) = Title(d))

\* All fields are identical to those of a record.
Merged(d) == d \in facts

\* A duplicate is refused, except that a candidate which is already merged as it
\* stands only has its index and its file left to do.
Check(c) ==
    /\ pc[c] = "checking"
    /\ LET d == draft[c]
           retried == op[c] = "accept" /\ Merged(d) IN
       \/ /\ ~invalid /\ ~Duplicate(d)
          /\ view' = [view EXCEPT ![c] = facts]
          /\ Continue(c, "writing")
          /\ UNCHANGED <<op, draft>>
       \/ /\ ~invalid /\ Duplicate(d) /\ retried
          /\ op' = [op EXCEPT ![c] = "merged"]
          /\ Continue(c, "parsing")
          /\ UNCHANGED <<draft, view>>
       \/ /\ invalid \/ (Duplicate(d) /\ ~retried)
          /\ Finish(c, "failed")
    /\ UNCHANGED <<store, found, known>>

\* The whole file is replaced by the lines parsed before and the new one.
Write(c) ==
    /\ Goto(c, "writing", "parsing")
    /\ facts' = view[c] \cup {draft[c]}
    /\ above' = [above EXCEPT ![draft[c]] = view[c]]
    /\ invalid' = FALSE
    /\ op' = [op EXCEPT ![c] = IF @ = "accept" THEN "merged" ELSE @]
    /\ UNCHANGED <<candidates, index, lock, draft, view, found, known>>

\* After the index comes the candidate's file; a search reads what it has built.
Indexed(c) ==
    CASE op[c] = "merged" -> Continue(c, "removing") /\ UNCHANGED <<op, draft, view>>
      [] op[c] = "search" -> /\ pc' = [pc EXCEPT ![c] = "querying"]
                             /\ lock' = NoOne
                             /\ view' = [view EXCEPT ![c] = {}]
                             /\ UNCHANGED <<op, draft>>
      [] OTHER -> Finish(c, "done")

\* An invalid line leaves the index as it was.  search raises; the writers do not
\* look at what _reindex_locked returns.
Parse(c) ==
    /\ pc[c] = "parsing"
    /\ \/ /\ ~invalid
          /\ view' = [view EXCEPT ![c] = facts]
          /\ Continue(c, "committing")
          /\ UNCHANGED <<op, draft>>
       \/ invalid /\ op[c] = "search" /\ Finish(c, "failed")
       \/ invalid /\ op[c] # "search" /\ Indexed(c)
    /\ UNCHANGED <<store, found, known>>

\* Mutants: the row of this call is inserted and the others are taken to be there,
\* with or without looking whether the call has one.
IndexAny(c) ==
    /\ pc[c] = "committing"
    /\ index' = view[c] \cup {draft[c]}
    /\ Indexed(c)
    /\ UNCHANGED <<facts, above, invalid, candidates, found, known>>
IndexOwn(c) ==
    /\ pc[c] = "committing"
    /\ index' = index \cup ({draft[c]} \ {NoDraft})
    /\ Indexed(c)
    /\ UNCHANGED <<facts, above, invalid, candidates, found, known>>

\* One transaction empties memory_index and fills it again.
Commit(c) ==
    /\ pc[c] = "committing"
    /\ index' = view[c]
    /\ Indexed(c)
    /\ UNCHANGED <<facts, above, invalid, candidates, found, known>>

Remove(c) ==
    /\ pc[c] = "removing"
    /\ candidates' = candidates \ WithId(candidates, draft[c])
    /\ Finish(c, "done")
    /\ UNCHANGED <<facts, above, invalid, index, found, known>>

\* ORDER BY line_number LIMIT: those rows of a set, all or as many as are asked for, that
\* are above all others of it.
Top(rows, set) ==
    /\ rows = set \/ Cardinality(rows) = Limit
    /\ Cardinality(rows) <= Limit
    /\ \A d \in set \ rows : rows \subseteq above[d]

\* The first rows with status "active", read in a transaction of its own.
Query(c) ==
    /\ pc[c] = "querying"
    /\ \E rows \in SUBSET {d \in index : Active(d)} :
         /\ Top(rows, {d \in index : Active(d)})
         /\ found' = [found EXCEPT ![c] = rows]
    /\ Finish(c, "found")
    /\ UNCHANGED <<store, known>>

\* A file cannot be read, written, replaced or unlinked, or the database is busy.
Fails(c) ==
    /\ pc[c] \in Critical \cup {"querying"}
    /\ Finish(c, "failed")
    /\ UNCHANGED <<store, found, known>>

-----------------------------------------------------------------------------
(***************************************************************************)
(* The environment.                                                         *)
(***************************************************************************)

\* The process dies wherever it is, and another takes its place.
Crash(c) ==
    /\ pc[c] # "idle"
    /\ Finish(c, "failed")
    /\ UNCHANGED <<store, found, known>>

\* An invalid line is added to memory.jsonl by hand, or removed again.
Edit ==
    /\ invalid' = ~invalid
    /\ UNCHANGED <<facts, above, candidates, index, lock, pc, callVars>>

Next ==
    \/ \E c \in Callers :
         \/ Record(c) \/ Submit(c) \/ Accept(c) \/ Reject(c) \/ Reindex(c) \/ Search(c)
         \/ Unlink(c) \/ Lock(c) \/ WriteCandidate(c) \/ ReadCandidate(c) \/ Check(c) \/ Write(c)
         \/ Parse(c) \/ Commit(c) \/ Remove(c) \/ Query(c) \/ Fails(c) \/ Crash(c)
    \/ Edit

Spec == Init /\ [][Next]_vars

-----------------------------------------------------------------------------
(***************************************************************************)
(* Safety.                                                                  *)
(***************************************************************************)

\* No writer ever loses a record another one has written, and a record or merge that
\* returned is in the file: "read, check, replace, reindex" is one critical section
\* (docs/MEMORY.md).
NothingLost ==
    [][/\ facts \subseteq facts'
       /\ \A c \in Callers :
            op[c] \in {"record", "merged"} /\ op'[c] = "done" => draft[c] \in facts']_vars

\* Two records never share an id, and at most one active record has a type and title:
\* the duplicate check and the write see the same file.
NoDuplicates ==
    \A d, e \in facts :
      d # e => Id(d) # Id(e) /\ (Active(d) /\ Active(e) => Title(d) # Title(e))

\* Its last parse was after its write and has met no broken line.
Reparsed(c) == draft[c] \in view[c]

\* A candidate disappears only when it is rejected, or by an accept when its very record
\* is a fact and, unless the accept has met a broken line, in the index; also when the merge
\* fails or the process dies in the middle of it.  docs/MEMORY.md:20 and the docstring of
\* _accept_candidate want the candidate kept whenever the index was not refreshed; but a
\* broken line only stops the rebuild, whose invalid_lines neither _record nor
\* _accept_candidate look at (:178, :274), and the candidate goes.
CandidatesSurvive ==
    [][\A d \in candidates \ candidates' : \E c \in Callers :
         \/ Unlink(c) /\ Id(draft[c]) = Id(d)
         \/ Remove(c) /\ draft[c] = d /\ d \in facts /\ (Reparsed(c) => d \in index)]_candidates

\* Whoever called search finds every active record written before the call, unless the
\* answer is full: then what is missing stands below all that was found.  And nothing is
\* found that is not a fact, however many writers and rebuilds ran beside it.
SearchIsCurrent ==
    \A c \in Callers : op[c] = "found" =>
      /\ \A d \in known[c] : Active(d) =>
           d \in found[c] \/ (Cardinality(found[c]) = Limit /\ found[c] \subseteq above[d])
      /\ found[c] \subseteq facts

\* "Discard one candidate without touching the JSONL": a candidate that was rejected
\* is not merged afterwards by an accept that had read it before.
RejectedIsNotMerged ==
    [][\A c \in Callers : op[c] = "accept" /\ Write(c) => draft[c] \in candidates]_facts

(***************************************************************************)
(* Refinement: a record has been recorded once the file is replaced, and an *)
(* accept knows its record once it has read the candidate.                  *)
(***************************************************************************)
CallOf(c) ==
    CASE op[c] = "record" /\ pc[c] \in {"parsing", "committing"} -> "recorded"
      [] op[c] = "accept" /\ pc[c] \in {"checking", "writing"} -> "accepting"
      [] OTHER -> op[c]

Promise == INSTANCE MemoryPromise WITH
    call <- [c \in Callers |-> CallOf(c)],
    about <- draft,
    since <- known,
    answer <- found

\* Files that are read and replaced, an index rebuilt beside its readers, and one call that
\* works without the lock: to its callers each operation is one step on sets of records, and
\* what is told to them is true of it (docs/MEMORY.md).
StoreKeepsPromise == Promise!Spec
=============================================================================
