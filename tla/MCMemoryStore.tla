---------------------------- MODULE MCMemoryStore ----------------------------
(***************************************************************************)
(* Three records: two with one id, of which one has been superseded, and    *)
(* one that has the same title and another summary; a fourth has a title of *)
(* its own, so that two active records can stand one above the other.       *)
(***************************************************************************)
EXTENDS MemoryStore, TLC

CONSTANTS lesson, old, rewritten, other

IdOf(d) == IF d = old THEN lesson ELSE d
TitleOf(d) == IF d = other THEN "other" ELSE "title"
ActiveOf(d) == d # old

\* The fourth record is not submitted; an accept is called with an id, which two records
\* share.  One call searches at a time, together with what it has found: to the other one
\* a search is what a rebuild of the index is.
Narrow ==
    /\ \A c \in Callers :
         /\ op[c] \in {"submit", "accept"} => draft[c] # other
         /\ op[c] = "accept" /\ pc[c] = "waiting" => draft[c] # old
    /\ \A b, c \in Callers : b # c => ~({op[b], op[c]} \subseteq {"search", "found"})

MCSpec == Init /\ [][Next /\ Narrow']_vars

Symmetry == Permutations(Callers \ Worktrees)
=============================================================================
