---------------------------- MODULE FinishPromise ----------------------------
(***************************************************************************)
(* What Finish promises to those who only know a run id.  A run is opened   *)
(* once; it then settles on one result for good, or is lost because its     *)
(* owner ended without one.  Whoever asks is told the result if there is    *)
(* one, "interrupted" only of a lost run, and "running" only of a run that  *)
(* was not lost at that moment; where questions collide, one that meets     *)
(* another about the same run may be told "running" of a lost run as well.  *)
(***************************************************************************)
CONSTANTS RunIds, Queries, Results,
          Collide  \* two who look for one owner get in each other's way

VARIABLES
    state,   \* "absent", "open", "lost" or a result, of each run
    place,   \* a query is "idle", "asking", "undecided" or "answered"
    asked,   \* the run it is about
    answer

vars == <<state, place, asked, answer>>

Settled(r) == state[r] \in Results

Init ==
    /\ state = [r \in RunIds |-> "absent"]
    /\ place = [q \in Queries |-> "idle"]
    /\ asked \in [Queries -> RunIds]
    /\ answer = [q \in Queries |-> "none"]

Become(r, from, to) == state[r] = from /\ state' = [state EXCEPT ![r] = to]

Open(r) == Become(r, "absent", "open") /\ UNCHANGED <<place, asked, answer>>
Lose(r) == Become(r, "open", "lost") /\ UNCHANGED <<place, asked, answer>>
Settle(r) == /\ \E result \in Results : Become(r, "open", result)
             /\ UNCHANGED <<place, asked, answer>>

Move(q, from, to) == place[q] = from /\ place' = [place EXCEPT ![q] = to]

Ask(q) == Move(q, "idle", "asking") /\ UNCHANGED <<state, asked, answer>>

Tell(q, from, what) ==
    /\ Move(q, from, "answered")
    /\ answer' = [answer EXCEPT ![q] = what]
    /\ UNCHANGED <<state, asked>>

TellAtOnce(q) ==
    \/ state[asked[q]] = "absent" /\ Tell(q, "asking", "not_found")
    \/ Settled(asked[q]) /\ Tell(q, "asking", state[asked[q]])

\* The run exists and has no result yet: its owner must be looked for.
Undecided(q) ==
    /\ state[asked[q]] \in {"open", "lost"}
    /\ Move(q, "asking", "undecided")
    /\ UNCHANGED <<state, asked, answer>>

Disturbed(q) ==
    Collide /\ \E p \in Queries \ {q} : asked[p] = asked[q] /\ place[p] = "undecided"

TellRunning(q) ==
    (state[asked[q]] # "lost" \/ Disturbed(q)) /\ Tell(q, "undecided", "running")
TellLost(q) == state[asked[q]] = "lost" /\ Tell(q, "undecided", "interrupted")
CannotTell(q) == Tell(q, "undecided", "liveness_unavailable")

\* The result arrived while the owner was being looked for: ask again.
AskAgain(q) ==
    /\ Settled(asked[q])
    /\ Move(q, "undecided", "asking")
    /\ UNCHANGED <<state, asked, answer>>

Next ==
    \/ \E r \in RunIds : Open(r) \/ Settle(r) \/ Lose(r)
    \/ \E q \in Queries : \/ Ask(q) \/ TellAtOnce(q) \/ Undecided(q) \/ TellRunning(q)
                          \/ TellLost(q) \/ CannotTell(q) \/ AskAgain(q)

Spec == Init /\ [][Next]_vars
=============================================================================
