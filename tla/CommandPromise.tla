---------------------------- MODULE CommandPromise ----------------------------
(***************************************************************************)
(* What run_owned and its caller promise about a command: its process is on *)
(* record before it runs, and only a caller that dies, or says that the     *)
(* command failed, leaves it behind.                                        *)
(***************************************************************************)
VARIABLES
    at,    \* the caller is "idle", "calling" run_owned or "dead"
    tree,  \* "none", "waiting" for the command, "recorded" as well, or "running"
    failed \* the caller has said that the command failed

vars == <<at, tree, failed>>

Init == at = "idle" /\ tree = "none" /\ failed = FALSE

Grows(from, to) == tree = from /\ tree' = to

\* A process that waits for its command.
Spawn ==
    /\ at = "idle" /\ at' = "calling" /\ ~failed
    /\ Grows("none", "waiting")
    /\ UNCHANGED failed

Record ==
    /\ at = "calling"
    /\ Grows("waiting", "recorded")
    /\ UNCHANGED <<at, failed>>

\* It has the command, so it may start it when its caller is dead.
Start ==
    /\ Grows("recorded", "running")
    /\ UNCHANGED <<at, failed>>

\* All of the tree has exited or was killed.
Vanish == tree' = "none" /\ UNCHANGED <<at, failed>>

Return ==
    /\ at = "calling" /\ at' = "idle"
    /\ tree' = "none"
    /\ UNCHANGED failed

\* Nothing is said of the tree, but that no more of it starts in this step.
Fail ==
    /\ at \in {"calling", "idle"} /\ at' = "idle"
    /\ tree' \in {tree, "none"}
    /\ failed' = TRUE

Die ==
    /\ at' = "dead"
    /\ tree' \in {tree, "none"}
    /\ UNCHANGED failed

Next == Spawn \/ Record \/ Start \/ Vanish \/ Return \/ Fail \/ Die

Spec == Init /\ [][Next]_vars
===============================================================================
