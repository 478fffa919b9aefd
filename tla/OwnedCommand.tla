---------------------------- MODULE OwnedCommand ----------------------------
(***************************************************************************)
(* process_control.py: one call of run_owned.  The owner starts a bootstrap *)
(* that waits for its payload on a pipe, puts it into a Windows job (or a   *)
(* POSIX process group of its own), reports its pid, and only then sends    *)
(* the command to run; it polls, and in the end kills whatever is left of   *)
(* the tree.  The bootstrap, the command and its background descendants run *)
(* beside it; cancellation, the deadline, errors and the owner's death may  *)
(* come at any step.                                                        *)
(*                                                                          *)
(* Descendants that leave the process group (setsid), output, and pids used *)
(* again by the system are left out.                                        *)
(***************************************************************************)
CONSTANT Platforms  \* the systems the call may run on, of "nt" and "posix"

ASSUME PlatformsAssumption == Platforms \subseteq {"nt", "posix"}

VARIABLES
    platform,
    pc,        \* where the owner stands
    job,       \* the Windows job object
    stopped,   \* what the call is going to raise
    outcome,   \* what it returned (the exit status) or raised
    recorded,  \* on_spawn has returned
    payload,   \* the pipe of the bootstrap holds the payload
    boot, rc,  \* the bootstrap process and its exit status
    diag,      \* the bootstrap's diagnostic file
    command, child, \* the command, and a descendant of it in the background
    doomed,    \* the tree has been sent SIGKILL, or its job was terminated
    cancelled, expired \* the caller's event is set; the deadline has passed

owner == <<pc, stopped, outcome>>
tree == <<boot, rc, diag, command, child>>
signals == <<cancelled, expired>>
vars == <<platform, owner, job, recorded, payload, tree, doomed, signals>>

Started == {"assigning", "telling", "checking", "sending", "watching", "looking"}
Errors == {"cancelled", "timed_out", "unavailable", "failed"}

TypeOK ==
    /\ platform \in Platforms
    /\ pc \in {"start", "spawning", "killing", "confirming", "collecting", "ended", "dead"} \cup Started
    /\ job \in {"none", "open", "assigned", "closed"}
    /\ stopped \in Errors \cup {"none"}
    /\ outcome \in Errors \cup {"none", "zero", "nonzero"}
    /\ recorded \in BOOLEAN /\ payload \in BOOLEAN /\ doomed \in BOOLEAN
    /\ boot \in {"none", "waiting", "running", "exited"}
    /\ rc \in {"none", "zero", "nonzero"}
    /\ diag \in {"none", "timed_out", "unavailable"}
    /\ command \in {"none", "running", "succeeded", "other"}
    /\ child \in {"none", "running", "gone"}
    /\ cancelled \in BOOLEAN /\ expired \in BOOLEAN

Init ==
    /\ platform \in Platforms
    /\ pc = "start" /\ job = "none" /\ stopped = "none" /\ outcome = "none"
    /\ recorded = FALSE /\ payload = FALSE /\ doomed = FALSE
    /\ boot = "none" /\ rc = "none" /\ diag = "none" /\ command = "none" /\ child = "none"
    /\ cancelled \in BOOLEAN /\ expired = FALSE

Alive == boot \in {"waiting", "running"} \/ command = "running" \/ child = "running"

Goto(from, to) == pc = from /\ pc' = to /\ UNCHANGED <<stopped, outcome>>
\* An exception leaves the try block: the finally block kills the tree.
Raise(error) ==
    /\ pc' = IF boot = "none" THEN "collecting" ELSE "killing"
    /\ stopped' = error
    /\ UNCHANGED outcome
Return(result) == pc' = "ended" /\ outcome' = result /\ UNCHANGED stopped

-----------------------------------------------------------------------------
(***************************************************************************)
(* The owner.                                                               *)
(***************************************************************************)
Enter ==
    /\ \/ cancelled /\ pc = "start" /\ Return("cancelled")
       \/ ~cancelled /\ Goto("start", "spawning")
    /\ UNCHANGED <<platform, job, recorded, payload, tree, doomed, signals>>

Spawn ==
    /\ Goto("spawning", IF platform = "nt" THEN "assigning" ELSE "telling")
    /\ job' = IF platform = "nt" THEN "open" ELSE "none"
    /\ boot' = "waiting"
    /\ UNCHANGED <<platform, recorded, payload, rc, diag, command, child, doomed, signals>>

Assign ==
    /\ Goto("assigning", "telling")
    /\ job' = "assigned"
    /\ UNCHANGED <<platform, recorded, payload, tree, doomed, signals>>

Tell ==
    /\ Goto("telling", "checking")
    /\ recorded' = TRUE
    /\ UNCHANGED <<platform, job, payload, tree, doomed, signals>>

CheckFirst ==
    /\ pc = "checking"
    /\ \/ cancelled /\ Raise("cancelled")
       \/ ~cancelled /\ expired /\ Raise("timed_out")
       \/ ~cancelled /\ ~expired /\ Goto("checking", "sending")
    /\ UNCHANGED <<platform, job, recorded, payload, tree, doomed, signals>>

\* Mutant: the payload is sent as soon as the bootstrap is there, on_spawn comes after.
SendEarly ==
    /\ pc \in {"telling", "sending"}
    /\ pc' = IF pc = "sending" THEN "watching" ELSE pc
    /\ payload' = TRUE
    /\ UNCHANGED <<platform, job, stopped, outcome, recorded, tree, doomed, signals>>

\* The pipe is broken when the bootstrap is gone.
Send ==
    /\ pc = "sending"
    /\ \/ boot = "waiting" /\ Goto("sending", "watching") /\ payload' = TRUE
       \/ boot = "exited" /\ Raise("failed") /\ UNCHANGED payload
    /\ UNCHANGED <<platform, job, recorded, tree, doomed, signals>>

Poll ==
    /\ Goto("watching", IF boot = "exited" THEN "killing" ELSE "looking")
    /\ UNCHANGED <<platform, job, recorded, payload, tree, doomed, signals>>

Look ==
    /\ pc = "looking"
    /\ \/ cancelled /\ Raise("cancelled")
       \/ ~cancelled /\ expired /\ Raise("timed_out")
       \/ ~cancelled /\ ~expired /\ Goto("looking", "watching")
    /\ UNCHANGED <<platform, job, recorded, payload, tree, doomed, signals>>

\* Anything in the try block may raise: a job or process that cannot be made, a record
\* on_spawn cannot write, an interrupt.
Fails ==
    /\ pc \in Started \cup {"spawning"}
    /\ Raise("failed")
    /\ UNCHANGED <<platform, job, recorded, payload, tree, doomed, signals>>

\* The job, the lone bootstrap or the process group: in each case all there is.
Kill ==
    /\ Goto("killing", "confirming")
    /\ doomed' = TRUE
    /\ UNCHANGED <<platform, job, recorded, payload, tree, signals>>

\* Mutant: the job does not kill on close.
LeaveJob ==
    /\ job' = IF job \in {"open", "assigned"} THEN "closed" ELSE job
    /\ UNCHANGED doomed

\* Closing the job kills what is left in it.
Close ==
    /\ job' = IF job \in {"open", "assigned"} THEN "closed" ELSE job
    /\ doomed' = (doomed \/ job = "assigned")

\* Mutant: it is enough that the process that was started has exited.
ConfirmLeader ==
    /\ boot = "exited"
    /\ Goto("confirming", "collecting")
    /\ Close
    /\ UNCHANGED <<platform, recorded, payload, tree, signals>>

Confirm ==
    /\ ~Alive
    /\ Goto("confirming", "collecting")
    /\ Close
    /\ UNCHANGED <<platform, recorded, payload, tree, signals>>

\* The kill fails, or the exit cannot be confirmed within five seconds: this error
\* replaces the one on its way.
Unconfirmed ==
    /\ pc \in {"killing", "confirming"}
    /\ Return("failed")
    /\ Close
    /\ UNCHANGED <<platform, recorded, payload, tree, signals>>

Collect ==
    /\ pc = "collecting"
    /\ \/ stopped # "none" /\ Return(stopped)
       \/ stopped = "none" /\ diag # "none" /\ Return(diag)
       \/ stopped = "none" /\ diag = "none" /\ Return(rc)
    /\ UNCHANGED <<platform, job, recorded, payload, tree, doomed, signals>>

\* The system closes the handles of a process that dies.
OwnerDeath ==
    /\ pc \notin {"ended", "dead"}
    /\ pc' = "dead"
    /\ Close
    /\ UNCHANGED <<platform, stopped, outcome, recorded, payload, tree, signals>>

-----------------------------------------------------------------------------
(***************************************************************************)
(* The bootstrap, the command and its descendant.                           *)
(***************************************************************************)
Exit(status) == boot' = "exited" /\ rc' = status

\* Mutant: the exception's name is written in place of a status.
LaunchException == "OSError"
LaunchError == "unavailable"

BootStarts ==
    /\ boot = "waiting" /\ payload /\ ~doomed
    /\ \/ expired /\ diag' = "timed_out" /\ Exit("nonzero") /\ UNCHANGED command
       \/ ~expired /\ diag' = LaunchError /\ Exit("nonzero") /\ UNCHANGED command
       \/ ~expired /\ command' = "running" /\ boot' = "running" /\ UNCHANGED <<rc, diag>>
    /\ UNCHANGED <<platform, owner, job, recorded, payload, child, doomed, signals>>

\* The pipe ends without a payload.
BootUnfed ==
    /\ boot = "waiting" /\ ~payload /\ pc \in {"ended", "dead"}
    /\ Exit("nonzero")
    /\ UNCHANGED <<platform, owner, job, recorded, payload, diag, command, child, doomed, signals>>

Fork ==
    /\ command = "running" /\ child = "none" /\ ~doomed
    /\ child' = "running"
    /\ UNCHANGED <<platform, owner, job, recorded, payload, boot, rc, diag, command, doomed, signals>>

CommandEnds ==
    /\ command = "running" /\ ~doomed
    /\ command' \in {"succeeded", "other"}
    /\ UNCHANGED <<platform, owner, job, recorded, payload, boot, rc, diag, child, doomed, signals>>

BootExits ==
    /\ boot = "running" /\ command # "running" /\ ~doomed
    /\ Exit(IF command = "succeeded" THEN "zero" ELSE "nonzero")
    /\ UNCHANGED <<platform, owner, job, recorded, payload, diag, command, child, doomed, signals>>

\* Killed: by the owner, or by the system for reasons of its own.
BootDies ==
    /\ boot \in {"waiting", "running"}
    /\ Exit("nonzero")
    /\ UNCHANGED <<platform, owner, job, recorded, payload, diag, command, child, doomed, signals>>

CommandDies ==
    /\ command = "running" /\ doomed
    /\ command' = "other"
    /\ UNCHANGED <<platform, owner, job, recorded, payload, boot, rc, diag, child, doomed, signals>>

ChildDies ==
    /\ child = "running"
    /\ child' = "gone"
    /\ UNCHANGED <<platform, owner, job, recorded, payload, boot, rc, diag, command, doomed, signals>>

Cancel ==
    /\ ~cancelled /\ cancelled' = TRUE
    /\ UNCHANGED <<platform, owner, job, recorded, payload, tree, doomed, expired>>

Expire ==
    /\ ~expired /\ expired' = TRUE
    /\ UNCHANGED <<platform, owner, job, recorded, payload, tree, doomed, cancelled>>

-----------------------------------------------------------------------------
Owner == \/ Enter \/ Spawn \/ Assign \/ Tell \/ CheckFirst \/ Send \/ Poll \/ Look
         \/ Kill \/ Confirm \/ Collect
Tree == \/ BootStarts \/ BootUnfed \/ Fork \/ CommandEnds \/ BootExits
        \/ BootDies \/ CommandDies \/ ChildDies

Next == Owner \/ Fails \/ Unconfirmed \/ OwnerDeath \/ Tree \/ Cancel \/ Expire

Spec == Init /\ [][Next]_vars

\* A living owner goes on, its waits are bounded, and what is killed dies.
Fairness ==
    /\ WF_vars(Owner \/ Unconfirmed)
    /\ WF_vars(doomed /\ BootDies) /\ WF_vars(CommandDies) /\ WF_vars(doomed /\ ChildDies)
    /\ WF_vars(BootUnfed)
FairSpec == Spec /\ Fairness

-----------------------------------------------------------------------------
(***************************************************************************)
(* Properties.                                                              *)
(***************************************************************************)

\* "The bootstrap waits until containment is established": no command starts before its
\* tree can be killed as a whole and before on_spawn has recorded it.
OwnedWhenStarted ==
    [][command = "none" /\ command' # "none"
         => recorded /\ (platform = "nt" => job = "assigned")]_command

\* What a call returns is true of the tree it started: success is what the command itself
\* reported, never a tree that was killed or a command that was not started, and unless the
\* call says that it failed, nothing of the tree is left.
OutcomeIsTrue ==
    /\ outcome = "zero" => command = "succeeded"
    /\ outcome \notin {"none", "failed"} => ~Alive

\* A call that has begun ends soon after it has been cancelled or its time is up, whatever the
\* command does.
EndsWhenAsked == (pc # "start" /\ (cancelled \/ expired)) ~> pc \in {"ended", "dead"}

\* On Windows the death of the owner ends the whole tree.
NoOrphans == (pc = "dead" /\ platform = "nt") ~> ~Alive

(***************************************************************************)
(* Refinement: the call begins with the bootstrap and is over when it has   *)
(* returned or raised.                                                      *)
(***************************************************************************)
CallerOf == IF pc = "dead" THEN "dead"
            ELSE IF boot = "none" \/ pc = "ended" THEN "idle" ELSE "calling"
TreeOf == IF ~Alive THEN "none"
          ELSE IF boot # "waiting" THEN "running"
          ELSE IF recorded THEN "recorded" ELSE "waiting"

Promise == INSTANCE CommandPromise WITH
    at <- CallerOf, tree <- TreeOf, failed <- (outcome = "failed")

\* Whatever fails, is cancelled, expires or dies, the call is one of CommandPromise.
CallKeepsPromise == Promise!Spec
=============================================================================
