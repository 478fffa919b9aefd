---------------------------- MODULE McpCheckProofs ----------------------------
(***************************************************************************)
(* What OwnedCommand and McpCheck promise, for any number of steps of the   *)
(* check and any set of platforms.                                          *)
(*                                                                          *)
(* OwnedInv is about one call of run_owned, with all that may happen beside *)
(* it; McpInv about the handler and its worker thread.  McpInv needs of the *)
(* call only where it stands: a command runs only while the thread waits    *)
(* for it, and a thread that starts after the handler has left finds the    *)
(* event set.                                                               *)
(***************************************************************************)
EXTENDS McpCheck, TLAPS

\* A payload is sent only to a tree that is contained and recorded.
Contained ==
    /\ pc \in {"start", "spawning"} => boot = "none" /\ ~payload /\ ~recorded
    /\ pc \in {"telling", "checking", "sending"} /\ platform = "nt" => job = "assigned"
    /\ pc \in {"checking", "sending"} => recorded
    /\ payload => recorded /\ (platform = "nt" => job = "assigned" \/ doomed)

\* The bootstrap starts the command and reports how that ended.
Reported ==
    /\ boot \in {"none", "waiting"} => command = "none"
    /\ command = "none" => child = "none"
    /\ rc = "zero" => command = "succeeded"

\* What a call returns rests on what it has confirmed.
Confirmed ==
    /\ pc = "collecting" => ~Alive
    /\ pc = "ended" /\ outcome # "failed" => ~Alive
    /\ outcome # "none" => pc = "ended"
    /\ outcome = "zero" => command = "succeeded"

OwnedInv == TypeOK /\ Contained /\ Reported /\ Confirmed

USE DEF owner, tree, signals, Started, Errors

-----------------------------------------------------------------------------
\* Nothing has been started, so nothing is claimed.
LEMMA InitOwned == Init => OwnedInv
  BY PlatformsAssumption DEF Init, OwnedInv, TypeOK, Contained, Reported, Confirmed, Alive

\* A step of the owner.
LEMMA OwnerOwned ==
    ASSUME OwnedInv, Owner \/ Fails \/ Unconfirmed \/ OwnerDeath
    PROVE  OwnedInv'
  <1> USE DEF OwnedInv, TypeOK, Contained, Reported, Confirmed, Alive, Goto, Raise, Return, Close
  <1>1. CASE Enter \/ Spawn
    BY <1>1 DEF Enter, Spawn
  <1>2. CASE Assign \/ Tell
    <2>1. CASE Assign
      BY <2>1 DEF Assign
    <2>2. CASE Tell
      BY <2>2 DEF Tell
    <2> QED
      BY <1>2, <2>1, <2>2
  <1>3. CASE CheckFirst
    BY <1>3 DEF CheckFirst
  <1>4. CASE Send
    <2> USE <1>4 DEF Send
    <2>1. TypeOK'
      <3>1. pc' \in {"watching", "killing"} /\ stopped' \in Errors \cup {"none"} /\ outcome' = outcome
        BY DEF OwnedInv, TypeOK
      <3>2. payload' \in BOOLEAN
        BY DEF OwnedInv, TypeOK
      <3> QED
        BY <3>1, <3>2 DEF OwnedInv, TypeOK
    <2>2. Contained'
      BY DEF OwnedInv, TypeOK, Contained
    <2>3. Reported'
      BY DEF OwnedInv, TypeOK, Contained, Reported
    <2>4. Confirmed'
      BY DEF OwnedInv, TypeOK, Contained, Reported, Confirmed, Alive
    <2> QED
      BY <2>1, <2>2, <2>3, <2>4 DEF OwnedInv
  <1>5. CASE Poll \/ Look
    BY <1>5 DEF Poll, Look
  <1>6. CASE Kill \/ Confirm
    <2>1. CASE Kill
      BY <2>1 DEF Kill
    <2>2. CASE Confirm
      BY <2>2 DEF Confirm
    <2> QED
      BY <1>6, <2>1, <2>2
  <1>7. CASE Collect
    BY <1>7 DEF Collect
  <1>8. CASE Fails
    BY <1>8 DEF Fails
  <1>9. CASE Unconfirmed
    BY <1>9 DEF Unconfirmed
  <1>10. CASE OwnerDeath
    BY <1>10 DEF OwnerDeath
  <1> QED
    BY <1>1, <1>2, <1>3, <1>4, <1>5, <1>6, <1>7, <1>8, <1>9, <1>10 DEF Owner

\* A step of a process of the tree, or of the caller's event and the clock.
LEMMA TreeOwned ==
    ASSUME OwnedInv, Tree \/ Cancel \/ Expire
    PROVE  OwnedInv'
  <1> USE DEF OwnedInv, TypeOK, Contained, Reported, Confirmed, Alive, Exit
  <1>1. CASE BootStarts
    BY <1>1 DEF BootStarts, LaunchError
  <1>2. CASE BootUnfed \/ BootDies
    BY <1>2 DEF BootUnfed, BootDies
  <1>3. CASE BootExits
    BY <1>3 DEF BootExits
  <1>4. CASE Fork \/ ChildDies
    BY <1>4 DEF Fork, ChildDies
  <1>5. CASE CommandEnds \/ CommandDies
    BY <1>5 DEF CommandEnds, CommandDies
  <1>6. CASE Cancel \/ Expire
    <2>1. CASE Cancel
      BY <2>1 DEF Cancel
    <2>2. CASE Expire
      BY <2>2 DEF Expire
    <2> QED
      BY <1>6, <2>1, <2>2
  <1> QED
    BY <1>1, <1>2, <1>3, <1>4, <1>5, <1>6 DEF Tree

\* Steps of the server alone leave the call as it is.
LEMMA OwnedStutters == OwnedInv /\ UNCHANGED vars => OwnedInv'
  BY DEF vars, OwnedInv, TypeOK, Contained, Reported, Confirmed, Alive

\* OwnedInv is inductive for the call with all that happens beside it.
LEMMA NextOwned == OwnedInv /\ [Next]_vars => OwnedInv'
  BY OwnerOwned, TreeOwned, OwnedStutters DEF Next

-----------------------------------------------------------------------------
(***************************************************************************)
(* One call of run_owned implements CommandPromise.                         *)
(***************************************************************************)
\* No call, no tree.
LEMMA InitCallPromise == Init => Promise!Init
  BY DEF Init, Promise!Init, CallerOf, TreeOf, Alive

\* The owner spawns the bootstrap, has it recorded, and ends or dies; all else it does is
\* not to be seen.
LEMMA OwnerAsPromised ==
    ASSUME OwnedInv, Owner \/ Fails \/ Unconfirmed \/ OwnerDeath
    PROVE  [Promise!Next]_(Promise!vars)
  <1> USE DEF OwnedInv, TypeOK, CallerOf, TreeOf, Alive, Promise!vars
  <1>1. CASE Spawn
    <2>1. Promise!Spawn
      BY <1>1 DEF Spawn, Goto, Contained, Reported, Confirmed, Promise!Spawn, Promise!Grows
    <2> QED
      BY <2>1 DEF Promise!Next
  <1>2. CASE Tell
    <2>1. Promise!Record \/ UNCHANGED Promise!vars
      BY <1>2 DEF Tell, Goto, Reported, Promise!Record, Promise!Grows
    <2> QED
      BY <2>1 DEF Promise!Next
  <1>3. CASE Enter \/ Assign \/ CheckFirst \/ Poll \/ Look \/ Fails \/ Kill \/ Confirm
    BY <1>3 DEF Contained, Confirmed, Enter, Assign, CheckFirst, Poll, Look, Fails, Kill, Confirm,
       Goto, Raise, Return, Close
  <1>4. CASE Send
    BY <1>4 DEF Confirmed, Send, Goto, Raise
  <1>5. CASE Collect \/ Unconfirmed
    <2>1. /\ pc \in {"killing", "confirming", "collecting"} /\ pc' = "ended"
          /\ UNCHANGED <<boot, recorded, command, child>>
          /\ outcome = "none"
          /\ pc = "collecting" \/ outcome' = "failed"
      BY <1>5 DEF Collect, Unconfirmed, Return, Confirmed
    <2>2. UNCHANGED TreeOf
      BY <2>1
    <2>3. CASE outcome' = "failed"
      <3>1. Promise!Fail
        BY <2>1, <2>2, <2>3 DEF Promise!Fail
      <3> QED
        BY <3>1 DEF Promise!Next
    <2>4. CASE outcome' # "failed"
      <3>1. TreeOf = "none"
        BY <2>1, <2>4 DEF Confirmed
      <3>2. Promise!Return \/ UNCHANGED Promise!vars
        BY <2>1, <2>2, <2>4, <3>1 DEF Promise!Return
      <3> QED
        BY <3>2 DEF Promise!Next
    <2> QED
      BY <2>3, <2>4
  <1>6. CASE OwnerDeath
    <2>1. Promise!Die
      BY <1>6 DEF OwnerDeath, Close, Promise!Die
    <2> QED
      BY <2>1 DEF Promise!Next
  <1> QED
    BY <1>1, <1>2, <1>3, <1>4, <1>5, <1>6 DEF Owner

\* The bootstrap starts the command, or what has been started comes to its end.
LEMMA TreeAsPromised ==
    ASSUME OwnedInv, Tree \/ Cancel \/ Expire
    PROVE  [Promise!Next]_(Promise!vars)
  <1> USE DEF OwnedInv, TypeOK, CallerOf, TreeOf, Alive, Promise!vars
  <1>1. CASE BootStarts
    <2>1. Promise!Start \/ Promise!Vanish
      BY <1>1 DEF BootStarts, LaunchError, Exit, Contained, Reported,
         Promise!Start, Promise!Vanish, Promise!Grows
    <2> QED
      BY <2>1 DEF Promise!Next
  <1>2. CASE BootUnfed \/ BootExits \/ BootDies \/ CommandEnds \/ CommandDies \/ ChildDies
    <2>1. /\ UNCHANGED <<pc, outcome, recorded>>
          /\ boot # "none" /\ boot' # "none"
          /\ TreeOf' \in {TreeOf, "none"}
      BY <1>2 DEF Reported, BootUnfed, BootExits, BootDies, CommandEnds, CommandDies, ChildDies, Exit
    <2>2. Promise!Vanish \/ UNCHANGED Promise!vars
      BY <2>1 DEF Promise!Vanish
    <2> QED
      BY <2>2 DEF Promise!Next
  <1>3. CASE Fork
    BY <1>3 DEF Fork, Reported
  <1>4. CASE Cancel \/ Expire
    BY <1>4 DEF Cancel, Expire
  <1> QED
    BY <1>1, <1>2, <1>3, <1>4 DEF Tree

LEMMA CallAsPromised == OwnedInv /\ [Next]_vars => [Promise!Next]_(Promise!vars)
  <1>1. UNCHANGED vars => UNCHANGED Promise!vars
    BY DEF vars, Promise!vars, CallerOf, TreeOf, Alive
  <1> QED
    BY <1>1, OwnerAsPromised, TreeAsPromised DEF Next

-----------------------------------------------------------------------------
\* Every step of the server is a step of run_owned or none.
LEMMA McpStepsOwned == TypeOK /\ [McpNext]_mcpVars => [Next]_vars
  <1> SUFFICES ASSUME TypeOK, [McpNext]_mcpVars PROVE [Next]_vars
    OBVIOUS
  <1>1. ASSUME SetCancel PROVE [Next]_vars
    BY <1>1 DEF SetCancel, TypeOK, Next, Cancel, vars
  <1>2. CASE Request \/ Handler \/ Interrupted \/ ReporterRaises
    BY <1>1, <1>2 DEF Request, Handler, Greet, GreetFails, Returned, Drained, Finally, Settled,
       Interrupted, ReporterRaises
  <1>3. CASE Thread
    BY <1>3 DEF Thread, PickUp, WorkerStarts, StepBegins, CommandReturns, WorkerEnds
  <1>4. CASE ClientCancels \/ WatcherFires \/ ReporterLosesClient \/ Disconnect
    BY <1>1, <1>4 DEF ClientCancels, WatcherFires, ReporterLosesClient, Disconnect
  <1>5. CASE ServerDies
    BY <1>5 DEF ServerDies, Next
  <1>6. CASE OwnerGoes \/ CommandFails \/ DeadlinePasses \/ TreeGoes
    BY <1>6 DEF OwnerGoes, CommandFails, DeadlinePasses, TreeGoes, Next
  <1>7. CASE UNCHANGED mcpVars
    BY <1>7 DEF mcpVars
  <1> QED
    BY <1>2, <1>3, <1>4, <1>5, <1>6, <1>7 DEF McpNext

\* So it is an invariant of the server as well.
LEMMA McpOwned == McpSpec => []OwnedInv
  <1>1. McpInit => OwnedInv
    BY InitOwned DEF McpInit
  <1>2. OwnedInv /\ [McpNext]_mcpVars => OwnedInv'
    BY McpStepsOwned, NextOwned DEF OwnedInv
  <1> QED
    BY <1>1, <1>2, PTL DEF McpSpec

\* Whatever fails, is cancelled, expires or dies, in the call or in the server around it: a
\* command starts only on record, and what outlives the call is what it said it had left.
THEOREM CallPromiseKept == McpSpec => CallKeepsPromise
  <1>1. OwnedInv /\ [McpNext]_mcpVars => [Promise!Next]_(Promise!vars)
    BY McpStepsOwned, CallAsPromised DEF OwnedInv
  <1>2. McpInit => Promise!Init
    BY InitCallPromise DEF McpInit
  <1> QED
    BY <1>1, <1>2, McpOwned, PTL DEF McpSpec, CallKeepsPromise, Promise!Spec

\* No command starts before its tree is contained and recorded, although the bootstrap is
\* started before that and anything may fail or die in between.
THEOREM CommandsStartOwned == McpSpec => OwnedWhenStarted
  <1>1. OwnedInv /\ [Next]_vars
          => [command = "none" /\ command' # "none"
                => recorded /\ (platform = "nt" => job = "assigned")]_command
    <2> SUFFICES ASSUME OwnedInv, [Next]_vars, command = "none", command' # "none"
                 PROVE  recorded /\ (platform = "nt" => job = "assigned")
      OBVIOUS
    <2>1. BootStarts
      BY DEF vars, Next, Owner, Tree, Enter, Spawn, Assign, Tell, CheckFirst, Send, Poll, Look,
         Kill, Confirm, Collect, Fails, Unconfirmed, OwnerDeath, BootUnfed, Fork, CommandEnds,
         BootExits, BootDies, CommandDies, ChildDies, Cancel, Expire
    <2> QED
      BY <2>1 DEF BootStarts, OwnedInv, Contained
  <1>2. OwnedInv /\ [McpNext]_mcpVars => [Next]_vars
    BY McpStepsOwned DEF OwnedInv
  <1> QED
    BY <1>1, <1>2, McpOwned, PTL DEF McpSpec, OwnedWhenStarted

\* Success is what the command has reported, and a call that does not say that it failed
\* has left nothing of its tree.
THEOREM OutcomesAreTrue == McpSpec => []OutcomeIsTrue
  <1>1. OwnedInv => OutcomeIsTrue
    BY DEF OwnedInv, TypeOK, Confirmed, OutcomeIsTrue
  <1> QED
    BY <1>1, McpOwned, PTL

-----------------------------------------------------------------------------
(***************************************************************************)
(* What a dead owner leaves behind on Windows.  That it dies at last is     *)
(* fairness and TLC's part (NoOrphans).                                     *)
(***************************************************************************)
\* Nothing has run without a payload, and the system has closed the job of a dead owner.
Fed ==
    /\ boot = "running" \/ command # "none" => payload
    /\ pc = "dead" => job \notin {"open", "assigned"}

LEMMA NextFed == OwnedInv /\ Fed /\ [Next]_vars => Fed'
  <1> SUFFICES ASSUME OwnedInv, Fed, [Next]_vars PROVE Fed'
    OBVIOUS
  <1> USE DEF OwnedInv, TypeOK, Fed, Goto, Raise, Return, Close
  <1>1. CASE Enter \/ Spawn \/ Assign \/ Tell \/ CheckFirst \/ Send
    BY <1>1 DEF Enter, Spawn, Assign, Tell, CheckFirst, Send, Reported
  <1>2. CASE Poll \/ Look \/ Kill \/ Confirm \/ Collect \/ Fails \/ Unconfirmed \/ OwnerDeath
    BY <1>2 DEF Poll, Look, Kill, Confirm, Collect, Fails, Unconfirmed, OwnerDeath
  <1>3. CASE Tree
    BY <1>3 DEF Tree, BootStarts, BootUnfed, Fork, CommandEnds, BootExits, BootDies, CommandDies,
       ChildDies, Exit
  <1>4. CASE Cancel \/ Expire \/ UNCHANGED vars
    BY <1>4 DEF Cancel, Expire, vars
  <1> QED
    BY <1>1, <1>2, <1>3, <1>4 DEF Next, Owner

LEMMA McpFed == McpSpec => [](OwnedInv /\ Fed)
  <1>1. McpInit => Fed
    BY DEF McpInit, Init, Fed
  <1>2. OwnedInv /\ Fed /\ [McpNext]_mcpVars => Fed'
    BY McpStepsOwned, NextFed DEF OwnedInv
  <1> QED
    BY <1>1, <1>2, McpOwned, PTL DEF McpSpec

\* The processes of the tree that are there.
Processes ==
    {p \in {"boot", "command", "child"} :
       \/ p = "boot" /\ boot \in {"waiting", "running"}
       \/ p = "command" /\ command = "running"
       \/ p = "child" /\ child = "running"}

\* On Windows what a dead owner leaves has been sent its death, or is a bootstrap without a
\* payload whose pipe has ended.
THEOREM OrphansAreDoomed ==
    McpSpec => [](pc = "dead" /\ platform = "nt" =>
                    doomed \/ (Processes \subseteq {"boot"} /\ ~payload))
  <1>1. OwnedInv /\ Fed => (pc = "dead" /\ platform = "nt" =>
                              doomed \/ (Processes \subseteq {"boot"} /\ ~payload))
    BY DEF OwnedInv, TypeOK, Contained, Reported, Fed, Processes
  <1> QED
    BY <1>1, McpFed, PTL

\* And it only dwindles: no process starts any more, in whatever step of its own or of the
\* server the owner died.
THEOREM OrphansDwindle ==
    McpSpec => [][pc = "dead" /\ platform = "nt" => Processes' \subseteq Processes]_vars
  <1>1. OwnedInv /\ Fed /\ [Next]_vars
          => [pc = "dead" /\ platform = "nt" => Processes' \subseteq Processes]_vars
    <2> SUFFICES ASSUME OwnedInv, Fed, [Next]_vars, vars' # vars, pc = "dead", platform = "nt"
                 PROVE  Processes' \subseteq Processes
      OBVIOUS
    <2>1. payload => doomed
      BY DEF OwnedInv, TypeOK, Contained, Fed
    <2>2. CASE Tree
      <3>1. boot' \in {boot, "exited"} /\ command' \in {command, "succeeded", "other"}
            /\ child' \in {child, "gone"}
        BY <2>1, <2>2 DEF Tree, BootStarts, BootUnfed, Fork, CommandEnds, BootExits, BootDies,
           CommandDies, ChildDies, Exit, Fed
      <3> QED
        BY <3>1 DEF Processes
    <2>3. CASE Cancel \/ Expire
      BY <2>3 DEF Cancel, Expire, Processes
    <2>4. ~(Owner \/ Fails \/ Unconfirmed \/ OwnerDeath)
      BY DEF Owner, Enter, Spawn, Assign, Tell, CheckFirst, Send, Poll, Look, Kill, Confirm,
         Collect, Fails, Unconfirmed, OwnerDeath, Goto, Return
    <2> QED
      BY <2>2, <2>3, <2>4 DEF Next
  <1>2. OwnedInv /\ [McpNext]_mcpVars => [Next]_vars
    BY McpStepsOwned DEF OwnedInv
  <1> QED
    BY <1>1, <1>2, McpFed, PTL DEF McpSpec

-----------------------------------------------------------------------------
\* What the worker has told by where it stands.
Worker ==
    /\ handler \in {"idle", "greeting"} => thread = "none"
    /\ thread \in {"none", "queued", "picked"} => ~started
    /\ thread \in {"running", "command"} => started /\ ~done
    /\ thread = "ended" => started /\ done
    /\ handler = "awaiting" => thread \notin {"none", "dead"}
    /\ done => thread \in {"ended", "dead"}
    /\ thread = "dead" <=> handler = "dead"
    /\ thread \notin {"command", "dead"} => pc \in {"start", "ended"}
    /\ pc = "dead" => handler = "dead"

\* With which of these the handler may leave.
Leaving ==
    /\ handler \in {"draining", "settling"} => cancelled
    /\ handler = "finally" => cancelled \/ thread = "none" \/ started
    /\ handler = "done" => cancelled \/ thread = "none" \/ done
    /\ handler = "done" => thread # "command"

McpInv == McpTypeOK /\ OwnedInv /\ Worker /\ Leaving

\* A server without a request.
LEMMA InitMcp == McpInit => McpInv
  <1> SUFFICES ASSUME McpInit PROVE McpInv
    OBVIOUS
  <1>1. OwnedInv /\ TypeOK
    BY InitOwned DEF McpInit, OwnedInv
  <1>2. begun \in 0 .. Steps
    BY StepsAssumption DEF McpInit
  <1>3. McpTypeOK
    BY <1>1, <1>2 DEF McpInit, McpTypeOK, Registered
  <1>4. Worker /\ Leaving
    BY DEF McpInit, Worker, Leaving, Init
  <1> QED
    BY <1>1, <1>3, <1>4 DEF McpInv

\* The server's own variables stay in their ranges.
LEMMA ServerTypes ==
    ASSUME McpTypeOK, [McpNext]_mcpVars, TypeOK'
    PROVE  McpTypeOK'
  <1> USE StepsAssumption DEF McpTypeOK, Registered, HandlerGoes, HandlerStays, ThreadGoes, call
  <1>1. CASE Request \/ Handler \/ Interrupted \/ ReporterRaises
    BY <1>1 DEF Request, Handler, Greet, GreetFails, Returned, Drained, Finally, Settled,
       Interrupted, ReporterRaises
  <1>2. CASE PickUp \/ WorkerStarts \/ CommandReturns \/ WorkerEnds
    BY <1>2 DEF PickUp, WorkerStarts, CommandReturns, WorkerEnds
  <1>3. CASE StepBegins
    BY <1>3 DEF StepBegins
  <1>4. CASE ClientCancels \/ WatcherFires \/ ReporterLosesClient \/ Disconnect
    BY <1>4 DEF ClientCancels, WatcherFires, ReporterLosesClient, Disconnect
  <1>5. CASE ServerDies
    BY <1>5 DEF ServerDies
  <1>6. CASE OwnerGoes \/ CommandFails \/ DeadlinePasses \/ TreeGoes
    BY <1>6 DEF OwnerGoes, CommandFails, DeadlinePasses, TreeGoes
  <1>7. CASE UNCHANGED mcpVars
    BY <1>7 DEF mcpVars
  <1> QED
    BY <1>1, <1>2, <1>3, <1>4, <1>5, <1>6, <1>7 DEF McpNext, Thread

\* What the owner of the command does not do itself leaves it where it is.
LEMMA OwnerStays == Tree \/ SetCancel \/ Expire => pc' = pc
  BY DEF Tree, SetCancel, Expire, BootStarts, BootUnfed, Fork, CommandEnds, BootExits, BootDies,
     CommandDies, ChildDies

\* Each step of the handler and of the thread keeps to the bargain between them.
LEMMA ServerKeeps ==
    ASSUME McpInv, [McpNext]_mcpVars
    PROVE  Worker' /\ Leaving'
  <1> USE DEF McpInv, McpTypeOK, Worker, Leaving, Registered, HandlerGoes, HandlerStays, ThreadGoes,
              call
  <1>1. CASE Request \/ Greet \/ GreetFails
    BY <1>1, OwnerStays DEF Request, Greet, GreetFails, SetCancel, vars
  <1>2. CASE Returned \/ Drained \/ Settled
    BY <1>2 DEF Returned, Drained, Settled, vars
  <1>3. CASE Finally
    BY <1>3, OwnerStays DEF Finally, SetCancel, vars
  <1>4. CASE Interrupted \/ ReporterRaises
    BY <1>4, OwnerStays DEF Interrupted, ReporterRaises, SetCancel, vars
  <1>5. CASE PickUp \/ WorkerStarts
    BY <1>5 DEF PickUp, WorkerStarts, vars
  <1>6. CASE StepBegins
    BY <1>6 DEF StepBegins, vars
  <1>7. CASE CommandReturns \/ WorkerEnds
    BY <1>7 DEF CommandReturns, WorkerEnds, vars
  <1>8. CASE ClientCancels \/ WatcherFires \/ ReporterLosesClient
    BY <1>8, OwnerStays DEF ClientCancels, WatcherFires, ReporterLosesClient, SetCancel, vars
  <1>9. CASE Disconnect
    <2>1. UNCHANGED <<handler, thread, started, done, pc>> /\ (cancelled => cancelled')
      BY <1>9, OwnerStays DEF Disconnect, SetCancel, vars
    <2> QED
      BY <2>1
  <1>10. CASE ServerDies
    BY <1>10 DEF ServerDies
  <1>11. CASE OwnerGoes \/ CommandFails
    <2>1. thread = "command" /\ UNCHANGED <<call, asked, stdin>> /\ (Owner \/ Fails \/ Unconfirmed)
      BY <1>11 DEF OwnerGoes, CommandFails
    <2>2. pc' # "dead" /\ cancelled' = cancelled
      BY <2>1 DEF Owner, Enter, Spawn, Assign, Tell, CheckFirst, Send, Poll, Look, Kill, Confirm,
         Collect, Fails, Unconfirmed, Goto, Raise, Return
    <2> QED
      BY <2>1, <2>2
  <1>12. CASE DeadlinePasses \/ TreeGoes
    <2>1. UNCHANGED <<call, asked, stdin, pc, cancelled>>
      BY <1>12, OwnerStays DEF DeadlinePasses, TreeGoes, Expire, Tree, BootStarts, BootUnfed, Fork,
         CommandEnds, BootExits, BootDies, CommandDies, ChildDies
    <2> QED
      BY <2>1
  <1>13. CASE UNCHANGED mcpVars
    BY <1>13 DEF mcpVars, vars
  <1> QED
    BY <1>1, <1>2, <1>3, <1>4, <1>5, <1>6, <1>7, <1>8, <1>9, <1>10, <1>11, <1>12, <1>13
       DEF McpNext, Handler, Thread

\* Every reachable state of the server satisfies the inductive invariant.
THEOREM McpInvariance == McpSpec => []McpInv
  <1>1. McpInv /\ [McpNext]_mcpVars => McpInv'
    <2> SUFFICES ASSUME McpInv, [McpNext]_mcpVars PROVE McpInv'
      OBVIOUS
    <2>1. OwnedInv'
      BY McpStepsOwned, NextOwned DEF McpInv, OwnedInv
    <2>2. McpTypeOK'
      BY <2>1, ServerTypes DEF McpInv, OwnedInv
    <2> QED
      BY <2>1, <2>2, ServerKeeps DEF McpInv
  <1> QED
    BY <1>1, InitMcp, PTL DEF McpSpec

\* Type correctness of the server, the call it makes and the tree below that.
THEOREM ServerTypesHold == McpSpec => []McpTypeOK
  <1>1. McpInv => McpTypeOK
    BY DEF McpInv
  <1> QED
    BY <1>1, McpInvariance, PTL

\* When the handler has left, no step of its check begins, no command runs and nothing is
\* left of a tree whose end could be confirmed - although the worker thread may start later.
THEOREM NothingRunsAfterwards == McpSpec => []NothingRunsOn
  <1>1. McpInv => NothingRunsOn
    <2> SUFFICES ASSUME McpInv, handler = "done"
                 PROVE  /\ thread # "command"
                        /\ thread = "running" => cancelled \/ begun = Steps
                        /\ outcome # "failed" => ~Alive
      BY DEF NothingRunsOn
    <2>1. thread \notin {"command", "dead"} /\ pc \in {"start", "ended"}
      BY DEF McpInv, Worker, Leaving
    <2>2. thread = "running" => cancelled
      BY DEF McpInv, Worker, Leaving
    <2>3. pc = "start" => ~Alive
      BY DEF McpInv, OwnedInv, Contained, Reported, Alive
    <2>4. pc = "ended" /\ outcome # "failed" => ~Alive
      BY DEF McpInv, OwnedInv, Confirmed
    <2> QED
      BY <2>1, <2>2, <2>3, <2>4
  <1> QED
    BY <1>1, McpInvariance, PTL
-----------------------------------------------------------------------------
(***************************************************************************)
(* Why what has been asked to stop ends.  That each step is taken at last   *)
(* is fairness and TLC's part (CancelledCallEnds); that there are finitely  *)
(* many of them, and nobody waits in vain, is proved here.                  *)
(***************************************************************************)
\* How many steps the owner of the command, the handler and its worker can still make.
OwnerToCome ==
    CASE pc = "start" -> 11
      [] pc = "spawning" -> 10
      [] pc = "assigning" -> 9
      [] pc = "telling" -> 8
      [] pc = "checking" -> 7
      [] pc = "sending" -> 6
      [] pc = "watching" -> 5
      [] pc = "looking" -> 4
      [] pc = "killing" -> 3
      [] pc = "confirming" -> 2
      [] pc = "collecting" -> 1
      [] OTHER -> 0

HandlerToCome ==
    CASE handler = "idle" -> 9
      [] handler = "greeting" -> 8
      [] handler = "awaiting" -> 4
      [] handler = "draining" -> 3
      [] handler = "finally" -> 2
      [] handler = "settling" -> 1
      [] OTHER -> 0

WorkerToCome ==
    CASE thread = "queued" -> 3
      [] thread = "picked" -> 2
      [] thread = "running" -> 1
      [] thread = "command" -> 2 + OwnerToCome
      [] OTHER -> 0

RequestToCome == HandlerToCome + WorkerToCome

LEMMA ToComeIsFinite ==
    /\ OwnerToCome \in 0..11 /\ OwnerToCome' \in 0..11
    /\ HandlerToCome \in 0..9 /\ HandlerToCome' \in 0..9
    /\ WorkerToCome \in 0..13 /\ WorkerToCome' \in 0..13
  BY DEF OwnerToCome, HandlerToCome, WorkerToCome

\* The handler's steps and the worker's count together.
LEMMA OneOfThemStepped ==
    ASSUME \/ HandlerToCome' < HandlerToCome /\ WorkerToCome' = WorkerToCome
           \/ HandlerToCome' = HandlerToCome /\ WorkerToCome' < WorkerToCome
    PROVE  RequestToCome' < RequestToCome /\ RequestToCome' <= RequestToCome
  <1>1. \A a, b, c, d \in Nat : (a < b /\ c = d) \/ (a = b /\ c < d) => a + c < b + d /\ a + c <= b + d
    OBVIOUS
  <1>2. /\ HandlerToCome \in Nat /\ HandlerToCome' \in Nat
        /\ WorkerToCome \in Nat /\ WorkerToCome' \in Nat
    BY ToComeIsFinite
  <1>3. /\ HandlerToCome' + WorkerToCome' < HandlerToCome + WorkerToCome
        /\ HandlerToCome' + WorkerToCome' <= HandlerToCome + WorkerToCome
    BY <1>1, <1>2
  <1> QED
    BY <1>3 DEF RequestToCome

\* Once asked, the owner does not look a second time.
LEMMA OwnerWindsDown ==
    ASSUME TypeOK, cancelled \/ expired, Owner \/ Fails \/ Unconfirmed \/ OwnerDeath
    PROVE  OwnerToCome' < OwnerToCome
  <1>1. \/ pc = "start" /\ pc' \in {"spawning", "ended"}
        \/ pc = "spawning" /\ pc' \in {"assigning", "telling"}
        \/ pc = "assigning" /\ pc' = "telling"
        \/ pc = "telling" /\ pc' = "checking"
        \/ pc = "sending" /\ pc' = "watching"
        \/ pc = "watching" /\ pc' = "looking"
        \/ pc \in Started \cup {"spawning"} /\ pc' \in {"killing", "collecting"}
        \/ pc = "killing" /\ pc' = "confirming"
        \/ pc = "confirming" /\ pc' = "collecting"
        \/ pc \in {"killing", "confirming", "collecting"} /\ pc' = "ended"
        \/ pc \notin {"ended", "dead"} /\ pc' = "dead"
    <2>1. CASE Enter \/ Spawn \/ Assign \/ Tell \/ CheckFirst \/ Send
      BY <2>1 DEF Enter, Spawn, Assign, Tell, CheckFirst, Send, Goto, Raise, Return
    <2>2. CASE Poll \/ Look \/ Kill \/ Confirm \/ Collect
      BY <2>2 DEF Poll, Look, Kill, Confirm, Collect, Goto, Raise, Return
    <2>3. CASE Fails \/ Unconfirmed \/ OwnerDeath
      BY <2>3 DEF Fails, Unconfirmed, OwnerDeath, Raise, Return
    <2> QED
      BY <2>1, <2>2, <2>3 DEF Owner
  <1> QED
    BY <1>1 DEF OwnerToCome, TypeOK

\* A call of run_owned that is cancelled or out of time ends after eleven steps of its owner at
\* most, in whatever order errors, cancellation and the deadline come.
THEOREM CallsWindDown ==
    McpSpec => [][cancelled \/ expired =>
                    /\ OwnerToCome' <= OwnerToCome
                    /\ Owner \/ Fails \/ Unconfirmed \/ OwnerDeath => OwnerToCome' < OwnerToCome]_vars
  <1>1. TypeOK /\ [McpNext]_mcpVars =>
          [cancelled \/ expired =>
             /\ OwnerToCome' <= OwnerToCome
             /\ Owner \/ Fails \/ Unconfirmed \/ OwnerDeath => OwnerToCome' < OwnerToCome]_vars
    <2> SUFFICES ASSUME TypeOK, [McpNext]_mcpVars, vars' # vars, cancelled \/ expired
                 PROVE  /\ OwnerToCome' <= OwnerToCome
                        /\ Owner \/ Fails \/ Unconfirmed \/ OwnerDeath => OwnerToCome' < OwnerToCome
      OBVIOUS
    <2>1. CASE Owner \/ Fails \/ Unconfirmed \/ OwnerDeath
      <3>1. OwnerToCome' < OwnerToCome
        BY <2>1, OwnerWindsDown
      <3> QED
        BY <3>1, ToComeIsFinite
    <2>2. CASE ~(Owner \/ Fails \/ Unconfirmed \/ OwnerDeath)
      <3>1. pc' = pc
        BY <2>2, McpStepsOwned, OwnerStays DEF Next, Cancel
      <3>2. OwnerToCome' = OwnerToCome
        BY <3>1 DEF OwnerToCome
      <3> QED
        BY <2>2, <3>2, ToComeIsFinite
    <2> QED
      BY <2>1, <2>2
  <1>2. OwnedInv => TypeOK
    BY DEF OwnedInv
  <1> QED
    BY <1>1, <1>2, McpOwned, PTL DEF McpSpec

\* What a handler waits for is there: it awaits a worker it has asked for, and when it stays
\* for a check that goes on, the worker is at it and finds the event set.
THEOREM WaitedForIsAtWork ==
    McpSpec => [](/\ handler = "awaiting" => thread \in {"queued", "picked", "running", "command", "ended"}
                  /\ handler \in {"draining", "settling"} /\ started /\ ~done
                       => cancelled /\ thread \in {"running", "command"})
  <1>1. McpInv =>
          /\ handler = "awaiting" => thread \in {"queued", "picked", "running", "command", "ended"}
          /\ handler \in {"draining", "settling"} /\ started /\ ~done
               => cancelled /\ thread \in {"running", "command"}
    BY DEF McpInv, McpTypeOK, Worker, Leaving
  <1> QED
    BY <1>1, McpInvariance, PTL

\* The steps of the server for one request.
ServerStep ==
    \/ Request \/ Handler \/ Interrupted \/ ReporterRaises \/ Thread
    \/ OwnerGoes \/ CommandFails

\* A request whose event is set ends after finitely many steps of its handler, its worker and
\* the command's owner, however these are interleaved: no check step begins again, each step
\* leaves fewer, and no client, watcher, process or clock adds one.
THEOREM RequestsWindDown ==
    McpSpec => [][cancelled => /\ RequestToCome' <= RequestToCome
                               /\ ServerStep => RequestToCome' < RequestToCome]_mcpVars
  <1>1. McpInv /\ [McpNext]_mcpVars =>
          [cancelled => /\ RequestToCome' <= RequestToCome
                        /\ ServerStep => RequestToCome' < RequestToCome]_mcpVars
    <2> SUFFICES ASSUME McpInv, [McpNext]_mcpVars, mcpVars' # mcpVars, cancelled
                 PROVE  /\ RequestToCome' <= RequestToCome
                        /\ ServerStep => RequestToCome' < RequestToCome
      OBVIOUS
    <2> USE DEF HandlerGoes, HandlerStays, ThreadGoes, call
    <2>1. CASE Request \/ Handler \/ Interrupted \/ ReporterRaises
      <3>1. /\ pc' = pc
            /\ \/ thread' = thread
                  /\ \/ handler = "idle" /\ handler' = "greeting"
                     \/ handler = "greeting" /\ handler' = "finally"
                     \/ handler = "awaiting" /\ handler' \in {"draining", "finally"}
                     \/ handler = "draining" /\ handler' = "finally"
                     \/ handler = "finally" /\ handler' \in {"done", "settling"}
                     \/ handler = "settling" /\ handler' = "done"
               \/ handler = "greeting" /\ handler' = "awaiting" /\ thread = "none" /\ thread' = "queued"
        BY <2>1, OwnerStays DEF McpInv, Worker, Request, Handler, Greet, GreetFails, Returned, Drained,
           Finally, Settled, Interrupted, ReporterRaises, SetCancel, vars
      <3>2. thread' = thread => WorkerToCome' = WorkerToCome
        BY <3>1 DEF WorkerToCome, OwnerToCome
      <3>3. CASE thread' = thread
        <4>1. HandlerToCome' < HandlerToCome
          BY <3>1, <3>3 DEF HandlerToCome
        <4> QED
          BY <3>2, <3>3, <4>1, OneOfThemStepped
      <3>4. CASE thread' # thread
        BY <3>1, <3>4 DEF RequestToCome, HandlerToCome, WorkerToCome
      <3> QED
        BY <3>3, <3>4
    <2>2. CASE Thread
      <3>1. /\ handler' = handler /\ pc' = pc
            /\ \/ thread = "queued" /\ thread' = "picked"
               \/ thread = "picked" /\ thread' = "running"
               \/ thread = "running" /\ thread' = "ended"
               \/ thread = "command" /\ thread' = "running"
        BY <2>2 DEF Thread, PickUp, WorkerStarts, StepBegins, CommandReturns, WorkerEnds, vars
      <3>2. WorkerToCome' < WorkerToCome /\ HandlerToCome' = HandlerToCome
        BY <3>1, ToComeIsFinite DEF WorkerToCome, HandlerToCome
      <3> QED
        BY <3>2, OneOfThemStepped
    <2>3. CASE OwnerGoes \/ CommandFails
      <3>1. thread = "command" /\ UNCHANGED <<handler, thread>> /\ (Owner \/ Fails \/ Unconfirmed)
        BY <2>3 DEF OwnerGoes, CommandFails
      <3>2. OwnerToCome' < OwnerToCome
        BY <3>1, OwnerWindsDown DEF McpInv, OwnedInv
      <3>3. HandlerToCome' = HandlerToCome
        BY <3>1 DEF HandlerToCome
      <3>4. WorkerToCome' < WorkerToCome
        <4>1. WorkerToCome = 2 + OwnerToCome /\ WorkerToCome' = 2 + OwnerToCome'
          BY <3>1 DEF WorkerToCome
        <4>2. OwnerToCome \in Nat /\ OwnerToCome' \in Nat
          BY ToComeIsFinite
        <4>3. \A a, b \in Nat : a < b => 2 + a < 2 + b
          OBVIOUS
        <4> QED
          BY <3>2, <4>1, <4>2, <4>3
      <3> QED
        BY <3>3, <3>4, OneOfThemStepped
    <2>4. CASE ServerDies
      <3>1. HandlerToCome' = 0 /\ WorkerToCome' = 0
        BY <2>4 DEF ServerDies, HandlerToCome, WorkerToCome
      <3>2. ~ServerStep
        BY <2>4 DEF ServerDies, ServerStep, Request, Handler, Greet, GreetFails, Returned, Drained,
           Finally, Settled, Interrupted, ReporterRaises, Thread, PickUp, WorkerStarts, StepBegins,
           CommandReturns, WorkerEnds, OwnerGoes, CommandFails
      <3> QED
        BY <3>1, <3>2, ToComeIsFinite DEF RequestToCome
    <2>5. CASE \/ ClientCancels \/ WatcherFires \/ ReporterLosesClient \/ Disconnect
               \/ DeadlinePasses \/ TreeGoes
      <3>1. UNCHANGED <<handler, thread, pc>>
        BY <2>5, OwnerStays DEF ClientCancels, WatcherFires, ReporterLosesClient, Disconnect,
           DeadlinePasses, TreeGoes, SetCancel, vars
      <3>2. RequestToCome' <= RequestToCome
        <4>1. HandlerToCome' = HandlerToCome /\ WorkerToCome' = WorkerToCome
          BY <3>1 DEF HandlerToCome, WorkerToCome, OwnerToCome
        <4>2. HandlerToCome \in Nat /\ WorkerToCome \in Nat
          BY ToComeIsFinite
        <4>3. \A a, b \in Nat : a + b <= a + b
          OBVIOUS
        <4> QED
          BY <4>1, <4>2, <4>3 DEF RequestToCome
      <3>3. ASSUME ServerStep PROVE FALSE
        <4>1. CASE OwnerGoes \/ CommandFails
          <5>1. OwnerToCome' < OwnerToCome
            BY <4>1, OwnerWindsDown DEF McpInv, OwnedInv, OwnerGoes, CommandFails
          <5> QED
            BY <3>1, <5>1, ToComeIsFinite DEF OwnerToCome
        <4>2. CASE Request \/ Handler \/ Interrupted \/ ReporterRaises \/ Thread
          BY <3>1, <4>2 DEF Request, Handler, Greet, GreetFails, Returned, Drained, Finally, Settled,
             Interrupted, ReporterRaises, Thread, PickUp, WorkerStarts, StepBegins, CommandReturns,
             WorkerEnds
        <4> QED
          BY <3>3, <4>1, <4>2 DEF ServerStep
      <3> QED
        BY <3>2, <3>3
    <2> QED
      BY <2>1, <2>2, <2>3, <2>4, <2>5 DEF McpNext
  <1> QED
    BY <1>1, McpInvariance, PTL DEF McpSpec
=============================================================================
