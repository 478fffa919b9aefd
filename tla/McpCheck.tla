------------------------------- MODULE McpCheck -------------------------------
(***************************************************************************)
(* cli/mcp_server.py: governance_check(stage = "finish") as the MCP server  *)
(* serves it.  The handler registers a cancellation event, hands the check  *)
(* to a worker thread and waits; a watcher and a progress reporter run      *)
(* beside it and may set the event, as does the loss of stdin for all       *)
(* handlers that are registered.  An interrupted handler abandons the       *)
(* thread, sets the event and stays until a check that has started is done. *)
(*                                                                          *)
(* The check runs one command: OwnedCommand, with the handler's event as    *)
(* its cancellation.  What else a check does is FinishRun.                  *)
(***************************************************************************)
EXTENDS OwnedCommand, Naturals

CONSTANTS
    Steps,      \* the number of steps of the check
    CommandStep \* the step that runs the command

ASSUME StepsAssumption == Steps \in Nat /\ CommandStep \in 1 .. Steps

VARIABLES
    handler, \* where the handler of the request stands
    thread,  \* where the worker thread stands
    started, done, \* the events the worker sets
    begun,   \* the steps that have begun
    asked,   \* the client has cancelled the request
    stdin    \* the server's input

call == <<handler, thread, started, done, begun>>
mcpVars == <<vars, call, asked, stdin>>

Registered == {"greeting", "awaiting", "draining", "finally", "settling"}

McpTypeOK ==
    /\ TypeOK
    /\ handler \in {"idle", "done", "dead"} \cup Registered
    /\ thread \in {"none", "queued", "picked", "running", "command", "ended", "dead"}
    /\ started \in BOOLEAN /\ done \in BOOLEAN /\ asked \in BOOLEAN
    /\ begun \in 0 .. Steps
    /\ stdin \in {"open", "closed"}

McpInit ==
    /\ Init /\ ~cancelled
    /\ handler = "idle" /\ thread = "none"
    /\ started = FALSE /\ done = FALSE /\ asked = FALSE
    /\ begun = 0
    /\ stdin = "open"

\* cancel.set()
SetCancel == cancelled' = TRUE /\ UNCHANGED <<platform, owner, job, recorded, payload, tree, doomed, expired>>

HandlerGoes(from, to) == handler = from /\ handler' = to
HandlerStays == UNCHANGED <<asked, stdin>>

-----------------------------------------------------------------------------
(***************************************************************************)
(* The handler.                                                             *)
(***************************************************************************)
\* Also requests that were read before the input closed and are dispatched later.
Request ==
    /\ HandlerGoes("idle", "greeting")
    /\ UNCHANGED <<vars, thread, started, done, begun>> /\ HandlerStays

\* The run id is reported before anything else; then the thread is asked for.
Greet ==
    /\ HandlerGoes("greeting", "awaiting")
    /\ thread' = "queued"
    /\ UNCHANGED <<vars, started, done, begun>> /\ HandlerStays

\* The report cannot be delivered, or the handler is cancelled while it waits for that.
GreetFails ==
    /\ HandlerGoes("greeting", "finally")
    /\ \/ UNCHANGED vars
       \/ (asked \/ stdin = "closed") /\ SetCancel
    /\ UNCHANGED <<thread, started, done, begun>> /\ HandlerStays

Returned ==
    /\ HandlerGoes("awaiting", "finally")
    /\ thread = "ended"
    /\ UNCHANGED <<vars, thread, started, done, begun>> /\ HandlerStays

\* Mutant: the thread is abandoned and not told.
InterruptedSilently ==
    /\ HandlerGoes("awaiting", "draining")
    /\ asked \/ stdin = "closed"
    /\ UNCHANGED <<vars, thread, started, done, begun>> /\ HandlerStays

\* The SDK cancels the handler, after a cancelled request or when the session ends.
Interrupted ==
    /\ HandlerGoes("awaiting", "draining")
    /\ asked \/ stdin = "closed"
    /\ SetCancel
    /\ UNCHANGED <<thread, started, done, begun>> /\ HandlerStays

\* The reporter has something to report once the check has started.
ReporterRaises ==
    /\ started
    /\ HandlerGoes("awaiting", "finally")
    /\ UNCHANGED <<vars, thread, started, done, begun>> /\ HandlerStays

Drained ==
    /\ HandlerGoes("draining", "finally")
    /\ ~started \/ done
    /\ UNCHANGED <<vars, thread, started, done, begun>> /\ HandlerStays

\* Mutant: the handler leaves without a look at the worker.
LeaveAtOnce ==
    /\ HandlerGoes("finally", "done")
    /\ UNCHANGED vars
    /\ UNCHANGED <<thread, started, done, begun>> /\ HandlerStays

Finally ==
    /\ \/ ~(started /\ ~done) /\ HandlerGoes("finally", "done") /\ UNCHANGED vars
       \/ started /\ ~done /\ HandlerGoes("finally", "settling") /\ SetCancel
    /\ UNCHANGED <<thread, started, done, begun>> /\ HandlerStays

Settled ==
    /\ HandlerGoes("settling", "done")
    /\ done
    /\ UNCHANGED <<vars, thread, started, done, begun>> /\ HandlerStays

-----------------------------------------------------------------------------
(***************************************************************************)
(* The worker thread.                                                       *)
(***************************************************************************)
ThreadGoes(from, to) ==
    /\ thread = from /\ thread' = to
    /\ UNCHANGED <<handler, asked, stdin>>

\* The thread drops a call whose future has been cancelled - as it looks, not later.
PickUp ==
    /\ handler = "awaiting"
    /\ ThreadGoes("queued", "picked")
    /\ UNCHANGED <<vars, started, done, begun>>

WorkerStarts ==
    /\ ThreadGoes("picked", "running")
    /\ started' = TRUE
    /\ UNCHANGED <<vars, done, begun>>

\* The progress callback raises when the event is set, so no step begins after that.
StepBegins ==
    /\ begun < Steps /\ ~cancelled
    /\ begun' = begun + 1
    /\ ThreadGoes("running", IF begun' = CommandStep THEN "command" ELSE "running")
    /\ UNCHANGED <<vars, started, done>>

CommandReturns ==
    /\ pc = "ended"
    /\ ThreadGoes("command", "running")
    /\ UNCHANGED <<vars, started, done, begun>>

\* Mutant: done is set on the way out only when the check has returned.
DoneWhenChecked ==
    /\ ThreadGoes("running", "ended")
    /\ begun = Steps \/ cancelled
    /\ done' = (begun = Steps)
    /\ UNCHANGED <<vars, started, begun>>

\* All steps made, an event seen, or an error: done is set in any case.
WorkerEnds ==
    /\ ThreadGoes("running", "ended")
    /\ done' = TRUE
    /\ UNCHANGED <<vars, started, begun>>

-----------------------------------------------------------------------------
(***************************************************************************)
(* The client, the tasks beside the handler, and the process.               *)
(***************************************************************************)
ClientCancels ==
    /\ handler \in Registered /\ ~asked
    /\ asked' = TRUE
    /\ UNCHANGED <<vars, call, stdin>>

WatcherFires ==
    /\ asked /\ handler = "awaiting" /\ ~cancelled
    /\ SetCancel
    /\ UNCHANGED call /\ HandlerStays

\* A report meets a closed stream.
ReporterLosesClient ==
    /\ handler = "awaiting" /\ started /\ ~cancelled
    /\ SetCancel
    /\ UNCHANGED call /\ HandlerStays

\* All events that are registered at this moment are set.
Disconnect ==
    /\ stdin = "open" /\ stdin' = "closed"
    /\ IF handler \in Registered THEN SetCancel ELSE UNCHANGED vars
    /\ UNCHANGED <<call, asked>>

ServerDies ==
    /\ handler \notin {"idle", "dead"}
    /\ handler' = "dead" /\ thread' = "dead"
    /\ (OwnerDeath \/ (pc = "ended" /\ UNCHANGED vars))
    /\ UNCHANGED <<started, done, begun, asked, stdin>>

\* run_owned goes on in the thread; the tree below it does by itself.
OwnerGoes == thread = "command" /\ Owner /\ UNCHANGED <<call, asked, stdin>>
CommandFails == thread = "command" /\ (Fails \/ Unconfirmed) /\ UNCHANGED <<call, asked, stdin>>
DeadlinePasses == thread = "command" /\ Expire /\ UNCHANGED <<call, asked, stdin>>
TreeGoes == Tree /\ UNCHANGED <<call, asked, stdin>>

Handler == Greet \/ GreetFails \/ Returned \/ Drained \/ Finally \/ Settled
Thread == PickUp \/ WorkerStarts \/ StepBegins \/ CommandReturns \/ WorkerEnds

McpNext ==
    \/ Request \/ Handler \/ Interrupted \/ ReporterRaises
    \/ Thread
    \/ ClientCancels \/ WatcherFires \/ ReporterLosesClient \/ Disconnect \/ ServerDies
    \/ OwnerGoes \/ CommandFails \/ DeadlinePasses \/ TreeGoes

\* The event loop and the thread go on, the watcher is scheduled; for the command, see
\* OwnedCommand.  That an interrupt comes, a deadline passes or a command ends is not assumed.
McpFairness ==
    /\ WF_mcpVars(Handler) /\ WF_mcpVars(Thread) /\ WF_mcpVars(WatcherFires)
    /\ WF_mcpVars(OwnerGoes \/ (thread = "command" /\ Unconfirmed /\ UNCHANGED <<call, asked, stdin>>))
    /\ WF_mcpVars(doomed /\ BootDies /\ UNCHANGED <<call, asked, stdin>>)
    /\ WF_mcpVars(CommandDies /\ UNCHANGED <<call, asked, stdin>>)
    /\ WF_mcpVars(doomed /\ ChildDies /\ UNCHANGED <<call, asked, stdin>>)
    /\ WF_mcpVars(BootUnfed /\ UNCHANGED <<call, asked, stdin>>)

McpSpec == McpInit /\ [][McpNext]_mcpVars /\ McpFairness

-----------------------------------------------------------------------------
(***************************************************************************)
(* Properties.                                                              *)
(***************************************************************************)

\* When a request has been answered, or dropped, nothing of its check goes on: no step
\* begins any more, no command runs and, if its end could be confirmed, nothing is left of
\* its tree.  A thread that has passed the look at its future before the handler was
\* interrupted starts after the handler has left; it must find the event set.
NothingRunsOn ==
    handler = "done" =>
        /\ thread # "command"
        /\ thread = "running" => cancelled \/ begun = Steps
        /\ outcome # "failed" => ~Alive

\* Whatever has been asked to stop ends: a call of run_owned after its cancellation or its
\* deadline, and the request the client has cancelled, although its handler waits for the
\* thread and the thread for the whole tree of its command.
CancelledCallEnds ==
    /\ EndsWhenAsked
    /\ asked ~> handler \in {"done", "dead"}
=============================================================================
