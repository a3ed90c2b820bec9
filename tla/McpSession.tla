----------------------------- MODULE McpSession -----------------------------
(***************************************************************************)
(* Calls of an MCP skill: McpAdapter.invoke() (mcp-adapter.ts) over a      *)
(* SandboxMcpTransport (sandbox-mcp-transport.ts), which holds a           *)
(* persistent session of the sandbox runner.                               *)
(*                                                                         *)
(* The client in between is the MCP SDK: connect() starts the transport    *)
(* and sends `initialize`, a request ends with its answer, with an error,  *)
(* with its own timeout or when the transport's onclose fires.             *)
(*                                                                         *)
(* Three parties close the transport: the adapter when it is done or has   *)
(* failed, the client when `initialize` fails, and the end of the guest.   *)
(***************************************************************************)
CONSTANT Call  \* invocations of MCP skills, each with its own transport

VARIABLES
  call,     \* where invoke() is
  result,   \* what it answers
  start,    \* transport.start() and the port.spawn() it waits for
  held,     \* transport.session is set
  closing,  \* the memoized promise of transport.close()
  session,  \* the runner's session
  breached, \* session.close() threw a ContainmentCleanupError
  guest     \* the server in the sandbox; "noticed": its `exited` was handled

mcpVars == <<call, result, start, held, closing, session, breached, guest>>

McpTypeOK ==
  /\ call     \in [Call -> {"idle", "connect", "list", "tool", "finish", "catch", "returned"}]
  /\ result   \in [Call -> {"none", "success", "failure"}]
  /\ start    \in [Call -> {"no", "pending", "orphaned", "started", "stray", "failed"}]
  /\ held     \in [Call -> BOOLEAN]
  /\ closing  \in [Call -> {"no", "pending", "resolved", "rejected"}]
  /\ session  \in [Call -> {"none", "open", "closing", "closed"}]
  /\ breached \in [Call -> BOOLEAN]
  /\ guest    \in [Call -> {"none", "alive", "exited", "noticed"}]

McpInit ==
  /\ call     = [c \in Call |-> "idle"]
  /\ result   = [c \in Call |-> "none"]
  /\ start    = [c \in Call |-> "no"]
  /\ held     = [c \in Call |-> FALSE]
  /\ closing  = [c \in Call |-> "no"]
  /\ session  = [c \in Call |-> "none"]
  /\ breached = [c \in Call |-> FALSE]
  /\ guest    = [c \in Call |-> "none"]

Goto(c, stage, res) ==
  /\ call'   = [call EXCEPT ![c] = stage]
  /\ result' = [result EXCEPT ![c] = res]

----------------------------------------------------------------------------
(***************************************************************************)
(* The transport.                                                          *)
(***************************************************************************)

\* Slip: every close() does the work again.
MemoizedNever(c) == FALSE

\* A later close() joins the first one.
Memoized(c) == closing[c] # "no"

\* close() takes the session that is there by now.  One that start() still
\* waits for has nobody left to close it.
CloseTransport(c) ==
  IF Memoized(c)
  THEN UNCHANGED <<start, held, closing, session>>
  ELSE /\ closing' = [closing EXCEPT ![c] = IF held[c] THEN "pending" ELSE "resolved"]
       /\ session' = [session EXCEPT ![c] = IF held[c] THEN "closing" ELSE @]
       /\ start'   = [start EXCEPT ![c] = IF @ = "pending" THEN "orphaned" ELSE @]
       /\ held'    = [held EXCEPT ![c] = FALSE]

\* onclose fires when finishClose() ends, either way.
Closed(c) == closing[c] \in {"resolved", "rejected"}

\* port.spawn() has returned a session; its guest runs, whoever still waits.
SpawnReturns(c) ==
  /\ start[c] \in {"pending", "orphaned"}
  /\ start'   = [start EXCEPT ![c] = IF @ = "pending" THEN "started" ELSE "stray"]
  /\ held'    = [held EXCEPT ![c] = TRUE]
  /\ session' = [session EXCEPT ![c] = "open"]
  /\ guest'   = [guest EXCEPT ![c] = "alive"]
  /\ UNCHANGED <<call, result, closing, breached>>

\* port.spawn() rejects, having undone what it did; an adapter that still
\* waits catches the error and closes a transport without a session.
SpawnFails(c) ==
  /\ start[c] \in {"pending", "orphaned"}
  /\ start' = [start EXCEPT ![c] = "failed"]
  /\ IF start[c] = "pending"
     THEN /\ Goto(c, "catch", "failure")
          /\ closing' = [closing EXCEPT ![c] = "resolved"]
     ELSE UNCHANGED <<call, result, closing>>
  /\ UNCHANGED <<held, session, breached, guest>>

\* The guest ends by itself or by the runner's timeout.
GuestExits(c) ==
  /\ guest[c] = "alive"
  /\ guest' = [guest EXCEPT ![c] = "exited"]
  /\ UNCHANGED <<call, result, start, held, closing, session, breached>>

\* handleProcessEnd()
ProcessEnds(c) ==
  /\ guest[c] = "exited"
  /\ guest' = [guest EXCEPT ![c] = "noticed"]
  /\ CloseTransport(c)
  /\ UNCHANGED <<call, result, breached>>

\* Slip: finishClose() swallows what session.close() throws.
SettledQuietly(breach) == "resolved"

Settled(breach) == IF breach THEN "rejected" ELSE "resolved"

\* session.close() has torn the session down; finishClose() ends with it.
SessionCloses(c) ==
  /\ session[c] = "closing"
  /\ \E breach \in BOOLEAN :
       /\ breached' = [breached EXCEPT ![c] = breach]
       /\ closing'  = [closing EXCEPT ![c] = Settled(breach)]
  /\ session' = [session EXCEPT ![c] = "closed"]
  /\ guest'   = [guest EXCEPT ![c] = IF @ = "alive" THEN "exited" ELSE @]
  /\ UNCHANGED <<call, result, start, held>>
----------------------------------------------------------------------------
(***************************************************************************)
(* invoke()                                                                *)
(***************************************************************************)

\* No command to run, or client.connect() with the timer beside it.
Invoke(c) ==
  /\ call[c] = "idle"
  /\ \/ Goto(c, "returned", "failure") /\ UNCHANGED start
     \/ Goto(c, "connect", "none") /\ start' = [start EXCEPT ![c] = "pending"]
  /\ UNCHANGED <<held, closing, session, breached, guest>>

\* Slip: the timer runs once the server has been started.
TimedFromStart(c) == start[c] = "started"

\* The timer runs beside the whole of connect(), spawn included.
Timed(c) == start[c] \in {"pending", "started"}

\* MCP_CONNECTION_TIMEOUT: the catch block closes the transport.
ConnectTimeout(c) ==
  /\ call[c] = "connect" /\ Timed(c)
  /\ Goto(c, "catch", "failure")
  /\ CloseTransport(c)
  /\ UNCHANGED <<breached, guest>>

\* A request is out while the server is started and onclose has not fired.
Talking(c) == call[c] \in {"connect", "list", "tool"} /\ start[c] = "started"

\* An answer arrives, and the next request can be sent only if nobody has
\* begun to close.
Answered(c) ==
  /\ Talking(c) /\ call[c] # "tool"
  /\ closing[c] = "no"
  /\ Goto(c, IF call[c] = "connect" THEN "list" ELSE "tool", "none")
  /\ UNCHANGED <<start, held, closing, session, breached, guest>>

\* No tool, a tool's error, or a tool's output: client.close() comes next,
\* then transport.close().
Finish(c) ==
  /\ Talking(c) /\ ~Closed(c)
  /\ \/ call[c] = "list" /\ Goto(c, "finish", "failure")
     \/ call[c] = "tool" /\ \E res \in {"success", "failure"} : Goto(c, "finish", res)
  /\ CloseTransport(c)
  /\ UNCHANGED <<breached, guest>>

\* A request fails: by an error, its timeout, onclose, or a transport that is
\* closed when the next one is to be sent.
RequestFails(c) ==
  /\ Talking(c)
  /\ Goto(c, "catch", "failure")
  /\ CloseTransport(c)
  /\ UNCHANGED <<breached, guest>>

\* invoke() returns once close() has settled.  One that rejects sends the
\* normal path into the catch block, which ignores the same rejection.
Return(c) ==
  /\ call[c] \in {"finish", "catch"} /\ Closed(c)
  /\ Goto(c, "returned", IF closing[c] = "rejected" THEN "failure" ELSE result[c])
  /\ UNCHANGED <<start, held, closing, session, breached, guest>>

Waits(c) == ConnectTimeout(c) \/ RequestFails(c) \/ Return(c) \/ SessionCloses(c)

McpStep(c) ==
  \/ Invoke(c) \/ SpawnReturns(c) \/ SpawnFails(c) \/ GuestExits(c) \/ ProcessEnds(c)
  \/ Answered(c) \/ Finish(c) \/ Waits(c)

McpNext == \E c \in Call : McpStep(c)

McpSpec == McpInit /\ [][McpNext]_mcpVars

\* Timers fire, promises that have settled are continued, and a session that
\* is being closed is closed in the end, which is what RunSettles says of the
\* runner.  Neither spawn() nor the server has to answer.
McpFairness == \A c \in Call : WF_mcpVars(Waits(c))
----------------------------------------------------------------------------
(***************************************************************************)
(* Correctness.                                                            *)
(***************************************************************************)

\* When invoke() returns, the session it spawned has been torn down, whoever
\* began to close it, except one whose spawn() outlasted the connect timer.
ReturnedReleased ==
  \A c \in Call :
    call[c] = "returned" /\ start[c] # "stray" => session[c] \in {"none", "closed"}

\* A tool's output is returned as a success only after its session has been
\* closed and the teardown has contained the guest.
SuccessContained ==
  \A c \in Call :
    call[c] = "returned" /\ result[c] = "success" => session[c] = "closed" /\ ~breached[c]

\* Every call of an MCP skill returns, even if spawn() and the server hang.
InvokeReturns == \A c \in Call : call[c] = "connect" ~> call[c] = "returned"

\* sandbox-mcp-transport.ts:124: "A peer exit closes the transport AND releases
\* the runner-owned session."
SessionReleased ==
  \A c \in Call : guest[c] = "noticed" /\ Closed(c) => session[c] = "closed"
----------------------------------------------------------------------------
(***************************************************************************)
(* The inductive invariant.                                                *)
(***************************************************************************)

\* Where invoke(), close() and the session may be at each stage of start().
StartFits ==
  \A c \in Call :
    /\ start[c] = "no" => call[c] \in {"idle", "returned"} /\ closing[c] = "no"
    /\ start[c] = "pending" => call[c] = "connect" /\ closing[c] = "no"
    /\ start[c] \in {"orphaned", "failed", "stray"} =>
         call[c] \in {"catch", "returned"} /\ closing[c] = "resolved"
    /\ start[c] \notin {"started", "stray"} =>
         session[c] = "none" /\ ~held[c] /\ guest[c] = "none"
    /\ start[c] = "stray" => session[c] = "open"

\* A session that start() has handed over is closed by the one close().
SessionFits ==
  \A c \in Call :
    /\ breached[c] => closing[c] = "rejected"
    /\ start[c] = "started" =>
         /\ held[c] <=> closing[c] = "no"
         /\ closing[c] = "no" => session[c] = "open"
         /\ closing[c] = "pending" => session[c] = "closing"
         /\ Closed(c) => session[c] = "closed"
         /\ call[c] # "idle"
         /\ call[c] \in {"finish", "catch", "returned"} => closing[c] # "no"
         /\ call[c] = "returned" => Closed(c)

\* Only a call whose session was handed over can succeed.
ResultFits ==
  \A c \in Call : result[c] = "success" =>
    /\ start[c] = "started" /\ call[c] \in {"finish", "returned"}
    /\ call[c] = "returned" => closing[c] = "resolved"

McpInductive == McpTypeOK /\ StartFits /\ SessionFits /\ ResultFits
=============================================================================
