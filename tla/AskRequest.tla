----------------------------- MODULE AskRequest -----------------------------
(***************************************************************************)
(* Traced requests: the /ask handler (agent-protocol.ts), the telemetry of *)
(* Router.route() and Executor.execute(), the calls of MCP skills          *)
(* (McpSession) and the buffer their events meet in (DebugTelemetry).      *)
(*                                                                         *)
(* A step of a request is what its handler does between two awaits.        *)
(***************************************************************************)
EXTENDS McpSession, DebugTelemetry

ASSUME CallAssumption == Call = Request

VARIABLES
  ask,     \* the await each handler is at
  outcome  \* the terminal event it has emitted

askVars == <<ask, outcome>>
vars    == <<mcpVars, buffer, askVars>>

TypeOK ==
  /\ McpTypeOK /\ BufferTypeOK
  /\ ask \in [Request -> {"idle", "routing", "answering", "running", "calling",
                          "validating", "replying", "done"}]
  /\ outcome \in [Request -> {"none", "complete", "failed"}]

Init ==
  /\ McpInit /\ BufferInit
  /\ ask     = [r \in Request |-> "idle"]
  /\ outcome = [r \in Request |-> "none"]

\* The handler goes on to its next await, with buffer b.
Await(r, stage, b) ==
  /\ ask'    = [ask EXCEPT ![r] = stage]
  /\ buffer' = b
  /\ UNCHANGED outcome

\* emitTerminal() and the end of the handler.  The flag lets one call through.
End(r, value, b) ==
  /\ ask'     = [ask EXCEPT ![r] = "done"]
  /\ outcome' = [outcome EXCEPT ![r] = value]
  /\ buffer'  = Recorded(b, r, Terminal(value))

EndEither(r, b) == \E value \in {"complete", "failed"} : End(r, value, b)

\* Up to the call of route().  Setup may throw, before or after the start is
\* recorded, and a message that is feedback ends the request.
Begin(r) ==
  /\ ask[r] = "idle"
  /\ \/ End(r, "failed", buffer)
     \/ EndEither(r, Opened(buffer, r))
     \/ Await(r, "routing", Opened(buffer, r))
  /\ UNCHANGED mcpVars

\* route() rejects, emitting nothing, or resolves: to no skill or to a composed
\* one, which emit nothing more, to one that is refused, or to one that runs in
\* the sandbox once or as an MCP server.
Routed(r) ==
  /\ ask[r] = "routing"
  /\ LET b == Recorded(buffer, r, Routing) IN
     \/ /\ \/ End(r, "failed", buffer)
           \/ End(r, "complete", b)
           \/ \E stage \in {"answering", "running"} : Await(r, stage, b)
        /\ UNCHANGED mcpVars
     \/ Await(r, "calling", b) /\ Invoke(r)

\* The direct answer of the language model, or the chain of a composed skill.
Answers(r) ==
  /\ ask[r] = "answering"
  /\ EndEither(r, buffer)
  /\ UNCHANGED mcpVars

\* A run() of the skill reports under the executionId of execute().
RunReports(r) ==
  /\ ask[r] = "running"
  /\ Await(r, "running", Recorded(buffer, r, Sandbox("execution", "final")))
  /\ UNCHANGED mcpVars

\* The adapter returns, and its output is validated, or execute() throws.
Executed(r) ==
  /\ ask[r] = "running" \/ (ask[r] = "calling" /\ call[r] = "returned")
  /\ Await(r, "validating", buffer) \/ End(r, "failed", buffer)
  /\ UNCHANGED mcpVars

Validated(r) ==
  /\ ask[r] = "validating"
  /\ Await(r, "replying", Recorded(buffer, r, Adapter("execution")))
  /\ UNCHANGED mcpVars

Reply(r) ==
  /\ ask[r] = "replying"
  /\ EndEither(r, buffer)
  /\ UNCHANGED mcpVars

\* spawn() reports the session it returns, under an executionId of its own.
SessionCreated(r) ==
  /\ SpawnReturns(r)
  /\ buffer' = Recorded(buffer, r, Sandbox("session", "created"))
  /\ UNCHANGED askVars

\* close() of the session reports before it resolves or throws.
SessionFinal(r) ==
  /\ SessionCloses(r)
  /\ buffer' = Recorded(buffer, r, Sandbox("session", "final"))
  /\ UNCHANGED askVars

\* Steps of the call that emit nothing.
CallWaits(r) ==
  /\ ConnectTimeout(r) \/ RequestFails(r) \/ Return(r)
  /\ UNCHANGED <<buffer, askVars>>

CallSteps(r) ==
  /\ SpawnFails(r) \/ GuestExits(r) \/ ProcessEnds(r) \/ Answered(r) \/ Finish(r)
  /\ UNCHANGED <<buffer, askVars>>

Step(r) ==
  \/ Begin(r) \/ Routed(r) \/ Answers(r) \/ RunReports(r) \/ Executed(r)
  \/ Validated(r) \/ Reply(r)
  \/ SessionCreated(r) \/ SessionFinal(r) \/ CallWaits(r) \/ CallSteps(r)

Next == \E r \in Request : Step(r)

Fairness == \A r \in Request : WF_vars(CallWaits(r) \/ SessionFinal(r))

Spec == Init /\ [][Next]_vars /\ Fairness
----------------------------------------------------------------------------
(***************************************************************************)
(* Correctness.                                                            *)
(***************************************************************************)

\* When a request is over, its record, if it has one, says so: it has the
\* status of the one terminal event and no run that is still open, even if the
\* record was evicted in between and made anew by a later event.  A session
\* that was spawned behind the request's back is the exception.
SettledRecord ==
  \A r \in Request :
    ask[r] = "done" /\ Holds(buffer, r) /\ start[r] # "stray" =>
      /\ buffer.record[r].status = outcome[r]
      /\ \A x \in Execution : buffer.record[r].runs[x] # "created"
----------------------------------------------------------------------------
(***************************************************************************)
(* The inductive invariant.                                                *)
(***************************************************************************)

\* A call runs only while its handler waits for it; every open run is a session
\* that is there and will report again; terminal event and status are those of
\* the handler.
Fits(r) ==
  LET rec == buffer.record[r] IN
  /\ ask[r] # "calling" => call[r] \in {"idle", "returned"}
  /\ outcome[r] = "none" <=> ask[r] # "done"
  /\ rec.runs["execution"] # "created"
  /\ rec.runs["session"] = "created" => session[r] \in {"open", "closing"}
  /\ Holds(buffer, r) /\ start[r] # "stray" =>
       /\ rec.terminal = outcome[r]
       /\ rec.status = IF outcome[r] = "none" THEN "pending" ELSE outcome[r]
       /\ ask[r] = "done" => rec.runs["session"] # "created"

Inductive == TypeOK /\ McpInductive /\ \A r \in Request : Fits(r)
=============================================================================
