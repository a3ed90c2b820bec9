--------------------------- MODULE SkillExecution ---------------------------
(***************************************************************************)
(* One call of Executor.execute(): the guards, the choice of how the skill *)
(* is run, the LLM that names a command, the sandbox, and the five places  *)
(* that hear how it ended: the registry's metrics, the formatted text, the *)
(* telemetry event, the evolution signal and the caller.                   *)
(*                                                                         *)
(* A command that exits 0 may still carry an HTTP error in its output      *)
(* (curl does), so the outcome can turn from a success into a failure on   *)
(* the way; who looks before the turn and who looks after it is what the   *)
(* properties are about.                                                   *)
(***************************************************************************)
EXTENDS Naturals, Sequences

VARIABLES
  manifest,   \* what execute() finds out about the skill, fixed for the call
  llm,        \* is there a chat client
  at,         \* where the call is
  path,       \* how the skill is run: "adapter", "command", "curl"
  ran,        \* runs of the sandbox so far
  body,       \* what the sandbox run printed
  outcome,    \* adapterResult: "none", "ok", "failed"
  metrics,    \* verdicts given to recordInvocationMetrics
  shown,      \* the verdict formattedOutput was made from
  validated,  \* outputValidated and its reason
  completed,  \* verdicts sent with adapter.completed
  signal,     \* verdicts recorded as evolution signals
  answer      \* what the caller got

execVars == <<manifest, llm, at, path, ran, body, outcome, metrics, shown,
              validated, completed, signal, answer>>

(***************************************************************************)
(* The facts about a skill that the code tests.  `scripts` is what is in   *)
(* its scripts/ directory (data: no script file); `text` is what its       *)
(* SKILL.md talks about (tools and docs: no API; local: scripts/ paths).   *)
(***************************************************************************)
Adapters == {"http", "mcp", "subprocess", "composed"}
Manifest ==
  [adapter : Adapters, endpoint : BOOLEAN, keysMissing : BOOLEAN,
   binsMissing : BOOLEAN, scripts : {"none", "data", "other", "invoke"},
   text : {"tools", "local", "api", "npx"}, validator : BOOLEAN]

Bodies == {"text", "json", "httpError", "empty"}
Verdicts == {"ok", "failed"}

HasFiles(m) == m.scripts # "none"
Guided(m) == m.adapter = "http" /\ ~m.endpoint
\* pickAdapter, then the inference for skills that declare no endpoint
Subprocess(m) ==
  \/ m.adapter = "subprocess"
  \/ Guided(m) /\ (HasFiles(m) \/ m.text = "npx")
\* the two pre-flights of executeHttpWithLLM; script files never get this far
NoApi(m) == m.text \in {"tools", "local"}
\* findEntryScript
HasEntry(m) == m.scripts \in {"other", "invoke"}
\* detectHttpErrorInOutput
EmbedsError(b) == b = "httpError"

ExecInit ==
  /\ manifest \in Manifest
  /\ llm \in BOOLEAN
  /\ at = "guard" /\ path = "adapter" /\ ran = 0 /\ body = "none"
  /\ outcome = "none" /\ metrics = <<>> /\ shown = "none"
  /\ validated = [ok |-> FALSE, reason |-> "none"]
  /\ completed = <<>> /\ signal = <<>> /\ answer = "none"

\* the call is over without an outcome to report
Answer(a) ==
  /\ at' = "done" /\ answer' = a
  /\ UNCHANGED <<manifest, llm, path, ran, body, outcome, metrics, shown,
                 validated, completed, signal>>

GuardKeys == at = "guard" /\ manifest.keysMissing /\ Answer("keysMissing")

GuardBins ==
  /\ at = "guard" /\ ~manifest.keysMissing /\ manifest.binsMissing
  /\ Answer("binsMissing")

Runnable == at = "guard" /\ ~manifest.keysMissing /\ ~manifest.binsMissing

\* A composed skill is handed to the composer, whose executions are calls of
\* their own; without one it fails
Compose ==
  /\ Runnable /\ manifest.adapter = "composed"
  /\ \E v \in Verdicts \cup {"thrown"} : (llm \/ v = "failed") /\ Answer(v)

\* readInstructions throws: nobody hears of the call but its caller
Unreadable == Runnable /\ manifest.adapter # "composed" /\ Answer("thrown")

Choose ==
  /\ Runnable /\ manifest.adapter # "composed"
  /\ path' = IF Subprocess(manifest) /\ llm /\ manifest.scripts # "invoke" THEN "command"
             ELSE IF ~Subprocess(manifest) /\ Guided(manifest) /\ llm THEN "curl"
             ELSE "adapter"
  /\ at' = IF path' = "adapter" THEN "invoke" ELSE "ask"
  /\ UNCHANGED <<manifest, llm, ran, body, outcome, metrics, shown, validated,
                 completed, signal, answer>>

-----------------------------------------------------------------------------
(* The adapter's result arrives; everything up to the validator is one turn *)

\* format(): the text is made of the result as it is at that moment
Formatted(v) == v

\* the signal of finally, left out when the run took no whole millisecond
Recorded(v) == signal' \in {signal, Append(signal, v)}

\* recordInvocationMetrics and format() first, then the search for an HTTP
\* error, then the validator or its sentinel
Reported(v, b) ==
  LET final == IF v = "ok" /\ EmbedsError(b) THEN "failed" ELSE v
  IN  /\ metrics' = Append(metrics, v)
      /\ shown' = Formatted(v)
      /\ outcome' = final
      /\ validated' =
           [ok |-> FALSE,
            reason |-> IF final = "failed" THEN "adapter failed"
                       ELSE IF manifest.validator THEN "pending" ELSE "no validator"]
      /\ at' = IF final = "ok" /\ manifest.validator THEN "validate" ELSE "emit"
      /\ UNCHANGED <<manifest, llm, completed, answer, signal>>

\* The registry saves its ratings within recordInvocationMetrics().  A save
\* that fails leaves the metrics counted in memory and execute() rejects,
\* whatever the adapter said; nothing is formatted, searched or sent.
Unsaved(v) ==
  /\ metrics' = Append(metrics, v) /\ outcome' = v
  /\ Recorded(v)
  /\ at' = "done" /\ answer' = "thrown"
  /\ UNCHANGED <<manifest, llm, shown, validated, completed>>

Settle(v, b) == (Reported(v, b) \/ Unsaved(v)) /\ UNCHANGED path

\* An adapter that throws: metrics, then the exception, or that of their save
Throw ==
  /\ metrics' = Append(metrics, "failed")
  /\ Recorded("failed")
  /\ at' = "done" /\ answer' = "thrown"
  /\ UNCHANGED <<manifest, llm, path, shown, outcome, validated, completed>>

Fails == Settle("failed", "none") /\ UNCHANGED <<ran, body>>

Keeps(to, how) ==
  /\ at' = to /\ path' = how
  /\ UNCHANGED <<manifest, llm, ran, body, outcome, metrics, shown, validated,
                 completed, signal, answer>>

\* The chat client rejects, or the command names a script that is not installed
AskFails == Fails \/ (Throw /\ UNCHANGED <<ran, body>>)

\* executeSubprocessWithLLM: an empty answer sends the skill to its adapter
AskCommand ==
  /\ at = "ask" /\ path = "command"
  /\ Keeps("run", path) \/ Keeps("invoke", "adapter") \/ AskFails

\* executeHttpWithLLM: an empty answer or NONE is a failure
AskCurl ==
  /\ at = "ask" /\ path = "curl"
  /\ IF NoApi(manifest) THEN Fails ELSE Keeps("run", path) \/ AskFails

\* HttpAdapter needs an endpoint, SubprocessAdapter a script; the MCP adapter
\* opens a session of its own
Invoke ==
  /\ at = "invoke"
  /\ IF \/ Subprocess(manifest) /\ ~HasEntry(manifest)
        \/ Guided(manifest) /\ ~Subprocess(manifest)
       THEN Fails
       ELSE Keeps("run", path)

\* The one run in the sandbox.  The HTTP adapter reads an envelope out of the
\* output: without one, or with a status that is not 2xx, it fails.
ReadsEnvelope == manifest.adapter = "http" /\ manifest.endpoint

Run ==
  /\ at = "run"
  /\ ran' = ran + 1
  /\ \/ \E b \in Bodies, accepted \in BOOLEAN :
          /\ accepted \/ ReadsEnvelope
          /\ body' = b
          /\ Settle(IF accepted THEN "ok" ELSE "failed", b)
     \/ /\ body' = "failure"
        /\ Settle("failed", "failure")
     \/ Throw /\ body' = "none"

\* runOutputValidator: its verdict, its exception or the timer, whichever is
\* first; a late verdict of the validator finds the race settled
Validate ==
  /\ at = "validate"
  /\ validated' \in {[ok |-> TRUE, reason |-> "none"]}
       \cup {[ok |-> FALSE, reason |-> r] : r \in {"invalid", "threw", "timeout"}}
  /\ at' = "emit"
  /\ UNCHANGED <<manifest, llm, path, ran, body, outcome, metrics, shown,
                 completed, signal, answer>>

\* Slip: the HTTP error is looked for after the event has been sent.
EmitEarly ==
  /\ at = "emit"
  /\ completed' = Append(completed, [verdict |-> shown, valid |-> validated.ok])
  /\ at' = "diagnose"
  /\ UNCHANGED <<manifest, llm, path, ran, body, outcome, metrics, shown,
                 validated, signal, answer>>

Emit ==
  /\ at = "emit"
  /\ completed' = Append(completed, [verdict |-> outcome, valid |-> validated.ok])
  /\ at' = "diagnose"
  /\ UNCHANGED <<manifest, llm, path, ran, body, outcome, metrics, shown,
                 validated, signal, answer>>

\* diagnoseAuthError may ask the LLM, whose rejection it swallows; then the
\* return and its finally
Return ==
  /\ at = "diagnose"
  /\ at' = "done" /\ answer' = outcome
  /\ Recorded(outcome)
  /\ UNCHANGED <<manifest, llm, path, ran, body, outcome, metrics, shown,
                 validated, completed>>

ExecNext ==
  \/ GuardKeys \/ GuardBins \/ Compose \/ Unreadable \/ Choose \/ AskCommand \/ AskCurl
  \/ Invoke \/ Run \/ Validate \/ Emit \/ Return

ExecSpec == ExecInit /\ [][ExecNext]_execVars
-----------------------------------------------------------------------------
ExecTypeOK ==
  /\ manifest \in Manifest /\ llm \in BOOLEAN /\ ran \in 0..1
  /\ at \in {"guard", "ask", "invoke", "run", "validate", "emit", "diagnose", "done"}
  /\ path \in {"adapter", "command", "curl"}
  /\ body \in Bodies \cup {"none", "failure"}
  /\ outcome \in Verdicts \cup {"none"} /\ shown \in Verdicts \cup {"none"}
  /\ validated.ok \in BOOLEAN
  /\ answer \in Verdicts \cup {"none", "keysMissing", "binsMissing", "thrown"}

Executed == at = "done" /\ manifest.adapter # "composed" /\ answer \in Verdicts
Heard(log, v) == log = <<v>>

\* Whoever hears of a call hears what its caller is told.  The telemetry event
\* and the evolution signal are built from the final outcome; a validator's
\* approval stands only beside a success.  The metrics of the registry, which
\* feed ratings and routing, and the formatted text are older than the search
\* for an HTTP error: there, and only there, a failed call counts as a success.
\* A call that rejects sends no event.  Either its adapter threw, and whoever
\* hears of it hears of a failure, or the metrics could not be saved, and they
\* and the signal say what the adapter had said, a success after a run only.
ObserversAgree ==
  /\ Executed =>
       /\ Heard(completed, [verdict |-> answer, valid |-> validated.ok])
       /\ signal \in {<<>>, <<answer>>}
       /\ validated.ok => answer = "ok" /\ manifest.validator
       /\ \/ Heard(metrics, answer) /\ shown = answer
          \/ Heard(metrics, "ok") /\ answer = "failed" /\ EmbedsError(body)
  /\ answer = "thrown" /\ metrics # <<>> =>
       /\ completed = <<>> /\ shown = "none" /\ ~validated.ok
       /\ signal \in {<<>>, metrics}
       /\ IF outcome = "none" THEN Heard(metrics, "failed") ELSE Heard(metrics, outcome)
       /\ Heard(metrics, "ok") => ran = 1 /\ body \in Bodies

\* A skill reaches the sandbox at most once per call, never when a credential
\* or a binary is missing, and a call succeeds only by such a run whose output
\* carried no HTTP error.
SuccessRan ==
  /\ manifest.keysMissing \/ manifest.binsMissing => ran = 0 /\ metrics = <<>>
  /\ Executed /\ answer = "ok" => ran = 1 /\ body \in Bodies /\ ~EmbedsError(body)
=============================================================================
