----------------------------- MODULE OsProcess -----------------------------
(***************************************************************************)
(* One guest process of the os backend: spawn() of os-backend.ts, with the *)
(* collector behind `exited`, kill() and close(), and run(), which awaits  *)
(* `exited` and checks that the session cgroup is empty.                   *)
(*                                                                         *)
(* The child of the runner is the trusted helper; the guest runs below it, *)
(* in the cgroup the helper was attached to.  A step is the code between   *)
(* two awaits, or one event: data, the timer, the child's `close`.         *)
(***************************************************************************)
EXTENDS Naturals

CONSTANTS
  OutputMax,   \* outputMaxBytes, the cap on stdout and stderr together
  Chunk,       \* the sizes of a chunk of output
  ArrivedMax   \* bound of the model: bytes the guest writes at most

ASSUME SizesAssumption ==
  /\ OutputMax \in Nat /\ ArrivedMax \in Nat
  /\ Chunk \subseteq Nat \ {0}

VARIABLES
  helper,     \* the child process: "stopped", "running" or "exited"
  code,       \* how the helper ended; "signal" leaves child.exitCode null
  guest,      \* the processes below the helper
  muted,      \* the guest has closed its ends of the stdio pipes
  attached,   \* the helper, and so the guest, is in the session cgroup
  doomed,     \* SIGKILL is pending for every process of the cgroup
  kill,       \* doCgroupKill(): "no", "writing", "draining" or "done"
  killOk,     \* containmentKillSucceeded
  collected,  \* bytes buffered of each stream
  arrived,    \* bytes the streams have delivered
  overflow,   \* outputOverflow
  timer,      \* the timeout is armed
  timedOut,
  settled,    \* "no", or the exit code settle() was called with
  result,     \* the level `exited` resolved with, "none yet" before
  flow,       \* where spawn() and its caller are
  outcome,    \* how run() ended
  closing,    \* the first close() call
  killer      \* a kill() call of the caller

processVars == <<helper, code, guest, muted, attached, doomed>>
killVars    == <<kill, killOk>>
outputVars  == <<collected, arrived, overflow>>
answerVars  == <<timer, timedOut, settled, result>>
callerVars  == <<flow, outcome, closing, killer>>
vars == <<processVars, killVars, outputVars, answerVars, callerVars>>

Stream == {"out", "err"}

TypeOK ==
  /\ helper    \in {"stopped", "running", "exited"}
  /\ code      \in {"none", "zero", "nonzero", "signal"}
  /\ guest     \in {"none", "running", "gone"}
  /\ muted     \in BOOLEAN
  /\ attached  \in BOOLEAN
  /\ doomed    \in BOOLEAN
  /\ kill      \in {"no", "writing", "draining", "done"}
  /\ killOk    \in BOOLEAN
  /\ collected \in [Stream -> 0..OutputMax]
  /\ arrived   \in 0..ArrivedMax
  /\ overflow  \in BOOLEAN
  /\ timer     \in BOOLEAN
  /\ timedOut  \in BOOLEAN
  /\ settled   \in {"no", "zero", "nonzero", "137"}
  /\ result    \in {"none yet", "full", "none"}
  /\ flow      \in {"attach", "failed", "await", "waitEmpty", "close", "done", "held"}
  /\ outcome   \in {"none yet", "returned", "threw"}
  /\ closing   \in {"no", "kill", "await", "done"}
  /\ killer    \in {"no", "kill", "done"}

Init ==
  /\ helper = "stopped" /\ code = "none" /\ guest = "none" /\ muted = FALSE
  /\ attached = FALSE /\ doomed = FALSE
  /\ kill = "no" /\ killOk = FALSE
  /\ collected = [w \in Stream |-> 0] /\ arrived = 0 /\ overflow = FALSE
  /\ timer = FALSE /\ timedOut = FALSE /\ settled = "no" /\ result = "none yet"
  /\ flow = "attach" /\ outcome = "none yet" /\ closing = "no" /\ killer = "no"

----------------------------------------------------------------------------
(***************************************************************************)
(* spawn(): the helper stops itself before it does anything, is attached   *)
(* to the cgroup, and only then continued.                                 *)
(***************************************************************************)

\* Slip: a failed read-back of cgroup.procs is taken for a success.
GateUnread(member) == TRUE

Gate(member) == member

\* SIGCONT starts the guest; the caller is run() or holds the process.
Continue(member) ==
  /\ Gate(member)
  /\ attached' = member
  /\ helper' = "running" /\ guest' = "running" /\ timer' = TRUE
  /\ flow' \in {"await", "held"}
  /\ UNCHANGED <<code, muted, doomed, killVars, outputVars, timedOut, settled, result,
                 outcome, closing, killer>>

\* attach() failed: the stopped child is killed and spawn() throws.
Attach ==
  /\ flow = "attach"
  /\ \E member \in BOOLEAN :
       \/ Continue(member)
       \/ /\ ~Gate(member)
          /\ helper' = "exited" /\ code' = "signal" /\ flow' = "failed"
          /\ UNCHANGED <<guest, muted, attached, doomed, killVars, outputVars, answerVars,
                         outcome, closing, killer>>

----------------------------------------------------------------------------
(***************************************************************************)
(* doCgroupKill(), shared by the timer, the output cap, kill() and close():*)
(* only the first call kills, the others await it.                         *)
(***************************************************************************)
\* Slip: the guard on a kill already in flight is inverted.
KillInverted == IF kill # "no" THEN "writing" ELSE kill

KillStarted == IF kill = "no" THEN "writing" ELSE kill

\* A write of cgroup.kill that fails may still have reached the kernel.
WriteKill ==
  /\ kill = "writing"
  /\ \E ok \in BOOLEAN : /\ killOk' = ok
                         /\ doomed' \in {TRUE, ok \/ doomed}
  /\ kill' = "draining"
  /\ UNCHANGED <<helper, code, guest, muted, attached, outputVars, answerVars, callerVars>>

\* waitEmpty(2000) is best effort: the cgroup may still be populated.
DrainKill ==
  /\ kill = "draining"
  /\ kill' = "done"
  /\ UNCHANGED <<processVars, killOk, outputVars, answerVars, callerVars>>

----------------------------------------------------------------------------
(***************************************************************************)
(* The collector behind `exited`.                                          *)
(***************************************************************************)
Watching == flow \notin {"attach", "failed"}

Buffered == collected["out"] + collected["err"]

\* Slip: the chunk that crosses the cap is pushed before the cap is looked at.
KeptWhole(w, n) == [collected EXCEPT ![w] = @ + n]

\* Of the chunk that crosses the cap, only what still fits is kept.
Kept(w, n) ==
  [collected EXCEPT ![w] = @ + IF Buffered + n > OutputMax THEN OutputMax - Buffered ELSE n]

\* Slip: the cap is enforced on each stream by itself.
CrossesAlone(w, n) == collected[w] + n > OutputMax

Crosses(w, n) == Buffered + n > OutputMax

\* A chunk of either stream, until the child closes: what the guest wrote
\* before it ended or closed its stdio is still in the pipes.
Data ==
  /\ Watching /\ settled = "no"
  /\ \E w \in Stream, n \in Chunk :
       /\ arrived + n <= ArrivedMax
       /\ arrived' = arrived + n
       /\ IF overflow
          THEN UNCHANGED <<collected, overflow, kill>>
          ELSE /\ collected' = Kept(w, n)
               /\ overflow'  = Crosses(w, n)
               /\ kill'      = IF Crosses(w, n) THEN KillStarted ELSE kill
  /\ UNCHANGED <<processVars, killOk, answerVars, callerVars>>

\* Slip: the timeout is recorded, but nothing is killed.
TimerKillNone == kill

TimerKill == KillStarted

\* The timer does nothing once the cap has been crossed.
Timeout ==
  /\ timer
  /\ timer' = FALSE
  /\ IF overflow
     THEN UNCHANGED <<timedOut, kill>>
     ELSE timedOut' = TRUE /\ kill' = TimerKill
  /\ UNCHANGED <<processVars, killOk, outputVars, settled, result, callerVars>>

\* Slip: the code of the helper is reported even if it was killed.
ExitCodeOfHelper == IF code = "nonzero" THEN "nonzero" ELSE "zero"

\* `timedOut || outputOverflow ? 137 : code ?? 0`: a helper that died of a
\* signal has no code and counts as 0.
ExitCode ==
  IF timedOut \/ overflow THEN "137" ELSE IF code = "nonzero" THEN "nonzero" ELSE "zero"

\* The level of the result: a kill by the timer or the cap that failed is
\* never reported as full.
FinalLevel == IF (timedOut \/ overflow) /\ kill # "no" /\ ~killOk THEN "none" ELSE "full"

\* Slip: the result does not wait for the kill to drain.
AnswersAtOnce == TRUE

AnswersNow == kill = "no"

\* `close` of the child: it has exited and nobody holds its pipes.
ChildClose ==
  /\ Watching /\ settled = "no"
  /\ helper = "exited" /\ (guest = "running" => muted)
  /\ settled' = ExitCode
  /\ timer' = FALSE
  /\ result' = IF AnswersNow THEN FinalLevel ELSE result
  /\ UNCHANGED <<processVars, killVars, outputVars, timedOut, callerVars>>

\* A result that waited for the kill.
Answer ==
  /\ settled # "no" /\ result = "none yet" /\ kill = "done"
  /\ result' = FinalLevel
  /\ UNCHANGED <<processVars, killVars, outputVars, timer, timedOut, settled, callerVars>>

----------------------------------------------------------------------------
(***************************************************************************)
(* kill() and close() of the process, and run().                           *)
(***************************************************************************)

\* `child.exitCode === null` holds of a child that died of a signal, too.
NoExitCode == code \in {"none", "signal"}

\* child.kill('SIGKILL') reaches the helper only, not the guest below it.
KillHelper ==
  /\ helper' = "exited"
  /\ code'   = IF code = "none" THEN "signal" ELSE code
  /\ UNCHANGED <<guest, muted, attached, doomed>>

CallKill ==
  /\ flow = "held" /\ killer = "no"
  /\ killer' = "kill" /\ kill' = KillStarted
  /\ UNCHANGED <<processVars, killOk, outputVars, answerVars, flow, outcome, closing>>

EndKill ==
  /\ killer = "kill" /\ kill = "done"
  /\ killer' = "done"
  /\ IF NoExitCode THEN KillHelper ELSE UNCHANGED processVars
  /\ UNCHANGED <<killVars, outputVars, answerVars, flow, outcome, closing>>

CloseKills == NoExitCode

\* The first close(): run() calls it last, another caller whenever it likes.
CallClose ==
  /\ flow \in {"close", "held"} /\ closing = "no"
  /\ closing' = IF CloseKills THEN "kill" ELSE "await"
  /\ kill'    = IF CloseKills THEN KillStarted ELSE kill
  /\ UNCHANGED <<processVars, killOk, outputVars, answerVars, flow, outcome, killer>>

CloseKillsHelper ==
  /\ closing = "kill" /\ kill = "done"
  /\ closing' = "await"
  /\ KillHelper
  /\ UNCHANGED <<killVars, outputVars, answerVars, flow, outcome, killer>>

EndClose ==
  /\ closing = "await" /\ result # "none yet"
  /\ closing' = "done"
  /\ flow' = IF flow = "close" THEN "done" ELSE flow
  /\ UNCHANGED <<processVars, killVars, outputVars, answerVars, outcome, killer>>

RunAnswered ==
  /\ flow = "await" /\ result # "none yet"
  /\ flow' = "waitEmpty"
  /\ UNCHANGED <<processVars, killVars, outputVars, answerVars, outcome, closing, killer>>

\* Slip: only the helper is looked for in the cgroup.
PopulatedByHelper == helper # "exited"

\* cgroup.events of the session cgroup says `populated 1`.
Populated == attached /\ (helper # "exited" \/ guest = "running")

\* The cgroup does not empty in time: a second cgroup.kill, and run() throws
\* whether or not it is empty then.
CheckEmpty ==
  /\ flow = "waitEmpty"
  /\ flow' = "close"
  /\ \/ ~Populated /\ outcome' = "returned" /\ UNCHANGED doomed
     \/ Populated /\ outcome' = "threw" /\ doomed' \in {TRUE, doomed}
  /\ UNCHANGED <<helper, code, guest, muted, attached, killVars, outputVars, answerVars,
                 closing, killer>>

----------------------------------------------------------------------------
(***************************************************************************)
(* Environment: the guest, the helper and the kernel.                      *)
(***************************************************************************)

\* The guest closes its stdio, or ends by itself.
CloseStdio ==
  /\ guest = "running" /\ ~muted
  /\ muted' = TRUE
  /\ UNCHANGED <<helper, code, guest, attached, doomed, killVars, outputVars, answerVars, callerVars>>

GuestEnds ==
  /\ guest = "running"
  /\ guest' = "gone"
  /\ UNCHANGED <<helper, code, muted, attached, doomed, killVars, outputVars, answerVars, callerVars>>

\* The helper waits for the guest and propagates its code.
HelperEnds ==
  /\ helper = "running" /\ guest = "gone" /\ ~doomed
  /\ helper' = "exited" /\ code' \in {"zero", "nonzero"}
  /\ UNCHANGED <<guest, muted, attached, doomed, killVars, outputVars, answerVars, callerVars>>

\* A pending SIGKILL takes effect on the helper and on the guest.
Die ==
  /\ doomed
  /\ \/ /\ helper = "running"
        /\ helper' = "exited" /\ code' = "signal"
        /\ UNCHANGED guest
     \/ /\ guest = "running"
        /\ guest' = "gone"
        /\ UNCHANGED <<helper, code>>
  /\ UNCHANGED <<muted, attached, doomed, killVars, outputVars, answerVars, callerVars>>

Program ==
  \/ Attach \/ WriteKill \/ DrainKill \/ Timeout \/ ChildClose \/ Answer
  \/ EndKill \/ CloseKillsHelper \/ EndClose \/ RunAnswered \/ CheckEmpty

Environment == Data \/ CallKill \/ CallClose \/ CloseStdio \/ GuestEnds

Next == Program \/ Environment \/ HelperEnds \/ Die

\* The event loop serves every pending event, run() closes what it spawned,
\* the helper propagates, the kernel delivers; guest and caller owe nothing.
Fairness ==
  /\ WF_vars(WriteKill) /\ WF_vars(DrainKill) /\ WF_vars(Timeout)
  /\ WF_vars(ChildClose) /\ WF_vars(Answer)
  /\ WF_vars(Attach \/ RunAnswered \/ CheckEmpty \/ (flow = "close" /\ CallClose))
  /\ WF_vars(CloseKillsHelper) /\ WF_vars(EndClose)
  /\ WF_vars(HelperEnds) /\ WF_vars(Die)

Spec == Init /\ [][Next]_vars /\ Fairness

----------------------------------------------------------------------------
(***************************************************************************)
(* Correctness.                                                            *)
(***************************************************************************)

\* The output is what arrived, cut at the cap: nothing is lost below it and
\* nothing is kept beyond it, however the streams and the chunks mix.
CapExact == Buffered = IF overflow THEN OutputMax ELSE arrived

\* A guest that was killed for its time or its output is answered for only
\* after that kill has ended, as full only if the kill was written, and
\* never with exit code 0.
KillAnswered ==
  result # "none yet" /\ (timedOut \/ overflow) =>
    kill = "done" /\ (result = "full" => killOk) /\ settled = "137"

\* No process runs before it is confined, and when run() returns a result,
\* no process of the session is left.
RunLeavesNothing ==
  /\ guest = "running" => attached
  /\ outcome = "returned" => guest = "gone" /\ helper = "exited"

\* The kill has ended without effect: cgroup.kill could not be written.
Unkillable == kill = "done" /\ ~killOk /\ guest = "running"

\* A one-shot execution whose time is up ends, unless the guest turns out to
\* be unkillable.
TimeoutEnds == timedOut /\ flow = "await" ~> flow = "done" \/ Unkillable

\* close() of a persistent process, or of run(), comes back with the same
\* exception, also when kill(), the timer or the cap came first.
CloseReturns == closing # "no" ~> closing = "done" \/ Unkillable
=============================================================================
