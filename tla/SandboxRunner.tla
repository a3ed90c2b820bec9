--------------------------- MODULE SandboxRunner ---------------------------
(***************************************************************************)
(* The trusted orchestrator of packages/core/src/sandbox-runner.ts: every  *)
(* skill execution is one session, started by run() (one shot) or by       *)
(* spawn() (persistent, ended by close()).  A session prepares a backend   *)
(* object, launches an egress proxy, verifies the skill snapshot, starts   *)
(* the guest, and tears everything down again in a pinned order before it  *)
(* reports an isolation level.                                             *)
(*                                                                         *)
(* A step of a session is the code between two awaits, so two sessions     *)
(* interleave where the event loop lets them.  The longer calls into the   *)
(* backend object (prepare, spawn, a teardown) are one step each, with the *)
(* effect docker-backend.ts and os-backend.ts give them; the guest is      *)
(* environment.                                                            *)
(***************************************************************************)
EXTENDS Naturals, Sequences

CONSTANTS
  Run,        \* sessions started by SandboxRunner.run()
  Spawn,      \* sessions started by SandboxRunner.spawn()
  Object,     \* the backend objects of the runner
  kindOf,     \* what each object is: "docker" or "os" (Linux, full)
  NoSession,  \* an object's `opts` before prepare()
  NoObject    \* a session's backend before selectBackend()

Session == Run \cup Spawn

ASSUME SessionsAssumption == Run \cap Spawn = {} /\ NoSession \notin Session
ASSUME ObjectsAssumption ==
  kindOf \in [Object -> {"docker", "os"}] /\ NoObject \notin Object

VARIABLES
  pc,         \* the await each session is at
  objectOf,   \* the object selectBackend() returned to the session
  verified,   \* verifySnapshot() returned true
  dir,        \* the mkdtemp session directory
  proxy,      \* the egress proxy handle
  result,     \* what backend.run() / proc.exited gave the runner
  caught,     \* the local `containment` of run() and doClose()
  soft,       \* the local `soft` list is not empty
  output,     \* the SandboxRunOutput, or resultMeta of a spawned session
  emitted,    \* phases of the sandbox.completed events of the session
  carrier,    \* object: topology coordinates are cached
  opts,       \* object: session whose prepare() wrote `opts`
  held,       \* object: session whose cgroup it holds (os)
  outcome,    \* object: memoized cleanup outcome
  net,        \* world: networks (docker) or namespace (os) of the object exist
  guest,      \* world: the guest process of each session
  under,      \* world: session whose options the guest was started with
  killing     \* world: the timeout or output-cap kill of the guest

setupVars  == <<objectOf, verified, dir, proxy>>
endVars    == <<result, caught, soft>>
reportVars == <<output, emitted>>
objectVars == <<carrier, opts, held, outcome>>
worldVars  == <<net, guest, under, killing>>
vars == <<pc, setupVars, endVars, reportVars, objectVars, worldVars>>

SettingUp == {"new", "select", "topology", "create", "openDir", "launch", "verify", "prepare", "exec"}
Executing == {"wait", "open", "procClose"}
Closing   == {"cleanup", "teardown", "closeProxy", "removeDir", "report"}
Aborting  == {"abortCleanup", "abortTeardown", "abortProxy", "abortDir"}
Label     == SettingUp \cup Executing \cup Closing \cup Aborting \cup {"done"}

Level    == {"full", "none", "unset"}
Output   == [level : Level, meta : Level, degraded : BOOLEAN, success : BOOLEAN]
Claim(l) == [level |-> l, meta |-> l, degraded |-> FALSE, success |-> FALSE]

SetupTypes ==
  /\ objectOf \in [Session -> Object \cup {NoObject}]
  /\ verified \in [Session -> BOOLEAN]
  /\ dir      \in [Session -> {"none", "made", "removed", "left"}]
  /\ proxy    \in [Session -> {"none", "up", "closed"}]
EndTypes ==
  /\ result   \in [Session -> {"none", "ok", "nonzero", "lost", "threw"}]
  /\ caught   \in [Session -> BOOLEAN]
  /\ soft     \in [Session -> BOOLEAN]
ReportTypes ==
  /\ output   \in [Session -> Output]
  /\ emitted  \in [Session -> Seq({"created", "final"})]
ObjectTypes ==
  /\ carrier  \in [Object -> BOOLEAN]
  /\ opts     \in [Object -> Session \cup {NoSession}]
  /\ held     \in [Object -> Session \cup {NoSession}]
  /\ outcome  \in [Object -> {"unset", "running", "ok", "error"}]
WorldTypes ==
  /\ net      \in [Object -> BOOLEAN]
  /\ guest    \in [Session -> {"none", "running", "gone"}]
  /\ under    \in [Session -> Session \cup {NoSession}]
  /\ killing  \in [Session -> {"no", "done", "failed"}]
TypeOK ==
  /\ pc \in [Session -> Label]
  /\ SetupTypes /\ EndTypes /\ ReportTypes /\ ObjectTypes /\ WorldTypes

Init ==
  /\ pc       = [s \in Session |-> "new"]
  /\ objectOf = [s \in Session |-> NoObject]
  /\ verified = [s \in Session |-> FALSE]
  /\ dir      = [s \in Session |-> "none"]
  /\ proxy    = [s \in Session |-> "none"]
  /\ result   = [s \in Session |-> "none"]
  /\ caught   = [s \in Session |-> FALSE]
  /\ soft     = [s \in Session |-> FALSE]
  /\ output   = [s \in Session |-> Claim("unset")]
  /\ emitted  = [s \in Session |-> <<>>]
  /\ carrier  = [o \in Object |-> FALSE]
  /\ opts     = [o \in Object |-> NoSession]
  /\ held     = [o \in Object |-> NoSession]
  /\ outcome  = [o \in Object |-> "unset"]
  /\ net      = [o \in Object |-> FALSE]
  /\ guest    = [s \in Session |-> "none"]
  /\ under    = [s \in Session |-> NoSession]
  /\ killing  = [s \in Session |-> "no"]

Goto(s, l) == pc' = [pc EXCEPT ![s] = l]

----------------------------------------------------------------------------
(***************************************************************************)
(* Backend teardown.                                                       *)
(***************************************************************************)

\* The guests one teardown of object o can stop: docker removes the one
\* container name of the object, os kills the cgroup it holds.
Reach(o) ==
  {g \in Session : /\ objectOf[g] = o
                   /\ guest[g] = "running"
                   /\ kindOf[o] = "os" => under[g] = held[o]}

\* One teardown of object o: whether the guests in reach died, whether a
\* containment reason was recorded, whether the network is left behind.
\* docker: `rm -f` records a reason only when the CLI could not be run or
\* timed out; a non-zero exit is dropped.  os: kill and waitEmpty record
\* every failure; a failed namespace deletion is not recorded, and without
\* a namespace handle nothing is deleted.
Teardown(o) ==
  {t \in [died : BOOLEAN, threw : BOOLEAN, netLeft : BOOLEAN] :
     /\ t.netLeft => net[o]
     /\ \/ kindOf[o] = "docker"
        \/ /\ t.died \/ t.threw
           /\ held[o] # NoSession \/ ~t.threw
           /\ carrier[o] \/ t.netLeft = net[o]}

ApplyTeardown(o, t) ==
  /\ guest' = [g \in Session |-> IF t.died /\ g \in Reach(o) THEN "gone" ELSE guest[g]]
  /\ net'   = [net EXCEPT ![o] = t.netLeft]

\* Only the os backend forgets its topology and options when torn down.
ForgetState(o) ==
  IF kindOf[o] = "os"
  THEN /\ carrier' = [carrier EXCEPT ![o] = FALSE]
       /\ opts'    = [opts EXCEPT ![o] = NoSession]
       /\ held'    = [held EXCEPT ![o] = NoSession]
  ELSE UNCHANGED <<carrier, opts, held>>

----------------------------------------------------------------------------
(***************************************************************************)
(* prepareSession(): from the installation identity to backend.prepare().  *)
(* A failure before a backend is selected refuses the session at once; a   *)
(* later one goes through the reverse-order teardown.                      *)
(***************************************************************************)

\* Refused with no backend: the error output of run() claims no isolation.
Refuse(s) ==
  /\ Goto(s, "done")
  /\ output' = IF s \in Run
               THEN [output EXCEPT ![s] = Claim("none")]
               ELSE output

\* Identity, snapshot build, descriptor, policy and runtime profile.
BuildSnapshot(s) ==
  /\ pc[s] = "new"
  /\ \/ Goto(s, "select") /\ UNCHANGED output
     \/ Refuse(s)
  /\ UNCHANGED <<setupVars, endVars, emitted, objectVars, worldVars>>

\* selectBackend() returns the strongest object whose probe passes, or none;
\* the runtime profile is checked against it.
SelectBackend(s) ==
  /\ pc[s] = "select"
  /\ \/ Refuse(s) /\ UNCHANGED objectOf
     \/ /\ \E o \in Object : objectOf' = [objectOf EXCEPT ![s] = o]
        /\ \E l \in {"topology", "abortCleanup"} : Goto(s, l)
        /\ UNCHANGED output
  /\ UNCHANGED <<verified, dir, proxy, endVars, emitted, objectVars, worldVars>>

\* A cached carrier is returned without a look at the network.
BeginTopology(s) ==
  /\ pc[s] = "topology"
  /\ Goto(s, IF carrier[objectOf[s]] THEN "openDir" ELSE "create")
  /\ UNCHANGED <<setupVars, endVars, reportVars, objectVars, worldVars>>

\* The network names are fixed per object: a second creation is refused.
CreateTopology(s) ==
  LET o == objectOf[s] IN
  /\ pc[s] = "create"
  /\ ~net[o]
  /\ carrier' = [carrier EXCEPT ![o] = TRUE]
  /\ net'     = [net EXCEPT ![o] = TRUE]
  /\ Goto(s, "openDir")
  /\ UNCHANGED <<setupVars, endVars, reportVars, opts, held, outcome, guest, under, killing>>

\* docker calls its own cleanup(), which the abort path then repeats: one
\* teardown, taken there.  os deletes the namespace by name, best effort.
TopologyFails(s) ==
  /\ pc[s] = "create"
  /\ IF kindOf[objectOf[s]] = "os"
     THEN \E left \in BOOLEAN : net' = [net EXCEPT ![objectOf[s]] = left]
     ELSE UNCHANGED net
  /\ Goto(s, "abortCleanup")
  /\ UNCHANGED <<setupVars, endVars, reportVars, objectVars, guest, under, killing>>

\* provisionSecrets() and the mkdtemp session directory.
OpenDir(s) ==
  /\ pc[s] = "openDir"
  /\ \/ Goto(s, "launch") /\ dir' = [dir EXCEPT ![s] = "made"]
     \/ Goto(s, "abortCleanup") /\ UNCHANGED dir
  /\ UNCHANGED <<objectOf, verified, proxy, endVars, reportVars, objectVars, worldVars>>

\* The linux-static carrier names one port, so only one proxy can bind it.
PortTaken(o) ==
  kindOf[o] = "os" /\ \E t \in Session : objectOf[t] = o /\ proxy[t] = "up"

\* A failed launch leaves no proxy: the launcher cleans up after itself.
LaunchProxy(s) ==
  LET o == objectOf[s] IN
  /\ pc[s] = "launch"
  /\ \/ /\ net[o] /\ ~PortTaken(o)
        /\ proxy' = [proxy EXCEPT ![s] = "up"]
        /\ Goto(s, "verify")
     \/ Goto(s, "abortCleanup") /\ UNCHANGED proxy
  /\ UNCHANGED <<objectOf, verified, dir, endVars, reportVars, objectVars, worldVars>>

\* Slip: the answer of verifySnapshot() is not looked at.
AfterVerifyUnread(ok) == "prepare"

AfterVerify(ok) == IF ok THEN "prepare" ELSE "abortCleanup"

\* The stored snapshot may have been altered since it was built.
VerifySnapshot(s) ==
  /\ pc[s] = "verify"
  /\ \E ok \in BOOLEAN : /\ verified' = [verified EXCEPT ![s] = ok]
                         /\ Goto(s, AfterVerify(ok))
  /\ UNCHANGED <<objectOf, dir, proxy, endVars, reportVars, objectVars, worldVars>>

\* backend.prepare() writes the one `opts` of the object; os first creates a
\* cgroup of a name of its own and lets go of the one it held.
Prepare(s) ==
  LET o == objectOf[s] IN
  /\ pc[s] = "prepare"
  /\ carrier[o]
  /\ opts' = [opts EXCEPT ![o] = s]
  /\ held' = IF kindOf[o] = "os" THEN [held EXCEPT ![o] = s] ELSE held
  /\ Goto(s, "exec")
  /\ UNCHANGED <<setupVars, endVars, reportVars, carrier, outcome, worldVars>>

\* A validation error changes nothing; once os has begun to assemble, it
\* tears down with reasons that cleanup() will not repeat.
PrepareFails(s) ==
  LET o == objectOf[s] IN
  /\ pc[s] = "prepare"
  /\ \/ UNCHANGED <<carrier, opts, held, guest, net>>
     \/ /\ kindOf[o] = "os" /\ carrier[o]
        /\ \E t \in Teardown(o) : ApplyTeardown(o, t)
        /\ ForgetState(o)
  /\ Goto(s, "abortCleanup")
  /\ UNCHANGED <<setupVars, endVars, reportVars, outcome, under, killing>>

----------------------------------------------------------------------------
(***************************************************************************)
(* The guest: backend.run() and backend.spawn().                           *)
(***************************************************************************)

\* buildGuestEnv() or rewriteCommand() rejects the input, or the backend
\* throws before a guest runs.  run() still takes the pinned teardown.
RejectExec(s) ==
  /\ pc[s] = "exec"
  /\ result' = IF s \in Run THEN [result EXCEPT ![s] = "threw"] ELSE result
  /\ Goto(s, IF s \in Run THEN "cleanup" ELSE "abortCleanup")
  /\ UNCHANGED <<setupVars, caught, soft, reportVars, objectVars, worldVars>>

\* Every object has one container name: docker refuses a second container.
NameTaken(o) ==
  kindOf[o] = "docker" /\ \E g \in Session : objectOf[g] = o /\ guest[g] = "running"

\* The guest runs under the options of the object's last prepare().
StartGuest(s) ==
  LET o == objectOf[s] IN
  /\ pc[s] = "exec"
  /\ opts[o] # NoSession /\ carrier[o]
  /\ guest' = [guest EXCEPT ![s] = IF NameTaken(o) THEN "gone" ELSE "running"]
  /\ under' = [under EXCEPT ![s] = IF NameTaken(o) THEN NoSession ELSE opts[o]]
  /\ Goto(s, IF s \in Run THEN "wait" ELSE "open")
  /\ emitted' = IF s \in Run THEN emitted ELSE [emitted EXCEPT ![s] = Append(@, "created")]
  /\ UNCHANGED <<setupVars, endVars, output, objectVars, net, killing>>

\* Environment: the guest ends by itself.
GuestExits(s) ==
  /\ guest[s] = "running"
  /\ guest' = [guest EXCEPT ![s] = "gone"]
  /\ UNCHANGED <<pc, setupVars, endVars, reportVars, objectVars, net, under, killing>>

\* The timeout or the output cap kills the guest, once.  docker drops the
\* error of a failed kill, os remembers it.
KillGuest(s) ==
  /\ pc[s] \in Executing
  /\ guest[s] = "running" /\ killing[s] = "no"
  /\ \E k \in {"done", "failed"}, g \in {"running", "gone"} :
       /\ kindOf[objectOf[s]] = "docker" => k = "done"
       /\ killing' = [killing EXCEPT ![s] = k]
       /\ guest'   = [guest EXCEPT ![s] = g]
  /\ UNCHANGED <<pc, setupVars, endVars, reportVars, objectVars, net, under>>

\* Slip: docker kills the container but not its own CLI child.
SettledByGuest(s) == guest[s] = "gone"

\* docker's kill also ends its own CLI child, so `exited` settles whether or
\* not the container is gone; otherwise it settles when the guest is.
Settled(s) == guest[s] = "gone" \/ (kindOf[objectOf[s]] = "docker" /\ killing[s] = "done")

\* Slip: a killed guest keeps its own exit code.
ResultsOwnCode(s) ==
  {r \in {"ok", "nonzero", "lost"} : /\ r = "lost" <=> killing[s] = "failed"
                                     /\ r = "ok"   => under[s] # NoSession}

\* A killed or never started guest does not exit with 0.
Results(s) ==
  {r \in {"ok", "nonzero", "lost"} : /\ r = "lost" <=> killing[s] = "failed"
                                     /\ r = "ok"   => killing[s] = "no" /\ under[s] # NoSession}

RunReturns(s) ==
  /\ pc[s] = "wait" /\ Settled(s)
  /\ \E r \in Results(s) : result' = [result EXCEPT ![s] = r]
  /\ Goto(s, "cleanup")
  /\ UNCHANGED <<setupVars, caught, soft, reportVars, objectVars, worldVars>>

\* os: the child closed, but processes of the guest are left.  The cgroup
\* the object holds is killed and the run fails; once another session's
\* teardown has let go of it, nobody looks.
RunLeavesStrays(s) ==
  /\ pc[s] = "wait"
  /\ kindOf[objectOf[s]] = "os" /\ guest[s] = "running"
  /\ \/ /\ s \in Reach(objectOf[s])
        /\ \E g \in {"running", "gone"} : guest' = [guest EXCEPT ![s] = g]
        /\ result' = [result EXCEPT ![s] = "threw"]
     \/ /\ s \notin Reach(objectOf[s])
        /\ \E r \in Results(s) : result' = [result EXCEPT ![s] = r]
        /\ UNCHANGED guest
  /\ Goto(s, "cleanup")
  /\ UNCHANGED <<setupVars, caught, soft, reportVars, objectVars, net, under, killing>>

----------------------------------------------------------------------------
(***************************************************************************)
(* Teardown of a session.  run() and doClose() collect what fails, the     *)
(* abort path drops it.                                                    *)
(***************************************************************************)

\* The first close() of a spawned session; the caller decides when.
Close(s) ==
  /\ pc[s] = "open"
  /\ Goto(s, "procClose")
  /\ UNCHANGED <<setupVars, endVars, reportVars, objectVars, worldVars>>

\* proc.close() stops the child and awaits `exited`; a failed stop is not
\* an error there.  Only a kill by timeout or cap makes the meta "lost".
CloseProcess(s) ==
  /\ pc[s] = "procClose"
  /\ \E g \in {"running", "gone"} :
       /\ g = "running" => guest[s] = "running"
       /\ kindOf[objectOf[s]] = "docker" /\ g = "running" => killing[s] = "done"
       /\ guest' = [guest EXCEPT ![s] = g]
  /\ result' = [result EXCEPT ![s] = IF killing[s] = "failed" THEN "lost" ELSE "ok"]
  /\ Goto(s, "cleanup")
  /\ UNCHANGED <<setupVars, caught, soft, reportVars, objectVars, net, under, killing>>

\* backend.cleanup(): only the first call on an object tears down.
BeginCleanup(s) ==
  /\ pc[s] \in {"cleanup", "abortCleanup"}
  /\ outcome[objectOf[s]] = "unset"
  /\ outcome' = [outcome EXCEPT ![objectOf[s]] = "running"]
  /\ Goto(s, IF pc[s] = "cleanup" THEN "teardown" ELSE "abortTeardown")
  /\ UNCHANGED <<setupVars, endVars, reportVars, carrier, opts, held, worldVars>>

EndCleanup(s) ==
  LET o == objectOf[s] IN
  /\ pc[s] \in {"teardown", "abortTeardown"}
  /\ \E t \in Teardown(o) :
       /\ ApplyTeardown(o, t)
       /\ outcome' = [outcome EXCEPT ![o] = IF t.threw THEN "error" ELSE "ok"]
       /\ caught'  = [caught EXCEPT ![s] = pc[s] = "teardown" /\ t.threw]
  /\ ForgetState(o)
  /\ Goto(s, IF pc[s] = "teardown" THEN "closeProxy" ELSE "abortProxy")
  /\ UNCHANGED <<setupVars, result, soft, reportVars, under, killing>>

\* A later call repeats the memoized outcome; while the first one is still
\* tearing down there is none, and the call resolves.
RepeatCleanup(s) ==
  /\ pc[s] \in {"cleanup", "abortCleanup"}
  /\ outcome[objectOf[s]] # "unset"
  /\ caught' = [caught EXCEPT ![s] = pc[s] = "cleanup" /\ outcome[objectOf[s]] = "error"]
  /\ Goto(s, IF pc[s] = "cleanup" THEN "closeProxy" ELSE "abortProxy")
  /\ UNCHANGED <<setupVars, result, soft, reportVars, objectVars, worldVars>>

\* Slip: the proxy is closed without waiting for backend.cleanup().
CloseProxyEarly(s) ==
  /\ pc[s] \in {"cleanup", "closeProxy", "abortProxy"}
  /\ proxy' = [proxy EXCEPT ![s] = IF @ = "up" THEN "closed" ELSE @]
  /\ Goto(s, IF pc[s] = "abortProxy" THEN "abortDir" ELSE "removeDir")
  /\ UNCHANGED <<objectOf, verified, dir, endVars, reportVars, objectVars, worldVars>>

\* The launcher's close() swallows its own failures.
CloseProxy(s) ==
  /\ pc[s] \in {"closeProxy", "abortProxy"}
  /\ proxy' = [proxy EXCEPT ![s] = IF @ = "up" THEN "closed" ELSE @]
  /\ Goto(s, IF pc[s] = "closeProxy" THEN "removeDir" ELSE "abortDir")
  /\ UNCHANGED <<objectOf, verified, dir, endVars, reportVars, objectVars, worldVars>>

\* Slip: the failure is dropped.
SoftDropped(s, d) == soft

SoftAfter(s, d) == [soft EXCEPT ![s] = d = "left"]

RemoveDir(s) ==
  /\ pc[s] = "removeDir"
  /\ \E d \in {"removed", "left"} : /\ dir'  = [dir EXCEPT ![s] = d]
                                    /\ soft' = SoftAfter(s, d)
  /\ Goto(s, "report")
  /\ UNCHANGED <<objectOf, verified, proxy, result, caught, reportVars, objectVars, worldVars>>

\* Slip: the meta of the result is reported whatever cleanup() threw.
RunOutputVerbatim(s) ==
  [level    |-> IF caught[s] THEN "none" ELSE "full",
   meta     |-> IF result[s] = "lost" THEN "none" ELSE "full",
   degraded |-> caught[s] \/ soft[s] \/ result[s] = "lost",
   success  |-> ~caught[s] /\ result[s] = "ok"]

\* toRunOutput() and toErrorOutput(): what run() resolves with.
RunOutput(s) ==
  [level    |-> IF caught[s] THEN "none" ELSE "full",
   meta     |-> IF caught[s] \/ result[s] = "lost" THEN "none" ELSE "full",
   degraded |-> caught[s] \/ soft[s] \/ result[s] = "lost",
   success  |-> ~caught[s] /\ result[s] = "ok"]

\* Slip: a soft reason hides the containment failure.
SessionMetaSoftFirst(s) ==
  [level    |-> "full",
   meta     |-> IF result[s] = "lost" \/ (caught[s] /\ ~soft[s]) THEN "none" ELSE "full",
   degraded |-> caught[s] \/ soft[s] \/ result[s] = "lost",
   success  |-> ~caught[s]]

\* doClose(): resultMeta and the success flag of the final event; the level
\* of the session object was fixed when spawn() returned.
SessionMeta(s) ==
  [level    |-> "full",
   meta     |-> IF caught[s] \/ result[s] = "lost" THEN "none" ELSE "full",
   degraded |-> caught[s] \/ soft[s] \/ result[s] = "lost",
   success  |-> ~caught[s]]

\* Slip: the containment error is thrown before the event is emitted.
FinalUnlessCaught(s) == IF caught[s] THEN emitted ELSE [emitted EXCEPT ![s] = Append(@, "final")]

\* Slip: a phase the aggregator of the events does not know.
FinalClosed(s) == [emitted EXCEPT ![s] = Append(@, "closed")]

FinalEvent(s) == [emitted EXCEPT ![s] = Append(@, "final")]

Report(s) ==
  /\ pc[s] = "report"
  /\ output'  = [output EXCEPT ![s] = IF s \in Run THEN RunOutput(s) ELSE SessionMeta(s)]
  /\ emitted' = FinalEvent(s)
  /\ Goto(s, "done")
  /\ UNCHANGED <<setupVars, endVars, objectVars, worldVars>>

\* The aborted run() claims the level of its backend; spawn() throws.
AbortDir(s) ==
  /\ pc[s] = "abortDir"
  /\ \E d \in {"removed", "left"} :
       dir' = [dir EXCEPT ![s] = IF @ = "made" THEN d ELSE @]
  /\ output' = IF s \in Run
               THEN [output EXCEPT ![s] = Claim("full")]
               ELSE output
  /\ Goto(s, "done")
  /\ UNCHANGED <<objectOf, verified, proxy, endVars, emitted, objectVars, worldVars>>

----------------------------------------------------------------------------
Setup(s) ==
  \/ BuildSnapshot(s) \/ SelectBackend(s) \/ BeginTopology(s) \/ CreateTopology(s)
  \/ TopologyFails(s) \/ OpenDir(s) \/ LaunchProxy(s) \/ VerifySnapshot(s)
  \/ Prepare(s) \/ PrepareFails(s) \/ RejectExec(s) \/ StartGuest(s)

Finish(s) ==
  \/ RunReturns(s) \/ CloseProcess(s) \/ BeginCleanup(s) \/ EndCleanup(s)
  \/ RepeatCleanup(s) \/ CloseProxy(s) \/ RemoveDir(s) \/ Report(s) \/ AbortDir(s)

Step(s) == Setup(s) \/ Finish(s) \/ KillGuest(s)
Environment(s) == GuestExits(s) \/ RunLeavesStrays(s) \/ Close(s)

Next == \E s \in Session : Step(s) \/ Environment(s)

\* Every await of the orchestrator is bounded by the event loop, a CLI
\* timeout or the session timer; the caller and the guest owe nothing.
Fairness == \A s \in Session : WF_vars(Setup(s) \/ Finish(s)) /\ WF_vars(KillGuest(s))

Spec == Init /\ [][Next]_vars /\ Fairness

----------------------------------------------------------------------------
(***************************************************************************)
(* Correctness.                                                            *)
(***************************************************************************)

\* The session's backend object serves this session only, as the factory
\* intends ("each runner owns its topology").  The gateway builds one runner
\* for all requests, so the code itself does not guarantee it.
Owned(s) == objectOf[s] # NoObject /\ \A t \in Session \ {s} : objectOf[t] # objectOf[s]

\* Owned, on the backend that records every failed kill.
Enforced(s) == Owned(s) /\ kindOf[objectOf[s]] = "os"

\* A guest that outlives its session is never reported as isolated: every
\* failed kill on the way (timeout, stray, close, cleanup) must reach the
\* final meta.
ContainmentHonest ==
  \A s \in Session :
    Enforced(s) /\ pc[s] = "done" /\ guest[s] = "running" => output[s].meta = "none"

\* Until its backend is torn down, a guest runs on a snapshot that was
\* verified, under the options of its own session, with its network made
\* and its proxy up.
GuestConfined ==
  \A s \in Session :
    Owned(s) /\ guest[s] = "running" /\ outcome[objectOf[s]] = "unset"
      => verified[s] /\ under[s] = s /\ net[objectOf[s]] /\ proxy[s] = "up"

\* The pinned order: the proxy is closed only after the backend's teardown
\* has ended, so no guest runs on without the filter it was given.
TeardownBeforeProxy ==
  \A s \in Session :
    Owned(s) /\ proxy[s] = "closed" => outcome[objectOf[s]] \in {"ok", "error"}

\* A report that is not degraded leaves nothing behind: no guest, no proxy,
\* no session directory.
CleanReport ==
  \A s \in Session :
    Enforced(s) /\ pc[s] = "done" /\ guest[s] # "none" /\ ~output[s].degraded
      => guest[s] = "gone" /\ proxy[s] = "closed" /\ dir[s] = "removed"

\* run() reports success only for a guest that started under its own
\* options and ended by itself, on either backend.
SuccessEarned ==
  \A s \in Run :
    Owned(s) /\ output[s].success => guest[s] = "gone" /\ killing[s] = "no" /\ under[s] = s

\* Whoever shares the backend: a session that ended has emitted one final
\* event if it executed and none if it was refused, after its created event
\* if it was spawned, and no proxy or session directory is still in use.
EndsInOrder ==
  \A s \in Session :
    LET full == IF s \in Run THEN <<"final">> ELSE <<"created", "final">> IN
    /\ pc[s] = "done" => /\ emitted[s] \in {<<>>, full}
                         /\ proxy[s] # "up" /\ dir[s] # "made"
    /\ pc[s] # "done" => emitted[s] # full
    /\ pc[s] = "done" /\ guest[s] # "none" => emitted[s] = full

\* A one-shot execution on docker ends, whatever the guest does and whoever
\* shares the object; on os it can wait for ever on a guest that cannot be
\* killed.
RunSettles ==
  \A s \in Run :
    pc[s] = "new" ~> \/ pc[s] = "done"
                     \/ guest[s] = "running" /\ kindOf[objectOf[s]] = "os"

\* A guest of docker, too, should not outlive its session under a report of
\* full isolation.  It can: `docker rm -f` that exits non-zero is dropped.
NoSilentSurvivor ==
  \A s \in Session :
    Owned(s) /\ pc[s] = "done" /\ guest[s] = "running" => output[s].meta = "none"

\* The topology exists whenever a proxy is about to be launched into it.
\* It does not for the next session of a runner: docker keeps the carrier
\* after cleanup() has removed the networks.
LaunchHasTopology ==
  \A s \in Session : pc[s] = "launch" => net[objectOf[s]]

\* The runner implements the promise: every step is a step of the promise
\* about the guest, its report and who shares its backend, or none.
Promise == INSTANCE IsolationPromise WITH
  stage <- [s \in Session |->
              IF pc[s] = "done" THEN IF guest[s] = "none" THEN "refused" ELSE "over"
                                ELSE IF guest[s] = "none" THEN "idle" ELSE "active"],
  alive <- [s \in Session |-> guest[s] = "running"],
  claim <- [s \in Session |-> output[s].meta],
  sole  <- {s \in Session : Enforced(s)}

IsolationPromised == Promise!Spec

----------------------------------------------------------------------------
(***************************************************************************)
(* The inductive invariant behind the Owned and Enforced properties.       *)
(***************************************************************************)

\* A session past selectBackend() has its object, and its guest exists only
\* between StartGuest and the end.
Phases ==
  \A s \in Session :
    /\ pc[s] \in {"new", "select"} => objectOf[s] = NoObject /\ proxy[s] = "none"
    /\ pc[s] \notin {"new", "select", "done"} => objectOf[s] # NoObject
    /\ guest[s] # "none" => /\ objectOf[s] # NoObject
                            /\ pc[s] \in Executing \cup Closing \cup {"done"}

\* An object no session has selected is as it was constructed.
Untouched ==
  \A o \in Object :
    (\A s \in Session : objectOf[s] # o) =>
      /\ outcome[o] = "unset" /\ ~carrier[o] /\ ~net[o]
      /\ opts[o] = NoSession /\ held[o] = NoSession

\* Where the object of a lone session stands while the session goes on.
ObjectPhase(s) ==
  LET o == objectOf[s] IN
  /\ pc[s] \in SettingUp \cup Executing \cup {"cleanup", "abortCleanup"} => outcome[o] = "unset"
  /\ pc[s] \in {"closeProxy", "abortProxy"} => outcome[o] \in {"ok", "error"}
  /\ proxy[s] = "closed" => outcome[o] \in {"ok", "error"}
  /\ pc[s] \in {"topology", "create"} => ~carrier[o]
  /\ opts[o] \in {s, NoSession} /\ held[o] \in {s, NoSession}
  /\ pc[s] = "exec" => opts[o] = s /\ (kindOf[o] = "os" => held[o] = s)

\* What a lone session has in place before and while its guest runs.
ConfinePhase(s) ==
  LET o == objectOf[s] IN
  /\ pc[s] \in {"openDir", "launch", "verify", "prepare", "exec"} => net[o]
  /\ pc[s] \in {"verify", "prepare", "exec"} => proxy[s] = "up"
  /\ pc[s] \in {"prepare", "exec"} => verified[s]
  /\ guest[s] = "running" => under[s] = s
  /\ guest[s] = "running" /\ outcome[o] = "unset" => verified[s] /\ net[o] /\ proxy[s] = "up"

\* A lone os guest that still runs is in the cgroup its object holds; once
\* the teardown has let go of it, the session has caught the failure.
ContainPhase(s) ==
  LET o == objectOf[s] IN
  kindOf[o] = "os" /\ guest[s] = "running" =>
    /\ pc[s] \in Executing \cup {"cleanup", "teardown"} => held[o] = s
    /\ pc[s] \in {"closeProxy", "removeDir", "report"} => caught[s]
    /\ pc[s] = "done" => output[s].meta = "none"

Inductive ==
  /\ TypeOK /\ Phases /\ Untouched
  /\ \A s \in Session : Owned(s) => ObjectPhase(s) /\ ConfinePhase(s) /\ ContainPhase(s)

(***************************************************************************)
(* The course of a session, whoever shares its backend object.             *)
(***************************************************************************)

\* What a session that executes has emitted when it begins and when it ends.
Opened(s) == IF s \in Run THEN <<>> ELSE <<"created">>
Full(s)   == IF s \in Run THEN <<"final">> ELSE <<"created", "final">>

Events(s) ==
  /\ pc[s] \in SettingUp \cup Aborting => emitted[s] = <<>>
  /\ pc[s] \in Executing \cup Closing  => emitted[s] = Opened(s)
  /\ pc[s] = "done" => emitted[s] \in {<<>>, Full(s)}
  /\ pc[s] = "done" /\ guest[s] # "none" => emitted[s] = Full(s)

\* Its guest, its session directory and its proxy.
Places(s) ==
  /\ pc[s] \in SettingUp \cup Aborting => guest[s] = "none"
  /\ pc[s] \in Executing => guest[s] # "none"
  /\ pc[s] = "wait" => s \in Run
  /\ pc[s] \in {"open", "procClose"} => s \notin Run
  /\ pc[s] \in {"new", "select", "topology", "create", "openDir"} => dir[s] = "none"
  /\ pc[s] \in {"new", "select", "topology", "create", "openDir", "launch"} => proxy[s] = "none"
  /\ pc[s] \in {"verify", "prepare", "exec", "cleanup", "teardown", "closeProxy"} \cup Executing
       => proxy[s] = "up"
  /\ pc[s] \in {"removeDir", "report"} => proxy[s] = "closed"
  /\ pc[s] \in {"abortDir", "done"} => proxy[s] # "up"
  /\ pc[s] = "report" => dir[s] = IF soft[s] THEN "left" ELSE "removed"
  /\ pc[s] = "done" => dir[s] # "made"

\* What its end and its report rest on.
Ends(s) ==
  /\ pc[s] \in SettingUp \cup Executing => result[s] = "none"
  /\ s \in Run /\ result[s] = "ok" => killing[s] = "no" /\ under[s] # NoSession
  /\ s \in Run /\ output[s].success => result[s] = "ok"
  /\ pc[s] # "done" => output[s] = Claim("unset")
  /\ pc[s] = "done" /\ guest[s] # "none" =>
       /\ output[s].meta = "none" => output[s].degraded
       /\ ~output[s].degraded => dir[s] = "removed" /\ proxy[s] = "closed"

Course == \A s \in Session : Events(s) /\ Places(s) /\ Ends(s)

\* A guest on an object of its own started under its own options or not at all.
OwnOptions ==
  \A s \in Session : Owned(s) /\ guest[s] # "none" => under[s] \in {s, NoSession}

\* A guest on an object of its own whose run counts as good has ended.
OwnEnd ==
  \A s \in Run : Owned(s) /\ result[s] = "ok" => guest[s] = "gone"
=============================================================================
