# A verification project for AgentOctopus

AgentOctopus routes a natural-language request to a *skill* (a directory with a
manifest and scripts) and runs the skill in a sandbox. This directory holds TLA+
models of the parts of the repository where order, failure and concurrency
decide whether it is correct, TLC configurations that check them on small
instances, and TLAPS proofs for every value of the constants. Paths below are
relative to the repository root; `PROJECT.json` maps every definition to the
lines it models and lists the hazards at their lines.

1. [The system](#1-the-system) - inventory
2. [The models](#2-the-models) - modules, state, actions, abstractions
3. [The runs](#3-the-runs) - what TLC checks, bounds, fairness
4. [The proofs](#4-the-proofs) - what TLAPS proves and how
5. [Disagreements found](#5-disagreements-found)
6. [What is not modelled](#6-what-is-not-modelled)
7. [Plan](#7-plan)

## 1. The system

A request enters through the gateway (HTTP `/ask`, a chat channel, the CLI or the
web app). The gateway's engine, one per process, asks the router for a skill and
the executor for its outcome. The executor picks an adapter (subprocess, MCP,
HTTP, LLM-guided), and whatever runs third-party code goes through the
*sandbox runner*, which owns the order in which a session is prepared, executed,
torn down and reported. Telemetry flows back through one shared sink into a
bounded debug buffer; ratings and the evolution of skills are file-backed.

```
 gateway ── router ── executor ── adapter ──► SandboxRunner ──► backend (docker | os | vm)
   │           │          │                      │   │   └────► snapshot store
   │           └──────────┴── telemetry sink ◄───┘   └────────► proxy launcher ► egress proxy
   └── debug buffer, sessions, quotas, pairing        (policy, secrets, session directory)
```

| Component (code) | State it keeps | Operations | What is hard | What makes it correct |
|---|---|---|---|---|
| **Sandbox runner** `packages/core/src/sandbox-runner.ts` | per session: backend, proxy handle, session directory, result, containment error, soft reasons; per runner: the backend objects | `run`, `spawn`, `close`, `prepareSession` | every teardown step can fail; sessions share backend objects; the report is built last | the reported level is honest; teardown in the pinned order; one final event per session; nothing left behind unreported |
| **Backend selection** `packages/sandbox/src/backend.ts`, `sandbox-runner.ts` (profiles), `os/probe.ts` | cached os capabilities and topology; candidates of a selection | `selectBackend`, `resolveRuntimeProfile`, `assertRuntimeProfileMatchesBackend` | a level is what the last probe found, whoever ran it | never a weaker backend than the floor; no candidate that has become too weak while another has not; no topology created for a profile that cannot fit |
| **Docker backend** `packages/sandbox/src/docker/` | carrier, options, memoized cleanup outcome, container and network names | `probe`, `prepareTopology`, `prepare`, `spawn`, `run`, `kill`, `close`, `cleanup` | the CLI reports failure by exit code; names are per object, not per session | a container never outlives a session reported as isolated |
| **OS backend** `packages/sandbox/src/os/` | cgroup, namespace, rootfs, carrier, options, active child, memoized outcome | the same | kills asked for by timer, cap, `kill()` and `close()`; stdio closed before the guest ends | confined before it runs; result waits for the kill; `run()` leaves an empty cgroup |
| **Native helper** `packages/sandbox/src/os/helper.c` | PID 1 state: worker, `wstatus` | set-up, fork, reap, propagate | orphans die in any order | ends after the worker and every zombie; propagates the worker's code |
| **VM backend and engine** `packages/sandbox/src/vm/`, `packages/sandbox-vm-native/` | verified copies, pinned root file system, bridge, helper; in the guest PID 1 and its control channel | the same; ready handshake, exit frames | two probes share one engine; the last frames race the end of the helper | what is verified is on disk while it is used; a guest's failure is never reported as success |
| **Proxy launcher and egress proxy** `packages/sandbox/src/proxy/` | session CA, listener, open connections, credentials | `launch`, `close`, request handling, redirects | 32 slots released on every path; credentials per hop | no slot lost; credentials only to granted hosts |
| **Snapshot store** `packages/sandbox/src/snapshot.ts` | content-addressed directories, staging directories | `buildSnapshot`, `verifySnapshot` | staging shared within a process; failed copies; files changed, removed and added while they are copied | a verified snapshot has the digest it is named by |
| **Policy and secrets** `policy.ts`, `secrets.ts`, `secret-provider.ts` | grants | `resolvePolicy`, `provisionSecrets` | intersection of requests and grants | never more than granted |
| **Executor** `packages/core/src/executor.ts` | metrics, records per skill | `execute` | many outcome paths | every path records one outcome |
| **Router, planner, composer, configuration** `packages/core/src/` | index, config | `route`, `executePlan`, `executeChain`, `resolve` | an LLM's plan may repeat ids, name missing steps or form a cycle; a router replaced before it has an index | a step runs with the output of what it depends on; only eligible skills run |
| **Gateway engine and `/ask`** `packages/gateway/src/engine.ts`, `agent-protocol.ts` | the singleton engine | `bootstrapEngine`, handlers | singleton set after awaits | one engine; exactly one terminal event per request |
| **Debug telemetry buffer** `packages/gateway/src/debug-telemetry.ts` | bounded map of run records | `record`, `recordRequestStart`, eviction | events arrive after eviction, or after the terminal one | a request that is over has a record that says so, with no open run |
| **Sessions, quotas, pairing, channels, agent pool** `packages/gateway/src/`, `apps/cli/src/service.ts` | maps, counters, files, singletons | get, check, approve, start | windows, handlers that share a session over awaits, singletons set around awaits, crashes between saves | limits exact but for what a crash forgets; an answer joins its question; a revoked key stays out |
| **Registry, ratings, evolution, installation** `packages/registry/`, `packages/skills/`, `apps/cli/src/` | cache file, JSON files, snapshot history, installed skills | load, rate, sync, rollback, install | files edited while they are read, several writers, repeated sync, crashes, numbers that restart | a load is as fresh as the disk; no record lost; identity kept over updates; no risky change without approval |
| **Adapters** `packages/adapters/` | per MCP call: transport, session, memoized close | `invoke`, `start`, `close` | three parties close; the connect timer interrupts the spawn | a call returns, and its session is torn down by then |
| **CLI, web** `apps/` | none of their own | translate | user interfaces | - |

How the core components share state is what makes them hard: the gateway builds
**one** runner with **one** object per backend kind for all requests
(`packages/gateway/src/engine.ts:88`), `cleanup()` is memoized per backend
object, and `opts`, `carrier` and the capability cache are fields of that object.
The `hazards` of `PROJECT.json` list where each of these bites.

## 2. The models

A step is the code between two awaits, or one event. Long sequences of calls that
touch only one session's own resources are one step with all the outcomes the
code can leave. Data are abstracted to what the properties tell apart: a snapshot
is verified or not, an exit code is zero, nonzero or 137, an isolation level is
full or none. Operators under a comment *Slip* are plausible mistakes in the
definition that follows them; they are not part of any specification and exist to
show that the properties notice them.

### SandboxRunner - sessions of the runner

`Run` and `Spawn` are the sessions started by `run()` and `spawn()`, `Object` the backend
objects, `kindOf` their kind. Per session: `pc` (the await it is at), `objectOf`,
`verified`, `dir`, `proxy`, `result`, `caught` (the local `containment`), `soft`, `output`,
`emitted`. Per object, as fields of the classes: `carrier`, `opts`, `held` (the os cgroup),
`outcome` (memoized cleanup). A second `prepare()` on one os object overwrites `held`: the
cgroup of the session before it, whose name has a random suffix, is let go and nobody kills
it any more (`RunLeavesStrays`). World: `net`, `guest`, `under` (whose options a guest was
started with), `killing`.

| Code | Actions |
|---|---|
| `prepareSession()` steps 1-5, 6 and 6b | `BuildSnapshot`, `SelectBackend`, `Refuse` |
| `prepareTopology()` of docker and os | `BeginTopology`, `CreateTopology`, `TopologyFails` |
| steps 8-11 | `OpenDir`, `LaunchProxy`, `VerifySnapshot`, `Prepare`, `PrepareFails` |
| `catch` of `prepareSession()` and of `spawn()` | `BeginCleanup`/`RepeatCleanup`, `EndCleanup`, `CloseProxy`, `AbortDir` on the `abort…` labels |
| `backend.run()` / `backend.spawn()` | `RejectExec`, `StartGuest`, `KillGuest`, `RunReturns`, `RunLeavesStrays` |
| `run()` after the capture, `doClose()` | `Close`, `CloseProcess`, `BeginCleanup`, `EndCleanup`, `RepeatCleanup`, `CloseProxy`, `RemoveDir`, `Report` |
| the guest | `GuestExits` |

`Teardown(o)` is the set of outcomes of one teardown of an object: who died,
whether a containment reason was recorded, whether the network is left. It is
where the two kinds differ: docker records a reason only if the CLI could not be
run or timed out, os records every failed kill and every cgroup that does not
empty, but no failed deletion of the namespace. `ForgetState` is the other
difference: os resets `carrier` and `opts`, docker does not.

Abstractions: command and environment building are one accept-or-reject step; the
reason strings are the flags `caught` and `soft`; proxy and launcher are up or
closed, and the launcher's `close()` never fails because it swallows every error;
one call of `close()` per session. Only docker and os objects are modelled: no
session on a vm object gets past `prepare()` (section 5).

### IsolationPromise - what the sandbox promises

Four variables, `stage`, `alive`, `claim` and `sole`: an execution is refused or
its guest starts once, may stop at any time, and the report that ends it claims
isolation only if the guest has stopped. The promise binds the executions in
`sole`. `SandboxRunner` instantiates it (`Promise`) with a mapping from the
session state: `sole` is the set of sessions that own an os object. The twenty
steps of a session collapse into five.

### OsProcess - one guest of the os backend

`spawn()` of `os-backend.ts` with the collector behind `exited`, `kill()`,
`close()`, and `run()`. The child of the runner is the helper; the guest runs
below it, in the cgroup. `doCgroupKill()` runs once per spawn however often it is
asked for (`kill`, `KillStarted`, `WriteKill`, `DrainKill`); the result is
answered at `close` of the child or, if a kill is in flight, after it
(`ChildClose`, `Answer`). `flow` is where `spawn()` and its caller are, and ends in
`held` when the caller keeps the process (a persistent session).

What the guest has written and nobody has read is still in the pipes when the guest
and the helper have ended, so chunks arrive (`Data`), and may cross the cap, until the
child has closed.

Abstractions: the retries of `attach()` are one answer; a chunk is its size; the

docker and vm collectors have the same shape and are not repeated. The child's
`error` event and a `SIGCONT` that throws are not modelled.

### ReaperInit - PID 1 of the namespace

`helper.c` lines 909-963 with the kernel's rules for fork, exit, adoption and
`waitpid(-1)`. Sleeping between passes is not a step.

### BackendSelection - which backend a session gets

Sessions of different skills select concurrently on the same objects; `capable`,
`carrier` and `cleaned` of the os object are shared, and so a probe or a topology of one
session changes what the next step of another finds. `profile` gives each session one
of the configured `Profiles`. `Probe` is one awaited probe together with the code that
follows it up to the next await, `Check` the profile check and the synchronous start of
`prepareTopology()`, which hands out the topology that is cached, `Topology` its
creation, `Launch` what lies between it and `prepare()` (secrets, directory, proxy,
verification), `Prepare` what `prepare()` demands before its first await, and `Build`
the awaits that follow, during which it looks at nothing again.

The configuration (`wanted`, `floor`, `profile`) is any value the schema allows.
Abstractions: the capability checks are one answer; a probe's answer and the level read
right after it are one step; the choice of a profile by requested bins is any.

What the cached topology does to the fail-fast check is part of `MismatchBeforeTopology`:
a session whose profile has a darwin runtime only passes the check when another session's
probe has just lowered the level, and then takes the topology that a third one had
created for its own Linux profile. It gets a proxy and is refused by `prepare()`.

### SnapshotStore - snapshots shared by sessions and processes

`buildSnapshot()` and `verifySnapshot()` of any number of sessions in any number of
processes, one step per call into the file system. `List` and `Walk` are `walk()`, which
ends with the look for an existing root; `MakeStaging`, `Relist`, `SkipCopy`, `OpenCopy`,
`WriteCopy` and `ChmodCopy` are `copyTree()`, which lists the skill anew; then `Rename`,
and `ListRoot` and `Verify` for the verification. `staging` and `store` are the
directories named `<digest>.tmp-<pid>` and `<digest>`; an open copy is a `handle`, which
follows its directory when another session renames it. `Fail` ends a session at any call
and leaves what it did, so it stands for a process that dies too; as a process id may be
given again, sessions of one `Pid` are those of one process or of a later one.

`Edit` changes or adds a file of the skill at any time, `Remove` takes one away, as an
installation does when it wipes the directory. A file that is gone fails the call that
opens it, unless it was listed as a directory (`Nested`), which may be empty by then; a
session that has it open reads on (`kept`). So a session may publish a root without a
file of its digest, if that file was removed after its walk: `gone` remembers it, and
`PublishedWhole` has no other exception. Whoever verifies such a root is refused.

The staging name has the process id in it, not the session, so sessions of one
process can share it. `Unshared(d)` says that no two of them do for `d`, and the
properties about content state what holds without it: an intact snapshot changes
only if its staging directory is shared *and* the skill is edited. Then a copy
opened before the rename can be written after the verification.

Abstractions: the digest of a directory is its content; a file is absent, truncated
or of one version, written in one step; a directory below the skill holds one file; modes
and links are left out (`chmod` of the tree is best effort and its errors are swallowed),
and whatever makes a call reject is `Fail`. In `SandboxRunner` the store appears as the
outcomes of `BuildSnapshot` and `VerifySnapshot`.

### McpSession - calls of MCP skills

`McpAdapter.invoke()` over a `SandboxMcpTransport`. Per call: `call` (the await of
`invoke()`), `result`, `start` (the spawn behind `transport.start()`), `held` (the
transport has its session), `closing` (the memoized promise of `close()`),
`session` and `breached` (what became of the runner's session), `guest`. The MCP
SDK's client is external: a request is answered, fails, or times out, and it fails
when `onclose` fires. `CloseTransport` is `close()`; it is part of every step that
calls it: `ProcessEnds` (the exit of the server), `ConnectTimeout`, `RequestFails`,
`Finish`. `start` is `orphaned` once a close has overtaken the spawn, and `stray`
when the spawn returns all the same. The content of messages is left out.

### DebugTelemetry - the buffer

Operators on one variable, `buffer`: the records and the order of their creation.
`Opened` creates and evicts, `Recorded` is `record()` with its switch (`Merged`) and
`maybeTransition()` (`Transitioned`). Metadata are left out; a record is its
status, terminal event and runs. Eviction is by the time of creation, and requests
are taken to be created in the order of their times.

### AskRequest - traced requests

Composes the two with the traced part of `/ask`, `route()` and `execute()`: `ask` is
the await a handler is at, `outcome` the terminal event it has emitted. A skill
that runs once reports under the executionId of `execute()`, the session of an MCP
skill under one of its own (`Execution`), which is what the code does: the two are
never merged. `SessionCreated` and `SessionFinal` are the steps of `McpSession` that
emit. Abstractions: every request has a trace id of its own; only its first skill
runs (`/ask` retries none); a composed skill emits nothing, because
the composer hands no context on.

### The services

`Services` instantiates the eighteen modules below. They share no state with each
other, so in a behaviour of `Services` one `part` moves (`Moves`) and the variables of
the others stay at one fixed initial value (`Pinned`): it checks the union of the
eighteen state spaces, not their product, and each promise is stated in
the part's own module and collected by theme (section 3).

**`EgressProxy`** - `proxy/egress-proxy.ts`, `policy-engine.ts`, header rules and DNS
pinning. Per connection `socket`, `stage` (what the event loop does for it), `tunnel`
(the CONNECT authority) and `hop` (the request as it goes upstream); `openConns` is the
counter, `live` the set of admitted sockets. `Connect`, `SocketCloses`, `Request`,
`InnerRequest`, `BodyTooLarge`, `Forward`, `BodyEnds`, `Resolves`, `Responds` (a
redirect builds the next hop), `ConnectTunnel`, `HandshakeDone/Fails`, `Close`,
`Closed`. Host patterns, prefixes and address ranges are relations; the addresses of a
lookup are any set.

**`ProxyLaunch`** - one `DefaultProxyLauncher.launch()` and its cleanup on each of the
three carriers, the one-shot secret frame and the life of the proxy server. A child
that ends by a signal has no exit code, `SIGTERM` is sent once, five seconds are waited,
`docker rm` may fail, a connection that only its peer can end may linger.

**`VmEngine`** - `probe()` of `sandbox-vm-native` with its private copies of the verified
binaries, and around it `resolveRootfs()`, `prepare()`, `spawn()` and `cleanup()` of
`vm-backend.ts`. Two probers share the engine, because every session probes every
backend. `superseded` are directories whose registration was overwritten by a probe
that overlapped, `leaked` those whose removal failed (the code swallows it), `reported` what
`cleanup()` has warned of or recorded, and `killer` tells whether the collector's own
`kill()`, whose failure it swallows, has been called: these are what `EngineReleased`
excepts.

**`VmGuest`** - one virtual machine from `start()` to the result: helper
(`vm-helper.c`), the guest's PID 1 (`vm-init.c`), the control channel as two queues
(guest to libkrun, pipe to host), the ready handshake with its malformed frames, exit
frames, and the collector with its timeout and cap. Frames are `ready`, `error`,
`noise`, `exit n`; codes are 0, 1 and 127.

**`OsTopology`** - what one session of the os backend builds on the host and takes down:
the plan of namespace commands with any command failing, the filter table, the runtime
tree checked entry by entry against its manifest, the control group with write,
read-back and delegation, and the stopped helper that `attach()` must see in its group
before SIGCONT. A release is a manifest and an archive that may disagree.

**`OsProbe`** - `probeOsCaps()`: six independent phases that try a thing and undo it.

**`SkillExecution`** - one call of `execute()`: guards, choice of path (adapter, guided
command, guided curl), LLM answers, the sandbox, the validator, and the five places that
hear the outcome, which may turn from success to failure when an HTTP error is found
in the output. The save of the metrics may fail (`Unsaved`): `execute()` then rejects,
also after a good run. A manifest is the facts the code tests.

**`SkillPlan`** - `executePlan()`: waves of steps whose dependencies are done, the
remaining ones in their order, the combination. A plan is any sequence of steps an LLM
may write, with repeated ids, missing and cyclic dependencies.

**`SkillChain`** - `executeChain()` and `validateComposition()`: a step reads context
keys, writes one, is skipped by its condition, refused or missing.

**`SkillRouting`** - the router's candidates (similarity, name, keyword, eligibility) and
the web, CLI and gateway front ends that run them with their fallbacks. Web requests
share a router that is replaced before its index is built (`raced`, `misrouted`).
Scores are distinct numbers.

**`SkillCache`** - the registry's `load()` by concurrent processes: two globs, the reads,
the hash of names and modification times that is taken after them, and the cache file;
files are edited at each step. Time stamps have a granularity (`Tick`), which is why
two writes in one tick are `masked`. A listing or a file that cannot be read is left out
without an error (`unseen`), and what came of it is cached under a hash that is good.

**`SkillRatings`** - `RatingStore` of several processes: `load()` with the migration of the
old format and its save, its `.tmp` and rename, saves that fail, crashes, `octopus sync`
in its four modes and a second device that shares the gist. `LoadFails` is the `catch` of
`load()`: the store is empty (`forgot`) and its next save replaces the file.

**`SkillEvolution`** - proposals, safe and risky, snapshots numbered per process, pruning,
review and rollback by a command that is a process of its own, and a person who edits
`SKILL.md`. Approving a risky change only stages it again, as the code does.

**`SkillInstall`** - `add`, `sync` (check, bulk, removal, cloud), `remove`, and the
installation id carried over in memory while the directory is wiped; a crash at any step,
and a failure of each: the wipe half way, the writing of files from the archive or the
index, the restore of the id. An archive that breaks off, or has entries that cannot be
unpacked, is installed without them (`Fill`).

**`GatewayKeys`** - API keys, quota, rate limiter, `api-keys.json` written in place and only
at each tenth use, midnight, crash and restart. A save that fails leaves the old file, if
it cannot be opened, or one that does not parse; `losses` counts the crashes and failed
saves that uses can be lost by.

**`GatewaySessions`** - chat sessions and the handlers that keep a session object over
their awaits: expiry, pruning, the cap on messages, implicit feedback. A message of `/ask`
may carry a session's id (`ById`) and then gets that session, whoever it belongs to.

**`PeerPairing`** - pairs by peer and channel, codes by peer, replacement and expiry.

**`GatewayStart`** - the control plane's singleton, its agents, the channels that start at
once with an engine each, then HTTP. A channel `listens`, `connects` or `polls`.

## 3. The runs

| Run | Module, cfg | Shows |
|---|---|---|
| `sandbox_runner` | `MCSandboxRunner` | `TypeOK`, `ContainmentHonest`, `GuestConfined`, `TeardownBeforeProxy`, `CleanReport`, `SuccessEarned`, `EndsInOrder`; implements `IsolationPromise`; `RunSettles` |
| `os_process` | `OsProcess` | `CapExact`, `KillAnswered`, `RunLeavesNothing`; `TimeoutEnds`, `CloseReturns` |
| `reaper_init` | `ReaperInit` | `OwnCode`, `OutlivesWorker`, `WorkerEnds` |
| `backend_selection` | `MCBackendSelection` | `MismatchBeforeTopology`, `ReadyIsStrong`, `FittestChosen` |
| `snapshot_store` | `MCSnapshotStore` | `PublishedWhole`, `MountedIntact`, `IntactStays` |
| `ask_request` | `MCAskRequest` | `ReturnedReleased`, `SuccessContained`, `SettledRecord`; `InvokeReturns` |
| `services` | `MCServices` | the eighteen parts: `LimitsExact`, `OnlyGranted`, `NothingLeftBehind`, `OnDiskAsPromised`, `NothingLost`, `ResultsEarned`; `AllEnd` |
| `mcp_leak` | `MCAskRequestReleased.cfg` | a violation, section 5 |
| `shared_reuse`, `docker_survivor` | `MCSandboxRunner…cfg` | two violations, section 5 |
| `vm_profile` | `MCBackendSelectionVm.cfg` | a violation, section 5 |
| `worker_code` | `ReaperInitCode.cfg` | a violation, section 5 |

**The themes of `services`.** Each property is a conjunction over the parts it concerns,
and names the cases the code does not cover as part of its statement:

| Property | Parts and what each promises | What it excepts, because the code does |
|---|---|---|
| `LimitsExact` | proxy: `SlotsExact`; keys: `QuotaHeld`, `RateHeld` | each crash, and each failed save of the usage, may cost the uses of one interval |
| `OnlyGranted` | proxy: `UpstreamGranted`; os: `ConfinedBeforeContinue`, `FullIsProven`; `RevokedStaysOut`; `AllowedEarned`; `RiskyOnlyApproved` | a revocation that could not be saved and was answered with an error |
| `NothingLeftBehind` | `ProxyGone`, `EngineReleased`, `StartClean`, `LeftoversAccounted` | a proxy that sits out the five seconds or that docker cannot remove; copies of a probe that another overtook or that could not be removed; a work directory that was warned of; a helper whose failed kill the collector swallowed; a mount `umount` refuses |
| `OnDiskAsPromised` | `VerifiedOnDisk`; `IdentityKept`, `RefusedLeavesIntact`, `UpdateSettles`; `CacheFresh` | `close()` while another session uses the engine; a crash or failure during a replacement; what of an archive cannot be read; two writes in one tick of the file system; files a load could not read |
| `NothingLost` | `RecordsDurable`, `FeedbackOnce`; `ReplacedIsNewest`; `AnswersInContext` | a second writer of the file; a load that could not read or migrate it; snapshots of several processes; a question the cap has dropped; a session named by its id |
| `ResultsEarned` | `CodeReported`, `HandleServed`, `ObserversAgree`, `SuccessRan`, `RoutedWhole`, `AnswerEarned`, `ContextComplete`, `EachStepAnswered`, `ValidGetsInputs`, `ChainWhole`, `StartWhole` | metrics and text older than the search for an HTTP error; metrics that could not be saved after a good run; a channel silent two seconds after the helper's end; overlapping initialisations of the web router; a gateway reply does not look at success |
| `AllEnd` | a run of a VM, a plan, the start of the gateway | a channel that polls |

**Which sessions a property binds.** The factory says that each runner owns its
topology, and the gateway then shares the runner. So the properties come in three
strengths. `EndsInOrder` and `RunSettles` hold of every session whoever shares its
object. `GuestConfined`, `TeardownBeforeProxy` and `SuccessEarned` bind a session
that is alone on its object (`Owned`). `ContainmentHonest`, `CleanReport` and the
refinement bind one that is alone on an os object (`Enforced`), because docker
drops failures of `docker rm`. Nothing weaker is hidden: the shared and the docker
cases are the violations of section 5.

**Bounds.**

- `sandbox_runner`: one `run()` and one `spawn()` session, one docker and one os
  object (about 174,000 states). Both session kinds meet on one object or sit on
  two, so every `Owned` property is tried with and without a neighbour, and
  every pair of steps of two sessions is interleaved. A third session would add
  another neighbour that does the same things to the shared fields; the proofs
  cover any number.
- `os_process`: cap 3, chunks of 1 or 2 bytes, at most 5 bytes (`ArrivedMax` bounds
  the model only). Chunks end below, at and across the cap, on either stream, and
  arrive after it.
- `reaper_init`: the worker and two descendants, so that a descendant can fork and
  orphan another before and after the worker ends. Proved for any number.
- `backend_selection`: three sessions, the factory's three kinds in order, every
  configuration, three profiles (Linux, docker and vm; macOS only; docker and macOS), each
  session with any of them (about 5,753,000 states, with the sessions interchangeable). Two
  sessions suffice for one to change the capability cache under the other; the third is
  there for the cached topology, which one session creates and another takes while the third
  lowers the level.
- `snapshot_store`: two sessions that share a process id and one that does not, two
  files of which one is in a directory of its own, two contents, any initial skill and one
  edit or removal at any step (`MaxEdits`; about 2,400,000 states, with the two sessions and
  the two contents interchangeable). Three sessions give every pair of roles (sharer, other
  process); two files let one be verified while the other is still written. The theorems
  have no such bounds.
- `ask_request`: two requests, each with or without an MCP call, over a buffer for one
  record (about 43,000 states), so that every record that is created evicts the
  other one, at every point of its request, and is evicted in turn. The theorems
  have neither bound.

- `services`: about 1,314,000 states over the eighteen parts. Two connections on one slot,
  five targets and three credentials, so that one is refused while the other holds the
  slot and a redirect goes from a granted host to each kind of other one; two probers and
  three private directories, so that probes overlap, supersede and still find room; two
  noise frames over one allowed strike; releases altered in each way the checks tell
  apart; two attempts of attach; plans of up to three steps over two ids, so that ids
  repeat and cycles of two and three exist; chains of two; three skills of which one is
  not eligible, top 1 and 1 by name, two attempts, two requests; two loaders of one file
  with one good and one malformed content and three ticks, so that an edit can fall
  within the tick of the read or after it; one rating process beside the sync and a
  second device, a history of two notes and three records, so that a note is pushed out;
  one kept snapshot of two; two published versions and two installation ids; a quota of
  three or four saved at each second use and two losses, crashes or failed saves; a rate
  window of two ticks in
  three; three messages of two peers in sessions that hold three, two of
  them with the id of any session; three codes; three
  channels, one of each kind, and two callers of the control plane. One run has to
  finish in minutes, so two processes on one `ratings.json` are the `writers` exception
  by the sync and the second device only.

`CHECK_DEADLOCK` is off where the system stops: sessions end, processes end.

**Fairness.** Every await of the runner is on a CLI call with a timeout, a file
operation, or an exit that the timer forces, so a session's own steps
(`Setup \/ Finish`) and the timeout or cap kill of its guest are weakly fair. The
caller's `close()` and the guest's exit are not. `RunSettles` therefore excepts an
os guest that cannot be killed: `exited` of os waits for the pipes, docker's does
not, since it kills its own CLI child. In `OsProcess` the event loop (timer,
`close` event, continuations), `run()`'s own `close()`, the helper and the kernel's
delivery of a pending SIGKILL are fair; the guest and a caller that holds the
process are not. In `AskRequest` timers, continuations of settled promises and a
session's close are fair (the last is what `RunSettles` says of the runner; its
exception, an os guest that cannot be killed, is not carried over), the spawn and
the server are not. In `ReaperInit` only PID 1 is. `BackendSelection` and
`SnapshotStore` state safety only. In `services` a VM's helper, its libkrun thread and the
host's event loop go on (`HelperGoesOn`: pipes drain, timers fire, children are
reaped; nothing makes the *workload* end but the collector's limit), the planner's
awaits come back since each is an LLM or skill call with a timeout of its own
(`PlanGoesOn`), and the start of the gateway takes its next step, whatever its outcome
(`StartStep`). The other parts state safety only.

**What the properties guard against.** For each property `PROJECT.json` names a
mutant, a plausible mistake in the code, under which TLC finds the property
violated in the same run.

## 4. The proofs

`SandboxRunnerProofs` proves, for any sets of sessions and objects, from
`SessionsAssumption` (the kinds of sessions are disjoint, `NoSession` is none of
them) and `ObjectsAssumption` (each object is docker or os, `NoObject` is none):

- `RunnerTypeOK`, `RunnerContainmentHonest`, `RunnerGuestConfined`,
  `RunnerTeardownBeforeProxy`, each from `RunnerInductive: Spec => []Inductive`;
- `RunnerEndsInOrder`, `RunnerSuccessEarned`, `RunnerCleanReport` and the refinement
  `RunnerKeepsPromise: Spec => IsolationPromised`, from `Inductive` with `Course`,
  `OwnOptions` and `OwnEnd`.

`Inductive` is `TypeOK` with two facts about all sessions and three about lone ones:
`Phases` (a session past selection has its object, a guest exists only from its
start on), `Untouched` (an object nobody has selected is as it was constructed),
and for sessions that own their object `ObjectPhase` (where cleanup outcome,
carrier and options stand at each label), `ConfinePhase` (what is in place before
and while the guest runs) and `ContainPhase` (an os guest that still runs is in
the held cgroup, or its failure has been caught). None of the properties is
inductive alone: `ContainmentHonest` speaks of the end, and holds because a guest
that survived was under the options whose cgroup the teardown killed.

A session may lose its `Owned` status at any step of another one and gain it only by
selecting. The argument follows that: `Frame` says what a step of session `t` leaves
of everything that is not `t`'s or its object's, `StepFrame` proves it per action,
`OwnedBefore` that a session alone after a step was alone before it or has
selected in it, `OthersKeep` that lone sessions are not disturbed, and
`LoneSetup`, `LoneFinish`, `LoneOther` that a lone session's own steps keep its
phases, one step per action.

`Course` speaks of one session at a time, whoever shares its object: `Events` (what it has
emitted at each label), `Places` (its guest, directory and proxy) and `Ends` (what a result
and an output rest on). So no other session's step can disturb it, but by letting a guest
die (`OthersCourse`). `OwnOptions` says under whose options the guest of a lone session
started, which `SuccessEarned` needs and which only `ObjectPhase` at `exec` gives. `OwnEnd`
says that a lone guest whose run counts as good has ended; it is no part of `Course`, since
on a shared object a second `prepare()` takes the cgroup away from it. The refinement has
four lemmas for the kinds of steps that are not silent in the promise, and one for those
that are: a backend is selected (`BindStep`; only the session itself may come under the
promise, by `OwnedBefore`), a guest starts (`ActivateStep`), a session ends without a guest
(`RefusedStep`) or with one (`OverStep`; here `ContainPhase` of the state *after* the step
gives the claim), and guests stop or nothing happens (`QuietStep`).

`OsProcessProofs` proves the four invariants of its run (`GuestTypeOK`, `GuestCapExact`,
`GuestKillAnswered`, `GuestRunLeavesNothing`) for any cap, any sizes of chunks and any
amount of output, from `SizesAssumption`. `CapExact` needs that what is buffered never
exceeds the cap, or what still fits of a chunk would be negative; `KillAnswered` needs
that once the child has closed, neither the timer nor more output can cut the run short,
so the exit code settled then stays the right one (`KillInv`).

`BackendSelectionProofs` proves all four properties of its run (`SelectionTypeOK`,
`SelectionMismatch`, `SelectionReadyIsStrong`, `SelectionFittestChosen`) for any
sessions, any profiles and any list of backends, from `AvailableAssumption` and
`ProfilesAssumption`. The invariant: a session past selection has one backend, of a wanted
kind; a docker session past the check has an image, an os session about to create a
topology a Linux runtime, and whoever is past the beginning of `prepare()` the block its
backend needs; a cached topology was created for some session with a Linux runtime.
`ReadyIsStrong` holds although another session's probe may lower the level between
selection and `prepare()`, because `prepare()` of os looks at the capabilities again.
`FittestChosen` holds because the sort looks at the levels again after the last probe: a
candidate that was admitted and has dropped since comes behind every one that has not.
That the sort has a first element among any set of candidates is the well-foundedness of
`<` on the naturals.

`ReaperInitProofs` proves `ReaperTypeOK`, `OwnCode` and the action property `OutlivesWorker`
for any set of descendants, from `ProcessAssumption`. Its invariant links `workerReaped` to
the worker's state and, as long as no descendant was adopted by PID 1, `wstatus` to the
worker's own status.

`SnapshotStoreProofs` proves all four properties of its run (`StoreTypeOK`,
`StorePublishedWhole`, `StoreMountedIntact`, `StoreIntactStays`) for any sessions,
processes, files, contents and edits, from `SkillAssumption`. `PublishedWhole` holds at a
rename because the staging directory has every file by then that is not in `gone`, although
others may have failed in it or renamed it away: `StagingKept` says that a building session
finds its copies there *as long as nothing is published under its digest*, which is exactly
when its rename can succeed, and `GoneFits` that a file of the digest that the second
listing does not find is one that was removed since the walk. `MountedIntact` needs
`VerifiedSoFar`, what has been read already is still so, and that needs `HandlesHeld`: a
handle reaches the store only if two sessions share the staging directory. The argument
rests on three facts about steps: `StoreKept` (what a step can do to a published directory),
`StagingStays` (to a staging directory) and `UnsharedBefore` (sessions that have looked for
a digest do not change it, so sharing never ends).

`AskRequestProofs` proves the four safety properties of its run (`AskTypeOK`,
`AskSettledRecord`, `AskReturnedReleased`, `AskSuccessContained`) for any requests
and any positive capacity, from `CallAssumption` and `CapacityAssumption`, each from
`AskInductive: Spec => []Inductive`. It rests on two sets of lemmas.
`McpInductive` says where `invoke()`, `close()` and the session can be at each stage
of the spawn. Of the buffer, `Opens` and `Records` say that an operation
leaves the record of every other request alone or takes it whole, and what it makes
of its own. `Fits(r)` then links a record to the session whose runs it shows and to
the handler's outcome. `SettledRecord` is not inductive alone: that no run is open at
the end holds because an open run belongs to a session that is still open, and a
call that has returned has none (`Quiet`).

`HostServicesProofs` and `ServicesProofs` prove all seven invariants of `services`
(`ServicesTypeOK`, `ServicesLimitsExact`, `ServicesOnlyGranted`,
`ServicesNothingLeftBehind`, `ServicesOnDiskAsPromised`, `ServicesNothingLost`,
`ServicesResultsEarned`), for any connections, keys, skills, sessions, sizes and bounds that
`ServicesAssumption` allows. The first module has the parts that serve the sandbox and those
of the gateway, the second those that serve skills and the theorems. The parts share no
state, so `ServicesInv` says that the part that moves satisfies an invariant of its own:
each part has three lemmas, that its invariant holds at first (`...Starts`), that its steps
keep it (`...Keeps`) and what follows (`...Follows`), and `HostKeep` and `SkillsKeep` put
them together, one step per part. None of the promises is inductive alone. What each part's
invariant adds:

- *Proxy* (`SlotInv`, `GrantInv`). The counter is the cardinality of the set of live
  connections, and those are the tracked sockets. A request between the decision and the socket
  was decided for the target of its *last* hop, with an address the check let through, and a
  header of the guest goes to the origin it was sent to only. The two conjuncts are also
  theorems of the proxy's own specification (`ProxySlotsExact`, `ProxyUpstreamGranted`).
- *Launcher, engine* (`LaunchInv`, `EngineInv`). What each stage has behind it; a private
  directory is that of one probe, and one a probe is about to remove is nobody's result.
- *VM* (`GuestInv`, `StrikesInv`). What is in the channel tells what the guest has done: an
  exit frame with 0, written, in the pipe or read, means that the workload ended with 0, and
  a guest that got ready and then settled has sent a code. `StrikesInv` needs that a chunk
  without a decisive frame stays within the strikes that are forgiven (`ChunkForgiven`).
- *OS topology, probe* (`TopologyInv`, `ProbeInv`). The stages come in one order, so each fixes
  what network, tree, cgroup and helper are; what cleanup has passed over is in the errors.
- *Keys* (`QuotaInv`, `RateInv`, `RevokedInv`, `StampInv`). What was served is at most what
  memory counts, and what the file counts and memory has not saved since, beside less than
  `SaveEvery` for each loss so far (`KeysUp`, `KeysDown`): a save that fails adds the uses
  since the save before it to what the next crash forgets; `KeysRevokedUnserved`, on the
  specification of the keys alone, adds to `RevokedInv` that no step counts or lets through
  a request of a revoked key; a bucket holds all that is recent of what has passed, although
  it is pruned, and a request's number makes it new in its bucket.
- *Sessions, pairing, start* (`SessionsInv`, `PairingInv`, `StartInv`). A handler's session
  is its sender's or one it has named, and its question is in it unless the cap was reached;
  a pending code is the newest sent to its peer; one caller runs the control plane's
  `start()` and each channel's engine is its own.
- *Execution, plan, chain* (`ExecInv`, `PlanInv`, `ChainInv`). Up to the run nobody has
  heard of the call; the ids without a result are those pending; whatever a step that ran
  was to write is in the context.
- *Routing* (`RoutingInv`). A router without its index is that of a request that is building
  it, and requests that initialise the web route together have raced; the attempts are a
  prefix of the ranking, and only the last one may have succeeded. The rankings are lists
  that must exist: `DescendingExists`, by well-founded induction on the size of the set.
- *Cache* (`CacheInv`). What a load has read of a file is what is on disk unless a change
  was masked or the read failed, a hash that equals the disk's stamp vouches for the
  content, and a cache file is what one load has read under the hash it made afterwards.
  Unlisted files need a clause of their own (`UnlistedInv`).
- *Ratings* (`RatingsInv`). While one process alone writes, whatever its returned records have
  recorded is in the file and in that process, or newer feedback has pushed it out; a
  process that forgot what the file held owes only what it has recorded since.
- *Evolution, installation* (`EvolutionInv`, `InstallInv`). Every text that `SKILL.md` ever had
  is of approved and of safe changes, and while one process makes the snapshots its counter is
  the number of the newest; an installation carries the id of the directory it has wiped to the
  one it leaves.

Every safety invariant and every action property of the passing runs is proved, and so is
the refinement of `IsolationPromise`. Three theorems say what of liveness is a matter of
single steps, for any sessions, calls and chunks and without fairness: nothing goes round,
and what has ended stays as it ended. They are action properties, so a bad step refutes
them, not a missing one:

- `RunnerMovesOn`: `Rank` orders the stages of a session, `SetupMovesOn`, `FinishMovesOn`
  and `OtherMovesOn` show for each action that it rises or nothing moves, and the frames
  that no other session moves it. Report and events of a session that is done are final.
- `AskCallsMoveOn`: the same for `invoke()`, with the memoized `close()`, which ends once.
  `SpawnFails` resolves a close only where none has begun, by `StartFits`.
- `GuestAnswersOnce`: one kill, one answer. That nothing arrives after the child has closed,
  not even from a guest that lives on, is `KillInv`: such a guest has closed its pipes. That
  `run()` ends once needs `Unended` beside it.

Liveness itself (`RunSettles`, `TimeoutEnds`, `CloseReturns`, `WorkerEnds`, `InvokeReturns`,
`AllEnd`) stays with TLC: fairness and ENABLED are beyond the prover. No module uses a
RECURSIVE operator, and where an argument needs induction (an element that comes first or
last, a ranking that exists) it takes a least counterexample, from the well-foundedness of
`<` on the naturals (`Least`, `Greatest`).

## 5. Disagreements found

- **`shared_reuse`**. `DockerBackend.prepareTopology()` returns the cached carrier
  although an earlier session's `cleanup()` has removed its networks. The factory
  assumes a runner per execution, the gateway shares one. Shortest run: a session
  ends, the next one launches its proxy into networks that no longer exist.
- **`docker_survivor`**. `runDocker()` resolves whatever the exit code is, so a
  `docker rm -f` that fails is neither a containment reason nor an error, and a
  container outlives a session whose meta says full, against
  `docs/core-concepts/sandbox.md:79` and `:83`.
- **`vm_profile`**. `resolveRuntimeProfile()` never copies `vmRuntime`, and the
  cross-check has no case for vm, so a vm session creates its topology and a proxy
  before `prepare()` refuses it, against `docs/core-concepts/sandbox.md:40`. The same
  sentence is not true of an os session with a darwin profile that finds the topology of
  another session on a lowered level (section 2, `BackendSelection`): no topology is made
  for it, but a proxy is started.
- **`mcp_leak`**. `close()` of the MCP transport memoizes a close of the session it has
  at that time. The connect timer (`mcp-adapter.ts:68`) covers the preparation of
  the sandbox session too; when it fires during it, the call returns, the spawn goes
  on, and the session it returns is never closed: when its server exits,
  `handleProcessEnd()` joins the close that is done. The comment at
  `sandbox-mcp-transport.ts:123` says that a peer exit releases the session. Its
  `created` event reaches the record of a request that is over, which is why
  `SettledRecord` excepts such a session.
- **`worker_code`**. The drain of the reaper stores into the same `wstatus`, so PID 1
  can end with the code of an orphan, against the comment at `helper.c:938`.

### Seen while modelling

Where no document, comment or test says otherwise there is no disagreement to show, and
the model does as the code does. A maintainer may still want to know:

- *VM.* Of two overlapping `probe()` calls the first one's private directory is leaked;
  `close()` and a new `probe()` wipe the copies another session runs from. The two-second
  timer for the exit frame starts at the ready frame, not at the helper's end. `start()`
  never closes the control pipes. Private copies that cannot be removed stay without a
  warning, and so does a helper that the collector's `kill()` failed to reach.
- *OS backend.* The cleanup errors of a failed namespace set-up cannot be read by anyone;
  a failed `prepare()` drops the containment reasons of its own teardown; the rule file
  that is to replace a table adds to it.
- *Proxy launcher.* A child that emits `error` before a listener is installed ends the
  host process; `close()` waits without bound for a refused connection its peer keeps open.
- *Executor.* Metrics and formatted output are made before an HTTP error in the output turns
  success into failure; a `ratings.json` that cannot be written turns a good run into an
  exception, without an `adapter.completed` event; refusals for credentials and composed
  skills record neither metrics nor a signal.
- *Composer and planner.* `executeChain()` reports success with failed steps; a composed
  skill that names itself recurses without bound; two steps with one id share a result;
  a router that throws ends the plan.
- *Router front ends.* The web route replaces its router before the new one has an index,
  so concurrent first requests are routed with an empty one; `previousSkill` is taken
  without the eligibility filter.
- *Registry.* The cache's hash is taken after the files were read and over the first glob
  only; a skill whose file could not be read is cached as absent until the files change; the
  map of skills is never cleared; `negativeFeedbackCount` does not survive the cache.
- *Ratings.* A `ratings.json` that does not parse, or that could not be read, or whose
  migration could not be saved, counts as empty and is overwritten by the next save; several
  processes share one `.tmp`; a merge adds the counters, so a repeated one counts twice.
- *Evolution.* Snapshot numbers restart in each process, so a later snapshot may overwrite
  `00000001.md`, and a rollback to it from the CLI overwrites it first; a risky proposal
  approved in the CLI is staged again and cleared, never applied.
- *Gateway.* A control plane whose start failed stays published; with a polling channel
  the HTTP gateway is never started, since `await bot.launch()` returns when the bot stops;
  a peer paired by code is stored under channel `unknown`; quota is charged before the rate
  limit is looked at; `/ask` takes the session of any id it is given, whoever that belongs
  to; a key whose revocation could not be saved is active again after a restart; replies to
  agents say `success: true` whatever the adapter said.
- *Snapshots.* A file that is removed between the walk and the copy leaves a root that lacks
  it, and every session with that digest is refused from then on.
- *Installation.* An archive that breaks off is installed without its rest and reported as
  done. A crash or a failure between the wipe and the restore of the
  installation id loses it; versions are compared as strings; a sync removes every local
  skill that is not in the index.

## 6. What is not modelled

- Text: command lines, environment variables, reasons, HTTP bodies, prompts, the parsing
  of manifests, plans and configuration. `Configuration` is therefore `not_modelled`: its
  values are inputs of `BackendSelection` and `SandboxRunner`.
- Set-up that is a straight line of system calls with one outcome: mounts and seccomp in
  `helper.c`, the packaging of native binaries, `docker` command lines.
- The scores of the router's ranking and whatever a language model decides: both are inputs.
- The collectors of the docker and vm backends, which have the shape of `OsProcess`
  (`VmGuest` has the vm one with its exit frames).
- The intersection of requests and grants in `resolvePolicy()`, and secret providers:
  both appear as the outcome of a step of the session.
- A second concurrent `close()` of one session, which resolves before the first has
  ended (`sandbox-runner.ts:712`).
- Retries of a trace id: a client that sends one id twice shares one record between
  two requests.
- File modes: a read-only leftover in a staging directory makes the next copy of it
  fail for an ordinary user and not for root, which is one of the failures of
  `SnapshotStore`. That a root published under a digest it does not hold (the skill
  was edited between walk and copy) is refused for ever is in the model, and no
  property promises that it heals.
- Code without a caller in the repository: `routeEvent()`, `AgentRouter`,
  `ControlPlane.stop()`, `upgradeApiKey()`; and `expiresAt` of an API key, which nobody
  sets. The user interfaces (REPL, onboarding, web
  pages); `SubprocessAdapter` and `HttpAdapter`, which turn one call into one request.

## 7. Plan

What would add most, in this order. Modules that will be proved about use no RECURSIVE
operator.

1. **`SandboxRunner`** - a second `close()` as an action, with `McpSession` as its caller,
   and `SnapshotStore` composed with it through `verified`.
2. **`BackendSelection`** - the choice of a profile by requested bins, and
   `resolvePolicy()` as an operator against a reference definition.
3. **Parts of `services` on instances of their own** - two rating processes and two
   loaders with three files want more states than one shared run has room for.
4. **Proofs** - what the steps of more parts may never do, as action properties: that a file
   read by a load or a snapshot taken stays as it is; and the launcher, the engine and the
   VM as implementations of what the runner assumes of them.
