------------------------------ MODULE Services -------------------------------
(***************************************************************************)
(* The services around the sandbox runner, each a module of its own: the   *)
(* egress proxy and its launcher, the VM's engine and guest, the topology  *)
(* and the probe of the OS backend, routing, execution, plans and chains   *)
(* of skills, the registry's cache, ratings, evolution and installation,   *)
(* and the gateway's keys, sessions, pairing and start.  They share no     *)
(* state, so a behaviour here is one of one part, the others standing      *)
(* still: the promises below are those of the parts, by theme.             *)
(***************************************************************************)
EXTENDS Integers, Sequences, FiniteSets

CONSTANTS
  Conn, MaxConns, MaxRedirects, Target, Hosts, Credentials, Secret, Covers, Under,
  Wildcard, Suffix, Literal, Address, Private,
  MaxDirs, Ref, Qualified, Required, NoRef,
  MaxStrikes, MaxNoise,
  Releases, Paths, Bits, NoPath, Outside, MaxAttach,
  Id, MaxSteps,
  ContextKey, Query, NoOutput, MaxChain,
  Requests, Skill, Eligible, Score, NameMatch, KeywordMatch, TopK, MaxNamed, MaxKeyword,
  MaxAttempts,
  Loader, SkillFile, MaxContent, Malformed, MaxTicks,
  Proc, MaxNotes, MaxTime, MaxRuns,
  Change, Risky, MaxHistory, MaxSeq,
  MaxVersion, MaxIds,
  Key, Tier, FreeTier, DayLimit, MinuteLimit, Anyone, SaveEvery, Window, MaxClock, MaxDay,
  MaxLosses,
  Message, Peer, From, ById, MaxMessages,
  Chat, PeerId, MaxCodes,
  Chan, WebChat, Kind, Http, Caller, Service, AgentCount

VARIABLES
  part, \* the part that moves
  listening, openConns, live, socket, stage, tunnel, hop,
  carrier, launch, closing, caKey, frame, server, waited, sidecar, lingers,
  prober, made, dirs, verified, superseded, leaked, wanted, opened, pin, mount, bridge,
  workDir, helper, killer, reported, vmStage,
  guest, worker, tx, pipe, helperOf, status, start, strikes, guestExit, settled,
  killedBy, capped, result, noise,
  osStage, netStep, network, grants, netErrs, release, checkNo, tree, group, limits,
  osHelper, tries, reasons, softs, partial,
  platform, sound, phase, caps, probeErrors, probeObjs, ranHelper, probed,
  manifest, llm, at, path, ran, body, outcome, metrics, shown, validated, completed,
  signal, answer,
  steps, pending, results, wave, fallen, mode, context,
  chain, chainStep, present, given, stepEnds, chainEnd,
  front, routers, initialized, request, ownRouter, raced, misrouted, previous, routed,
  attempts, reply,
  disk, written, tick, cacheFile, loader, listed, unread, hashed, skillMap, restored,
  during, masked, unseen,
  ratings, ratingTmp, store, saving, now, acked, writers, migrating, forgot,
  gist, device, sync, syncMode, syncEntry,
  skillMd, history, seqOf, author, proposal, asked, seen, index, approved, replaced,
  skill, skillsIndex, job, installAt, syncPhase, ids, owed, before, ended,
  keyFile, keys, gateway, clock, day, windows, served, passed, losses, issued, revoked,
  sessions, current, expired, handler, inSession, credited,
  peers, pendingCode, dueCodes, codes, sentTo, verdict,
  channels, plane, agents, planeCall, agentsAt, service, boot, engines, engineOf,
  sawEngine

Egress    == INSTANCE EgressProxy
Launch    == INSTANCE ProxyLaunch
Engine    == INSTANCE VmEngine
Guest     == INSTANCE VmGuest
Topology  == INSTANCE OsTopology
Probe     == INSTANCE OsProbe
Exec      == INSTANCE SkillExecution
Planner   == INSTANCE SkillPlan
Chain     == INSTANCE SkillChain
Routes    == INSTANCE SkillRouting
Cache     == INSTANCE SkillCache
Ratings   == INSTANCE SkillRatings
Evolution == INSTANCE SkillEvolution
Install   == INSTANCE SkillInstall
Keys      == INSTANCE GatewayKeys
Sessions  == INSTANCE GatewaySessions
Pairing   == INSTANCE PeerPairing
Start     == INSTANCE GatewayStart

ASSUME ServicesAssumption ==
  /\ Egress!ProxyAssumption
  /\ Engine!EngineAssumption
  /\ Guest!GuestAssumption
  /\ Topology!TopologyAssumption
  /\ Planner!PlanAssumption
  /\ Chain!ChainAssumption
  /\ Routes!RoutingAssumption
  /\ Cache!CacheAssumption
  /\ Ratings!RatingsAssumption
  /\ Evolution!EvolutionAssumption
  /\ Install!InstallAssumption
  /\ Keys!KeysAssumption
  /\ Sessions!SessionsAssumption
  /\ Pairing!PairingAssumption
  /\ Start!StartAssumption

proxyVars == <<listening, openConns, live, socket, stage, tunnel, hop>>
launchVars == <<carrier, launch, closing, caKey, frame, server, waited, sidecar, lingers>>
engineVars == <<prober, made, dirs, verified, superseded, leaked, wanted, opened, pin,
  mount, bridge, workDir, helper, killer, reported, vmStage>>
vmVars == <<guest, worker, tx, pipe, helperOf, status, start, strikes, guestExit, settled,
  killedBy, capped, result, noise>>
topologyVars == <<osStage, netStep, network, grants, netErrs, release, checkNo, tree,
  group, limits, osHelper, tries, reasons, softs, partial>>
probeVars == <<platform, sound, phase, caps, probeErrors, probeObjs, ranHelper, probed>>
execVars == <<manifest, llm, at, path, ran, body, outcome, metrics, shown, validated,
  completed, signal, answer>>
planVars == <<steps, pending, results, wave, fallen, mode, context>>
chainVars == <<chain, chainStep, present, given, stepEnds, chainEnd>>
routingVars == <<front, routers, initialized, request, ownRouter, raced, misrouted,
  previous, routed, attempts, reply>>
cacheVars == <<disk, written, tick, cacheFile, loader, listed, unread, hashed, skillMap,
  restored, during, masked, unseen>>
ratingVars == <<ratings, ratingTmp, store, saving, now, acked, writers, migrating, forgot,
  gist, device, sync, syncMode, syncEntry>>
evolutionVars == <<skillMd, history, seqOf, author, proposal, asked, seen, index,
  approved, replaced>>
installVars == <<skill, skillsIndex, job, installAt, syncPhase, ids, owed, before, ended>>
keyVars == <<keyFile, keys, gateway, clock, day, windows, served, passed, losses,
  issued, revoked>>
sessionVars == <<sessions, current, expired, handler, inSession, credited>>
pairingVars == <<peers, pendingCode, dueCodes, codes, sentTo, verdict>>
startVars == <<channels, plane, agents, planeCall, agentsAt, service, boot, engines,
  engineOf, sawEngine>>
vars == <<part, proxyVars, launchVars, engineVars, vmVars, topologyVars, probeVars,
          execVars, planVars, chainVars, routingVars, cacheVars, ratingVars,
          evolutionVars, installVars, keyVars, sessionVars, pairingVars, startVars>>

Parts == {"egress", "launch", "engine", "guest", "topology", "probe", "execution", "plan",
          "chain", "routing", "cache", "ratings", "evolution", "install", "keys",
          "sessions", "pairing", "start"}

\* A part that stands still is in one of its initial states.
Pinned ==
  /\ part = "launch" \/ carrier = CHOOSE c \in Launch!Carrier : TRUE
  /\ part = "topology" \/ release = CHOOSE r \in Releases : TRUE
  /\ part = "probe" \/ (platform = "other" /\ sound = {})
  /\ part = "execution" \/ (manifest = (CHOOSE m \in Exec!Manifest : TRUE) /\ llm = FALSE)
  /\ part = "routing" \/ front = [q \in Requests |-> "cli"]
  /\ part = "ratings" \/ ratings = Ratings!Absent
  /\ part = "start" \/ channels = {WebChat}

Init ==
  /\ part \in Parts /\ Pinned
  /\ Egress!ProxyInit
  /\ Launch!LaunchInit
  /\ Engine!EngineInit
  /\ Guest!GuestInit
  /\ Topology!TopologyInit
  /\ Probe!ProbeInit
  /\ Exec!ExecInit
  /\ Planner!PlanInit
  /\ Chain!ChainInit
  /\ Routes!RoutingInit
  /\ Cache!CacheInit
  /\ Ratings!RatingInit
  /\ Evolution!EvolutionInit
  /\ Install!InstallInit
  /\ Keys!KeysInit
  /\ Sessions!SessionsInit
  /\ Pairing!PairingInit
  /\ Start!StartInit

Moves(p) ==
  /\ part = p /\ UNCHANGED part
  /\ IF part = "egress" THEN TRUE ELSE UNCHANGED proxyVars
  /\ IF part = "launch" THEN TRUE ELSE UNCHANGED launchVars
  /\ IF part = "engine" THEN TRUE ELSE UNCHANGED engineVars
  /\ IF part = "guest" THEN TRUE ELSE UNCHANGED vmVars
  /\ IF part = "topology" THEN TRUE ELSE UNCHANGED topologyVars
  /\ IF part = "probe" THEN TRUE ELSE UNCHANGED probeVars
  /\ IF part = "execution" THEN TRUE ELSE UNCHANGED execVars
  /\ IF part = "plan" THEN TRUE ELSE UNCHANGED planVars
  /\ IF part = "chain" THEN TRUE ELSE UNCHANGED chainVars
  /\ IF part = "routing" THEN TRUE ELSE UNCHANGED routingVars
  /\ IF part = "cache" THEN TRUE ELSE UNCHANGED cacheVars
  /\ IF part = "ratings" THEN TRUE ELSE UNCHANGED ratingVars
  /\ IF part = "evolution" THEN TRUE ELSE UNCHANGED evolutionVars
  /\ IF part = "install" THEN TRUE ELSE UNCHANGED installVars
  /\ IF part = "keys" THEN TRUE ELSE UNCHANGED keyVars
  /\ IF part = "sessions" THEN TRUE ELSE UNCHANGED sessionVars
  /\ IF part = "pairing" THEN TRUE ELSE UNCHANGED pairingVars
  /\ IF part = "start" THEN TRUE ELSE UNCHANGED startVars

EgressStep    == Moves("egress") /\ Egress!ProxyNext
LaunchStep    == Moves("launch") /\ Launch!LaunchNext
EngineStep    == Moves("engine") /\ Engine!EngineNext
GuestStep     == Moves("guest") /\ Guest!GuestNext
TopologyStep  == Moves("topology") /\ Topology!TopologyNext
ProbeStep     == Moves("probe") /\ Probe!ProbeNext
ExecStep      == Moves("execution") /\ Exec!ExecNext
PlannerStep   == Moves("plan") /\ Planner!PlanNext
ChainStep     == Moves("chain") /\ Chain!ChainNext
RoutesStep    == Moves("routing") /\ Routes!RoutingNext
CacheStep     == Moves("cache") /\ Cache!CacheNext
RatingsStep   == Moves("ratings") /\ Ratings!RatingNext
EvolutionStep == Moves("evolution") /\ Evolution!EvolutionNext
InstallStep   == Moves("install") /\ Install!InstallNext
KeysStep      == Moves("keys") /\ Keys!KeysNext
SessionsStep  == Moves("sessions") /\ Sessions!SessionsNext
PairingStep   == Moves("pairing") /\ Pairing!PairingNext
StartStep     == Moves("start") /\ Start!StartNext

Next ==
  \/ EgressStep \/ LaunchStep \/ EngineStep \/ GuestStep \/ TopologyStep
  \/ ProbeStep \/ ExecStep \/ PlannerStep \/ ChainStep \/ RoutesStep \/ CacheStep
  \/ RatingsStep \/ EvolutionStep \/ InstallStep \/ KeysStep \/ SessionsStep
  \/ PairingStep \/ StartStep

\* What the parts' own specifications assume: the guest and its helper and the planner
\* go on with what they have begun, and the event loop takes every callback of a start.
GoesOn == \/ Moves("guest") /\ Guest!HelperGoesOn
          \/ Moves("plan") /\ Planner!PlanGoesOn
          \/ StartStep

Spec == Init /\ [][Next]_vars /\ WF_vars(GoesOn)
----------------------------------------------------------------------------
TypeOK ==
  /\ part \in Parts
  /\ part = "egress" => Egress!ProxyTypeOK
  /\ part = "launch" => Launch!LaunchTypeOK
  /\ part = "engine" => Engine!EngineTypeOK
  /\ part = "guest" => Guest!GuestTypeOK
  /\ part = "topology" => Topology!TopologyTypeOK
  /\ part = "probe" => Probe!ProbeTypeOK
  /\ part = "execution" => Exec!ExecTypeOK
  /\ part = "plan" => Planner!PlanTypeOK
  /\ part = "chain" => Chain!ChainTypeOK
  /\ part = "routing" => Routes!RoutingTypeOK
  /\ part = "cache" => Cache!CacheTypeOK
  /\ part = "ratings" => Ratings!RatingTypeOK
  /\ part = "evolution" => Evolution!EvolutionTypeOK
  /\ part = "install" => Install!InstallTypeOK
  /\ part = "keys" => Keys!KeysTypeOK
  /\ part = "sessions" => Sessions!SessionsTypeOK
  /\ part = "pairing" => Pairing!PairingTypeOK
  /\ part = "start" => Start!StartTypeOK

\* Limits are exact however their users come, fail, overlap and restart: a connection of
\* the proxy holds one slot until it ends and gives back that one only; a key is never
\* served more than its window's rate, nor more than its day's quota but for what a crash
\* and a failed save of its usage make it forget.
LimitsExact ==
  /\ part = "egress" => Egress!SlotsExact
  /\ part = "keys" => Keys!QuotaHeld /\ Keys!RateHeld

\* Nothing passes that was not granted, however the steps of granting it interleave with
\* those of using or revoking it: the upstream of a connection and the secret it is
\* given, the rules of a process before it continues, the level a probe reports, a
\* revoked key, a peer, and a risky change of a skill.
OnlyGranted ==
  /\ part = "egress" => Egress!UpstreamGranted
  /\ part = "topology" => Topology!ConfinedBeforeContinue
  /\ part = "probe" => Probe!FullIsProven
  /\ part = "keys" => Keys!RevokedStaysOut
  /\ part = "pairing" => Pairing!AllowedEarned
  /\ part = "evolution" => Evolution!RiskyOnlyApproved

\* Whichever step fails or is cut short, what was started is stopped or reported: the
\* proxy and its sidecar, the engine's directories, mounts and helper, a helper whose
\* start threw, and the topology of the OS backend.
NothingLeftBehind ==
  /\ part = "launch" => Launch!ProxyGone
  /\ part = "engine" => Engine!EngineReleased
  /\ part = "guest" => Guest!StartClean
  /\ part = "topology" => Topology!LeftoversAccounted

\* What is on disk is what its users take it for: the files of a helper that counts as
\* verified, the identity of an installed skill and its files after a refused install,
\* the version an update ends at, and the skills the registry's cache gives back.
OnDiskAsPromised ==
  /\ part = "engine" => Engine!VerifiedOnDisk
  /\ part = "install" =>
       Install!IdentityKept /\ Install!RefusedLeavesIntact /\ Install!UpdateSettles
  /\ part = "cache" => Cache!CacheFresh

\* What was recorded stays where it belongs: ratings and feedback over writers, crashes and
\* sync, the version of a skill a change replaced, and an answer with its question.
NothingLost ==
  /\ part = "ratings" => Ratings!RecordsDurable /\ Ratings!FeedbackOnce
  /\ part = "evolution" => Evolution!ReplacedIsNewest
  /\ part = "sessions" => Sessions!AnswersInContext

\* A result was earned by what it reports: the code of a workload, a proxy's handle, what
\* the observers of an execution hear, an answer and the skill it is credited to, the
\* steps of a plan and of a chain, and a gateway that serves.
ResultsEarned ==
  /\ part = "guest" => Guest!CodeReported
  /\ part = "launch" => Launch!HandleServed
  /\ part = "execution" => Exec!ObserversAgree /\ Exec!SuccessRan
  /\ part = "routing" => Routes!RoutedWhole /\ Routes!AnswerEarned
  /\ part = "plan" => Planner!ContextComplete /\ Planner!EachStepAnswered
  /\ part = "chain" => Chain!ValidGetsInputs /\ Chain!ChainWhole
  /\ part = "start" => Start!StartWhole

Begun ==
  \/ part = "guest" /\ start = "handshake"
  \/ part = "plan" /\ mode = "waves"
  \/ part = "start"

Ended ==
  \/ part = "guest" /\ Guest!RunAnswered
  \/ part = "plan" /\ Planner!PlanEnded
  \/ part = "start" /\ Start!ServiceSettled

\* What has begun ends: the handshake with a VM's helper and the run after it, in a result
\* or a failed start; a plan, answered or rejected; and the start of the gateway, serving
\* or failed unless it waits for a channel that polls.
AllEnd == Begun ~> Ended
=============================================================================
