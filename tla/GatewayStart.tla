---------------------------- MODULE GatewayStart -----------------------------
(***************************************************************************)
(* The start of the gateway (apps/cli/src/service.ts): the control plane   *)
(* with its agents, then all channels at once, then the HTTP gateway.      *)
(* Both singletons are checked before an await: getControlPlane()          *)
(* publishes before start() has ended, bootstrapEngine() after its last    *)
(* await.                                                                  *)
(***************************************************************************)
EXTENDS Integers, FiniteSets

CONSTANTS
  Chan,     \* the channels
  WebChat,  \* the one that is always configured
  Kind,     \* whether a channel listens on a port, connects to a platform, or polls
            \* one: Telegraf's launch() returns only when the bot stops
  Http,     \* the HTTP gateway
  Caller,   \* who asks for the control plane
  Service,  \* the caller that starts the service
  AgentCount\* agents to create: those configured, or the default one

StartAssumption ==
  /\ Kind \in [Chan -> {"listens", "connects", "polls"}]
  /\ IsFiniteSet(Chan) /\ WebChat \in Chan /\ Http \notin Chan /\ Service \in Caller
  /\ AgentCount \in Nat \ {0}

VARIABLES
  channels, \* those configured
  plane,    \* the control plane's singleton and its start()
  agents,   \* the agents in its pool
  planeCall,\* each caller's getControlPlane()
  agentsAt, \* the agents in the pool when it was answered
  service,  \* startService()
  boot,     \* each user's bootstrapEngine() and what follows it in its start
  engines,  \* the engines built; the number of one is the order it was published in
  engineOf, \* the engine each user has, 0 if none
  sawEngine \* the engine that was published when it asked, 0 if none

startVars == <<channels, plane, agents, planeCall, agentsAt, service, boot, engines, engineOf,
               sawEngine>>

Users == Chan \cup {Http}

StartTypeOK ==
  /\ channels \subseteq Chan /\ WebChat \in channels
  /\ plane \in {"none", "starting", "started", "failed"} /\ agents \in 0..AgentCount
  /\ planeCall \in [Caller -> {"none", "starting", "answered", "failed"}]
  /\ agentsAt \in [Caller -> 0..AgentCount]
  /\ service \in {"plane", "channels", "http", "up", "failed", "ended"}
  /\ boot \in [Users -> {"off", "syncing", "loading", "indexing", "built", "running", "failed"}]
  /\ engines \in 0..Cardinality(Users)
  /\ engineOf \in [Users -> 0..engines] /\ sawEngine \in [Users -> 0..engines]

StartInit ==
  /\ channels \in SUBSET Chan /\ WebChat \in channels
  /\ plane = "none" /\ agents = 0 /\ service = "plane" /\ engines = 0
  /\ planeCall = [c \in Caller |-> "none"] /\ agentsAt = [c \in Caller |-> 0]
  /\ boot = [u \in Users |-> "off"]
  /\ engineOf = [u \in Users |-> 0] /\ sawEngine = [u \in Users |-> 0]

Alive == service # "ended"
----------------------------------------------------------------------------
(***************************************************************************)
(* getControlPlane() and ControlPlane.start().                             *)
(***************************************************************************)

planeOnly == <<channels, service, boot, engines, engineOf, sawEngine>>

Answered(c) ==
  /\ planeCall' = [planeCall EXCEPT ![c] = "answered"]
  /\ agentsAt' = [agentsAt EXCEPT ![c] = agents']

\* The first caller publishes the control plane and waits for start(); the others have
\* what is published, as it is.
GetPlane(c) ==
  /\ Alive /\ planeCall[c] = "none"
  /\ IF plane = "none"
     THEN /\ plane' = "starting" /\ planeCall' = [planeCall EXCEPT ![c] = "starting"]
          /\ UNCHANGED <<agents, agentsAt>>
     ELSE UNCHANGED <<plane, agents>> /\ Answered(c)
  /\ UNCHANGED planeOnly

\* One agent after the other is created and added to the pool.
AddAgent ==
  /\ Alive /\ plane = "starting" /\ agents < AgentCount /\ agents' = agents + 1
  /\ UNCHANGED <<plane, planeCall, agentsAt, planeOnly>>

PlaneStarts(c) ==
  /\ Alive /\ plane = "starting" /\ planeCall[c] = "starting" /\ agents = AgentCount
  /\ plane' = "started" /\ agents' = agents /\ Answered(c)
  /\ UNCHANGED planeOnly

\* An agent cannot be created: start() fails, and the control plane stays published.
PlaneFails(c) ==
  /\ Alive /\ plane = "starting" /\ planeCall[c] = "starting" /\ agents < AgentCount
  /\ plane' = "failed" /\ planeCall' = [planeCall EXCEPT ![c] = "failed"]
  /\ service' = IF c = Service THEN "failed" ELSE service
  /\ UNCHANGED <<channels, agents, agentsAt, boot, engines, engineOf, sawEngine>>
----------------------------------------------------------------------------
(***************************************************************************)
(* bootstrapEngine().                                                      *)
(***************************************************************************)

bootOnly == <<channels, plane, agents, planeCall, agentsAt>>

\* What a user's call comes to before its first await: the engine that is published, or
\* the start of building one.
Asks(U) ==
  /\ boot' = [u \in Users |-> IF u \notin U THEN boot[u]
                              ELSE IF engines = 0 THEN "syncing" ELSE "built"]
  /\ engineOf' = [u \in Users |-> IF u \in U THEN engines ELSE engineOf[u]]
  /\ sawEngine' = [u \in Users |-> IF u \in U THEN engines ELSE sawEngine[u]]
  /\ UNCHANGED <<engines, bootOnly>>

\* The sync of the skills, whose failure is passed over, and the load of the registry.
BootStep(u) ==
  /\ Alive /\ boot[u] \in {"syncing", "loading"}
  /\ boot' = [boot EXCEPT ![u] = IF @ = "syncing" THEN "loading" ELSE "indexing"]
  /\ UNCHANGED <<service, engines, engineOf, sawEngine, bootOnly>>

\* The index is built: the engine replaces the one that another may have published.
Publish(u) ==
  /\ Alive /\ boot[u] = "indexing"
  /\ boot' = [boot EXCEPT ![u] = "built"]
  /\ engines' = engines + 1 /\ engineOf' = [engineOf EXCEPT ![u] = engines + 1]
  /\ UNCHANGED <<service, sawEngine, bootOnly>>

\* The load or the connection of a channel fails: the promise of all of them is
\* rejected, and the service with it, while the others go on.
StartFails(u) ==
  /\ Alive /\ u \in channels /\ boot[u] \in {"loading", "indexing", "built"}
  /\ boot' = [boot EXCEPT ![u] = "failed"]
  /\ service' = "failed"
  /\ UNCHANGED <<engines, engineOf, sawEngine, bootOnly>>

\* A port is in use: the server's error event has no listener.
ProcessEnds(u) ==
  /\ Alive /\ boot[u] = "built" /\ u \in {Http} \cup {c \in Chan : Kind[c] = "listens"}
  /\ service' = "ended"
  /\ UNCHANGED <<boot, engines, engineOf, sawEngine, bootOnly>>
----------------------------------------------------------------------------
(***************************************************************************)
(* startService().                                                         *)
(***************************************************************************)

StartChannels ==
  /\ Alive /\ service = "plane" /\ planeCall[Service] = "answered"
  /\ service' = "channels" /\ Asks(channels)

\* A channel is connected or listens.
ChannelRuns(u) ==
  /\ Alive /\ u \in Chan /\ boot[u] = "built"
  /\ boot' = [boot EXCEPT ![u] = "running"]
  /\ UNCHANGED <<service, engines, engineOf, sawEngine, bootOnly>>

\* Once the start() of every channel has returned, which that of a poller does not.
StartHttp ==
  /\ Alive /\ service = "channels"
  /\ \A u \in channels : boot[u] = "running" /\ Kind[u] # "polls"
  /\ service' = "http" /\ Asks({Http})

HttpListens ==
  /\ Alive /\ service = "http" /\ boot[Http] = "built" /\ service' = "up"
  /\ boot' = [boot EXCEPT ![Http] = "running"]
  /\ UNCHANGED <<engines, engineOf, sawEngine, bootOnly>>

StartNext ==
  \/ \E c \in Caller : GetPlane(c) \/ PlaneStarts(c) \/ PlaneFails(c)
  \/ AddAgent \/ StartChannels \/ StartHttp \/ HttpListens
  \/ \E u \in Users :
       BootStep(u) \/ Publish(u) \/ StartFails(u) \/ ProcessEnds(u) \/ ChannelRuns(u)

\* The event loop takes every callback in the end.
StartSpec == StartInit /\ [][StartNext]_startVars /\ WF_startVars(StartNext)
----------------------------------------------------------------------------
(***************************************************************************)
(* What the start promises.                                                *)
(***************************************************************************)

\* However many callers there are, one runs start(), and only one that came while it ran
\* or after it had failed has a control plane without its agents.  The HTTP gateway
\* serves only when every configured channel runs with an engine of its own, and it
\* serves with the one published last.
StartWhole ==
  /\ \A c, d \in Caller : planeCall[c] = "starting" /\ planeCall[d] = "starting" => c = d
  /\ \A c \in Caller : planeCall[c] = "answered" /\ agentsAt[c] < AgentCount =>
       \E d \in Caller \ {c} :
         \/ planeCall[d] \in {"starting", "failed"}
         \/ planeCall[d] = "answered" /\ agentsAt[d] = AgentCount
  /\ service = "up" =>
       /\ \A u \in channels : boot[u] = "running" /\ engineOf[u] # 0
       /\ \A u, v \in channels : engineOf[u] = engineOf[v] => u = v
       /\ engineOf[Http] = engines

\* The service ends in the HTTP gateway serving, in a failure or with its process,
\* unless a channel polls: then it waits for that channel to stop.
ServiceSettled ==
  service \in {"up", "failed", "ended"} \/ \E u \in channels : Kind[u] = "polls"
=============================================================================
