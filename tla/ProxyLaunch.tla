----------------------------- MODULE ProxyLaunch -----------------------------
(***************************************************************************)
(* One launch of the egress proxy: DefaultProxyLauncher.launch() and its   *)
(* cleanup (proxy/launcher.ts), the one-shot secret channel, and the life  *)
(* of the proxy, in this process or as a server of its own                 *)
(* (egress-proxy-server.ts).                                               *)
(***************************************************************************)

VARIABLES
  carrier,  \* where the proxy runs
  launch,   \* the await launch() is at; what became of it
  closing,  \* the await cleanup() is at
  caKey,    \* the launcher holds the key of the session CA
  frame,    \* the secret frame: unsent, sent or read
  server,   \* the proxy: none, reading, binding, listening, stopping, gone
  waited,   \* five seconds have passed since SIGTERM
  sidecar,  \* the container: none, up, gone, or stuck if docker rm failed
  lingers   \* a connection is open that only its peer can end

launchVars == <<carrier, launch, closing, caKey, frame, server, waited, sidecar, lingers>>

Carrier == {"in-process", "docker-sidecar", "linux-static"}

LaunchTypeOK ==
  /\ carrier \in Carrier
  /\ launch \in {"start", "writing", "booting", "connecting", "awaiting", "held",
                 "failing", "failed", "crashed"}
  /\ closing \in {"no", "proxy", "signal", "container", "done"}
  /\ caKey \in BOOLEAN /\ waited \in BOOLEAN /\ lingers \in BOOLEAN
  /\ frame \in {"unsent", "sent", "read"}
  /\ server \in {"none", "reading", "binding", "listening", "stopping", "gone"}
  /\ sidecar \in {"none", "up", "gone", "stuck"}

LaunchInit ==
  /\ carrier \in Carrier
  /\ launch = "start" /\ closing = "no" /\ caKey = TRUE /\ frame = "unsent"
  /\ server = "none" /\ waited = FALSE /\ sidecar = "none" /\ lingers = FALSE
----------------------------------------------------------------------------
(***************************************************************************)
(* cleanup().                                                              *)
(***************************************************************************)

\* What follows the await on the child: the container, or the end.
AfterChild == IF carrier = "docker-sidecar" /\ sidecar # "none" THEN "container" ELSE "done"

\* What SIGTERM, or close() of a proxy in this process, does to the proxy: one that
\* listens begins to stop; one that has no handler yet dies, unless it is the first
\* process of a container.
Signalled ==
  CASE server = "listening"              -> {"stopping"}
    [] server \in {"reading", "binding"} ->
         IF carrier = "docker-sidecar" THEN {"gone", server} ELSE {"gone"}
    [] OTHER                              -> {server}

\* Up to the first await.  A child gets SIGTERM, once, if it has no exit code: one
\* that a signal has ended has none either.
Cleanup ==
  /\ closing = "no"
  /\ caKey' = FALSE
  /\ closing' \in IF server = "none" THEN {AfterChild}
                  ELSE IF carrier = "in-process" THEN {"proxy"}
                  ELSE IF server = "gone" THEN {AfterChild, "signal"}
                  ELSE {"signal"}
  /\ server' \in Signalled
  /\ UNCHANGED <<carrier, frame, waited, sidecar, lingers>>

\* The end of cleanup() is the end of close(), or of launch() that then throws.
Ended == launch' = IF launch = "failing" THEN "failed" ELSE launch

\* The proxy in this process has closed: nothing bounds this wait.
ProxyClosed ==
  /\ closing = "proxy" /\ server = "gone"
  /\ closing' = "done" /\ Ended
  /\ UNCHANGED <<carrier, caKey, frame, server, waited, sidecar, lingers>>

\* The child has closed, or the timer of five seconds has fired.
ChildClosed ==
  /\ closing = "signal"
  /\ \/ server = "gone" /\ UNCHANGED waited
     \/ waited' = TRUE
  /\ closing' = AfterChild
  /\ IF AfterChild = "done" THEN Ended ELSE UNCHANGED launch
  /\ UNCHANGED <<carrier, caKey, frame, server, sidecar, lingers>>

\* docker rm -f and the two disconnects; their failures are swallowed.
ContainerRemoved ==
  /\ closing = "container"
  /\ sidecar' \in IF sidecar = "up" THEN {"gone", "stuck"} ELSE {sidecar}
  /\ server' = IF sidecar' = "gone" THEN "gone" ELSE server
  /\ closing' = "done" /\ Ended
  /\ UNCHANGED <<carrier, caKey, frame, waited, lingers>>
----------------------------------------------------------------------------
(***************************************************************************)
(* launch().                                                               *)
(***************************************************************************)

\* `catch`: the rest is cleanup().
Abort ==
  /\ Cleanup
  /\ launch' = IF closing' = "done" THEN "failed" ELSE "failing"

\* The bundle is written.  A proxy in this process listens at once; a server is
\* spawned, and the frame goes to its stdin or to its descriptor 3.  A binary that
\* cannot be spawned emits `error` before anybody listens to it: this process ends.
Begin ==
  /\ launch = "start"
  /\ \/ Abort
     \/ /\ carrier = "in-process"
        /\ server' = "listening" /\ launch' = "held"
        /\ UNCHANGED <<carrier, closing, caKey, frame, waited, sidecar, lingers>>
     \/ /\ carrier # "in-process"
        /\ server' = "reading" /\ launch' = "writing"
        /\ sidecar' = IF carrier = "docker-sidecar" THEN "up" ELSE "none"
        /\ UNCHANGED <<carrier, closing, caKey, frame, waited, lingers>>
     \/ /\ carrier # "in-process" /\ launch' = "crashed"
        /\ UNCHANGED <<carrier, closing, caKey, frame, server, waited, sidecar, lingers>>

\* writeTo(): the frame is written, zeroed, and the stream ended.
WriteFrame ==
  /\ launch = "writing"
  /\ \/ /\ frame' = "sent"
        /\ launch' = IF carrier = "docker-sidecar" THEN "booting" ELSE "awaiting"
        /\ UNCHANGED <<carrier, closing, caKey, server, waited, sidecar, lingers>>
     \/ Abort

\* waitForContainerRunning() and connectNetwork().
Docker ==
  /\ launch \in {"booting", "connecting"}
  /\ \/ /\ launch' = IF launch = "booting" THEN "connecting" ELSE "awaiting"
        /\ UNCHANGED <<carrier, closing, caKey, frame, server, waited, sidecar, lingers>>
     \/ Abort

\* waitForReady(): the ready line, or the timer, or the end of the child.
Ready ==
  /\ launch = "awaiting"
  /\ \/ /\ server = "listening" /\ launch' = "held"
        /\ UNCHANGED <<carrier, closing, caKey, frame, server, waited, sidecar, lingers>>
     \/ Abort

\* close() of the handle.
Close == launch = "held" /\ Cleanup /\ UNCHANGED launch
----------------------------------------------------------------------------
(***************************************************************************)
(* The proxy.                                                              *)
(***************************************************************************)

Server(next) ==
  /\ server' = next
  /\ sidecar' = IF next = "gone" /\ sidecar = "up" THEN "gone" ELSE sidecar
  /\ UNCHANGED <<carrier, launch, closing, caKey, waited>>

\* readOneShotSecrets(): one whole frame with the nonce, before anything is bound;
\* a frame that is late, too large, cut or not ours ends the server.
ReadFrame ==
  /\ server = "reading"
  /\ \/ frame = "sent" /\ frame' = "read" /\ Server("binding")
     \/ Server("gone") /\ UNCHANGED frame
  /\ UNCHANGED lingers

\* listen() and the ready line.
Bind ==
  /\ server = "binding"
  /\ Server("listening") \/ Server("gone")
  /\ UNCHANGED <<frame, lingers>>

\* A connection over the limit: only its peer ends it.
Linger ==
  /\ \/ server = "listening" /\ ~lingers
     \/ server \in {"listening", "stopping"} /\ lingers
  /\ lingers' = ~lingers
  /\ UNCHANGED <<carrier, launch, closing, caKey, frame, server, waited, sidecar>>

\* shutdown(): proxy.close() ends when no connection is left, then the server exits.
Stopped ==
  /\ server = "stopping" /\ ~lingers
  /\ Server("gone") /\ UNCHANGED <<frame, lingers>>

\* A server of its own may end at any time.
ServerDies ==
  /\ carrier # "in-process" /\ server \notin {"none", "gone"}
  /\ Server("gone") /\ lingers' = FALSE /\ UNCHANGED frame

LaunchSteps == Begin \/ WriteFrame \/ Docker \/ Ready
CleanupSteps == ProxyClosed \/ ChildClosed \/ ContainerRemoved

LaunchNext ==
  \/ Begin \/ WriteFrame \/ Docker \/ Ready \/ Close
  \/ ProxyClosed \/ ChildClosed \/ ContainerRemoved
  \/ ReadFrame \/ Bind \/ Linger \/ Stopped \/ ServerDies

LaunchSpec == LaunchInit /\ [][LaunchNext]_launchVars
----------------------------------------------------------------------------
(***************************************************************************)
(* Correctness.                                                            *)
(***************************************************************************)

\* When launch() has thrown, or close() has returned, the CA key is gone and so is
\* the proxy with its container, unless it sat out the five seconds or docker could
\* not remove it.
ProxyGone ==
  launch = "failed" \/ closing = "done" =>
    /\ ~caKey
    /\ server \in {"none", "gone"} \/ waited \/ sidecar = "stuck"
    /\ sidecar # "up"

\* A session gets its handle only for a proxy that has bound its port, and it binds
\* only with the secrets of this launch.
HandleServed ==
  launch = "held" => server \in {"listening", "stopping", "gone"}
                     /\ (carrier # "in-process" => frame = "read")
=============================================================================
