----------------------------- MODULE EgressProxy -----------------------------
(***************************************************************************)
(* The egress proxy of one execution (proxy/egress-proxy.ts) with its      *)
(* policy engine, header rules and DNS pinning: connections that take a    *)
(* slot, plain requests, CONNECT tunnels, and the hops of a request through*)
(* redirects.                                                              *)
(*                                                                         *)
(* A step is what the event loop runs between two awaits or events.  A     *)
(* managed header is one that a credential grant names.                    *)
(***************************************************************************)
EXTENDS Naturals, Sequences, FiniteSets

CONSTANTS
  Conn,         \* downstream connections
  MaxConns,     \* opts.maxConns, 32
  MaxRedirects, \* MAX_REDIRECTS, 10
  Target,       \* [scheme, host, port, method, path], as parsed
  Hosts,        \* policy.hosts: patterns
  Credentials,  \* policy.credentials: a sequence of grants
  Secret,       \* the grant keys that have a secret
  Covers,       \* <<pattern, host>>: the pattern names the host
  Under,        \* <<prefix, path>>: the prefix is above the path
  Wildcard,     \* the patterns with a star
  Suffix,       \* those of them that are a public suffix
  Literal,      \* the hosts that are IP literals
  Address,      \* answers of a lookup
  Private       \* addresses and literals in private ranges

ProxyAssumption ==
  /\ MaxConns \in Nat /\ MaxRedirects \in Nat
  /\ DOMAIN Credentials \subseteq Nat /\ Secret \cap {"none", "guest"} = {}

VARIABLES
  listening,  \* "up", "closing" or "closed"
  openConns, live,
  socket,     \* each connection: absent, tracked, refused or gone
  stage,      \* what is done for it
  tunnel,     \* the CONNECT authority it speaks to, if any
  hop         \* the request in flight, as it goes upstream

proxyVars == <<listening, openConns, live, socket, stage, tunnel, hop>>

NoOrigin == <<"none">>
NoTarget == [scheme |-> "none", host |-> "none", port |-> 0]

\* guest: the origin for which the guest supplied a managed header; managed: what
\* this hop sends in it; literal: the decision allows a private literal.
NoHop == [target |-> NoTarget, guest |-> NoOrigin, managed |-> "none",
          literal |-> FALSE, ip |-> "none", redirects |-> 0]
Waiting  == {"idle", "handshake", "secured"}
Busy     == {"reading", "resolving", "upstream"}

Grant == {Credentials[i] : i \in DOMAIN Credentials}
----------------------------------------------------------------------------
(***************************************************************************)
(* policy-engine.ts                                                        *)
(***************************************************************************)

\* Parsing, IDNA and brackets are what the pairs of Covers stand for.
hostMatches(pattern, host) == pattern \notin Suffix /\ <<pattern, host>> \in Covers

pathMatchesPrefix(prefix, path) == <<prefix, path>> \in Under

\* The ranges that are private, link-local, multicast or reserved, of either family.
isPrivateOrLinkLocal(address) == address \in Private

DefaultPort(scheme) == IF scheme = "https" THEN 443 ELSE 80

originOf(t) == <<t.scheme, t.host, t.port>>

\* decide() rules 2 and 3: a granted host, and a port that is the default one or
\* named by a credential.  The launcher passes no explicit targets.
allowed(t) ==
  /\ \E p \in Hosts : hostMatches(p, t.host)
  /\ \/ t.port = DefaultPort(t.scheme)
     \/ \E g \in Grant : g.scheme = t.scheme /\ g.port = t.port /\ hostMatches(g.host, t.host)

\* Rule 4.
allowPrivateLiteral(t) ==
  /\ t.host \in Literal /\ isPrivateOrLinkLocal(t.host)
  /\ \E p \in Hosts \ Wildcard : p = t.host

\* One turn of the loop of rule 5.
applies(g, t) ==
  /\ g.scheme = t.scheme /\ g.port = t.port /\ hostMatches(g.host, t.host)
  /\ t.method \in g.methods /\ pathMatchesPrefix(g.pathPrefix, t.path)
  /\ g.host \in Wildcard \/ g.pathPrefix = "/" => g.highRisk

\* Rule 5: the first that applies.
credential(t) ==
  LET hits == {i \in DOMAIN Credentials : applies(Credentials[i], t)} IN
  IF hits = {} THEN "none"
  ELSE Credentials[CHOOSE i \in hits : \A j \in hits : i <= j].key

\* injectCredential(): overwrites what the guest has supplied.
managedHeader(guest, t) ==
  IF credential(t) \in Secret THEN credential(t)
  ELSE IF guest = NoOrigin THEN "none" ELSE "guest"

\* resolveAndPin() rejects a private literal that is not granted, and any answer
\* that contains a private address.
Pins(h, answers) ==
  IF h.target.host \in Literal
  THEN IF isPrivateOrLinkLocal(h.target.host) /\ ~h.literal THEN {} ELSE {h.target.host}
  ELSE IF \E a \in answers : isPrivateOrLinkLocal(a) THEN {} ELSE answers
----------------------------------------------------------------------------
ProxyTypeOK ==
  /\ listening \in {"up", "closing", "closed"}
  /\ openConns \in 0..MaxConns
  /\ live \subseteq Conn
  /\ socket \in [Conn -> {"absent", "tracked", "refused", "gone"}]
  /\ stage \in [Conn -> Waiting \cup Busy]

ProxyInit ==
  /\ listening = "up" /\ openConns = 0 /\ live = {}
  /\ socket = [c \in Conn |-> "absent"]
  /\ stage  = [c \in Conn |-> "idle"]
  /\ tunnel = [c \in Conn |-> NoTarget]
  /\ hop    = [c \in Conn |-> NoHop]

Usable(c) == socket[c] \in {"tracked", "refused"}

\* trackSocket(): a connection over the limit is answered 503 and its writing
\* side ended; the parser stays attached to it.
Connect(c) ==
  /\ listening = "up" /\ socket[c] = "absent"
  /\ IF openConns >= MaxConns
     THEN /\ socket' = [socket EXCEPT ![c] = "refused"]
          /\ UNCHANGED <<openConns, live>>
     ELSE /\ socket' = [socket EXCEPT ![c] = "tracked"]
          /\ openConns' = openConns + 1
          /\ live' = live \cup {c}
  /\ UNCHANGED <<listening, stage, tunnel, hop>>

\* Slip: the listeners are attached before the limit is looked at.
ReleaseAny(S) ==
  /\ live' = live \ S
  /\ openConns' = LET n == Cardinality(S) IN IF openConns > n THEN openConns - n ELSE 0

\* release() of the sockets in S: `error` and `close` both call it, and the first call
\* counts.  Only an admitted socket has it.
Release(S) ==
  /\ live' = live \ S
  /\ openConns' = LET n == Cardinality(S \cap live) IN IF openConns > n THEN openConns - n ELSE 0

\* A socket ends, by its peer, an error, or destroy().
Ends(S) == socket' = [c \in Conn |-> IF c \in S THEN "gone" ELSE socket[c]] /\ Release(S)

Keeps == UNCHANGED <<socket, live, openConns>>

SocketCloses(c) ==
  /\ Usable(c) /\ Ends({c})
  /\ UNCHANGED <<listening, stage, tunnel, hop>>

\* The request is answered; the connection waits for the next one.
Answer(c) ==
  /\ stage' = [stage EXCEPT ![c] = IF tunnel[c] = NoTarget THEN "idle" ELSE "secured"]
  /\ hop'   = [hop EXCEPT ![c] = NoHop]

\* A request begins: its target, and whether the guest supplied a managed header.
Begins(c, t) ==
  /\ Usable(c)
  /\ stage' = [stage EXCEPT ![c] = "reading"]
  /\ \E guest \in {NoOrigin, originOf(t)} :
       hop' = [hop EXCEPT ![c] = [NoHop EXCEPT !.target = t, !.guest = guest]]
  /\ Keeps /\ UNCHANGED <<listening, tunnel>>

\* handleHttp(): a target in absolute form.  One that does not parse, or headers that
\* do not agree with it, are answered 400, which changes nothing.
Request(c) == stage[c] = "idle" /\ \E t \in Target : Begins(c, t)

\* handleInnerHttps(): the authority of an inner request is the tunnel's.
InnerRequest(c) ==
  /\ stage[c] = "secured"
  /\ \E t \in Target : originOf(t) = originOf(tunnel[c]) /\ Begins(c, t)

\* 413 and req.destroy().
BodyTooLarge(c) ==
  /\ Usable(c) /\ stage[c] = "reading"
  /\ Answer(c) /\ Ends({c})
  /\ UNCHANGED <<listening, tunnel>>

\* forward() up to its await: 403, or the lookup with the headers of this hop.
Forward(c, h) ==
  IF allowed(h.target)
  THEN /\ stage' = [stage EXCEPT ![c] = "resolving"]
       /\ hop'   = [hop EXCEPT ![c] = [h EXCEPT !.managed = managedHeader(h.guest, h.target),
                                                !.literal = allowPrivateLiteral(h.target)]]
  ELSE Answer(c)

BodyEnds(c) ==
  /\ Usable(c) /\ stage[c] = "reading"
  /\ Forward(c, hop[c])
  /\ Keeps /\ UNCHANGED <<listening, tunnel>>

\* The lookup answers: 403 or 502, or the request goes to the pinned address.
\* Nothing asks whether the client is still there.
Resolves(c) ==
  /\ stage[c] = "resolving"
  /\ \/ Answer(c)
     \/ \E answers \in SUBSET Address : \E ip \in Pins(hop[c], answers) :
          /\ stage' = [stage EXCEPT ![c] = "upstream"]
          /\ hop'   = [hop EXCEPT ![c].ip = ip]
  /\ Keeps /\ UNCHANGED <<listening, tunnel>>

\* Slip: headers of the guest are kept across origins.
NextHopKeeps(h, t) ==
  [NoHop EXCEPT !.target = t, !.redirects = h.redirects + 1, !.guest = h.guest]

\* What relayOrRedirect() passes to the next hop: never the injected headers, and
\* none of the guest's managed headers once the origin changes.
NextHop(h, t) ==
  [NoHop EXCEPT !.target = t, !.redirects = h.redirects + 1,
                !.guest = IF originOf(t) = originOf(h.target) THEN h.guest ELSE NoOrigin]

\* The response is relayed, too large, broken off, or a redirect that is followed:
\* with the same method, or with GET for a 303 and for a POST.
Responds(c) ==
  /\ stage[c] = "upstream"
  /\ \/ Answer(c)
     \/ \E t \in Target :
          /\ hop[c].redirects < MaxRedirects
          /\ t.method \in {hop[c].target.method, "GET"}
          /\ Forward(c, NextHop(hop[c], t))
  /\ Keeps /\ UNCHANGED <<listening, tunnel>>

\* handleConnect(): the authority is decided as a GET of its root.  A bad one ends
\* the socket, a denied one destroys it.
ConnectTunnel(c) ==
  /\ Usable(c) /\ stage[c] = "idle"
  /\ \E t \in Target :
       /\ t.scheme = "https"
       /\ IF allowed(t)
          THEN /\ stage'  = [stage EXCEPT ![c] = "handshake"]
               /\ tunnel' = [tunnel EXCEPT ![c] = t]
               /\ Keeps
          ELSE Ends({c}) /\ UNCHANGED <<stage, tunnel>>
  /\ UNCHANGED <<listening, hop>>

HandshakeDone(c) ==
  /\ Usable(c) /\ stage[c] = "handshake"
  /\ stage' = [stage EXCEPT ![c] = "secured"]
  /\ Keeps /\ UNCHANGED <<listening, tunnel, hop>>

\* The idle guard of the handshake, a TLS error, or an SNI that is not granted.
HandshakeFails(c) ==
  /\ Usable(c) /\ stage[c] = "handshake"
  /\ Ends({c})
  /\ UNCHANGED <<listening, stage, tunnel, hop>>

\* close(): destroys the live sockets.  The server has closed once every connection
\* is gone, the refused ones too, which nobody destroys.
Close ==
  /\ listening = "up" /\ listening' = "closing"
  /\ Ends(live)
  /\ UNCHANGED <<stage, tunnel, hop>>

Closed ==
  /\ listening = "closing" /\ \A c \in Conn : ~Usable(c)
  /\ listening' = "closed"
  /\ UNCHANGED <<openConns, live, socket, stage, tunnel, hop>>

ProxyNext ==
  \/ \E c \in Conn :
       \/ Connect(c) \/ SocketCloses(c) \/ Request(c) \/ InnerRequest(c)
       \/ BodyTooLarge(c) \/ BodyEnds(c) \/ Resolves(c) \/ Responds(c)
       \/ ConnectTunnel(c) \/ HandshakeDone(c) \/ HandshakeFails(c)
  \/ Close \/ Closed

ProxySpec == ProxyInit /\ [][ProxyNext]_proxyVars
----------------------------------------------------------------------------
(***************************************************************************)
(* Correctness.                                                            *)
(***************************************************************************)

\* The counter of slots is the number of connections that are open and were
\* admitted, whatever ended the others and how often: no slot is lost, none is
\* given twice, and after close() all are back.
SlotsExact ==
  /\ openConns = Cardinality(live)
  /\ live = {c \in Conn : socket[c] = "tracked"}
  /\ listening # "up" => live = {}

\* Whatever redirects led to it, a request that goes upstream has a granted host,
\* goes to no private address that was not granted by name, carries a secret only
\* if a grant covers this very hop, and carries a managed header of the guest only
\* to the origin the guest sent it to.
UpstreamGranted ==
  \A c \in Conn : stage[c] = "upstream" =>
    LET h == hop[c] IN
    /\ \E p \in Hosts \ Suffix : <<p, h.target.host>> \in Covers
    /\ h.ip \in Private => h.ip = h.target.host /\ h.ip \in Hosts
    /\ h.managed = "guest" => originOf(h.target) = h.guest
    /\ h.managed \in Secret =>
         \E g \in Grant : g.key = h.managed /\ applies(g, h.target)
=============================================================================
