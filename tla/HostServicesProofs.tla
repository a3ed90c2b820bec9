------------------------ MODULE HostServicesProofs ------------------------
(***************************************************************************)
(* The parts of Services that serve the sandbox - the egress proxy and its *)
(* launcher, the VM's engine and guest, the topology and the probe of the  *)
(* OS backend - and those of the gateway: keys, sessions, pairing and      *)
(* start.  For each part the inductive invariant, that it holds at first,  *)
(* that the part's steps keep it, and what follows from it, for every value*)
(* of the constants.                                                       *)
(***************************************************************************)
EXTENDS Services, FiniteSetTheorems, WellFoundedInduction, TLAPS

LEMMA Least ==
  ASSUME NEW S, S \subseteq Nat, S # {}
  PROVE  \E i \in S : \A j \in S : i <= j
<1>1. PICK i \in S : \A j \in S : ~(<<j, i>> \in OpToRel(<, Nat))
  BY WFMin, NatLessThanWellFounded
<1>2. \A j \in S : ~(j < i)
  BY <1>1 DEF OpToRel
<1> QED BY <1>2

LEMMA Greatest ==
  ASSUME NEW n \in Nat, NEW S, S \subseteq 1..n, S # {} PROVE \E m \in S : \A i \in S : i <= m
<1> DEFINE Back == {n - i : i \in S}
<1>1. Back \subseteq Nat
  <2>1. \A i \in S : n - i \in Nat
    OBVIOUS
  <2> QED BY <2>1
<1>0. Back # {}
  OBVIOUS
<1>2. PICK k \in Back : \A j \in Back : k <= j
  <2> HIDE DEF Back
  <2> QED BY <1>0, <1>1, Least
<1>3. PICK m \in S : k = n - m
  OBVIOUS
<1>4. \A i \in S : n - m <= n - i
  BY <1>2, <1>3
<1> QED BY <1>4

(***************************************************************************)
(* Slots.                                                                  *)
(***************************************************************************)
SlotInv ==
  /\ IsFiniteSet(live)
  /\ openConns = Cardinality(live)
  /\ socket \in [Conn -> {"absent", "tracked", "refused", "gone"}]
  /\ live = {c \in Conn : socket[c] = "tracked"}
  /\ listening # "up" => live = {}
  /\ listening \in {"up", "closing", "closed"}
  /\ openConns <= MaxConns

LEMMA LimitKnown == MaxConns \in Nat
BY ServicesAssumption DEF ServicesAssumption, Egress!ProxyAssumption

LEMMA EgressCardinality ==
  ASSUME NEW S PROVE Egress!Cardinality(S) = Cardinality(S)
BY DEF Egress!Cardinality, Cardinality

LEMMA ReleaseExact ==
  ASSUME SlotInv, NEW S, Egress!Release(S)
  PROVE  /\ live' = live \ S /\ IsFiniteSet(live') /\ openConns' = Cardinality(live')
         /\ openConns' <= MaxConns
<1>1. live' = live \ S
  BY DEF Egress!Release
<1>2. /\ Cardinality(live \ S) = Cardinality(live) - Cardinality(S \cap live)
      /\ IsFiniteSet(live \ S)
  <2>1. S \cap live = live \cap S
    OBVIOUS
  <2> QED BY <2>1, FS_Difference DEF SlotInv
<1>3. Cardinality(live) \in Nat /\ Cardinality(S \cap live) \in Nat
  <2>1. IsFiniteSet(live) /\ IsFiniteSet(S \cap live)
    BY FS_Intersection DEF SlotInv
  <2> QED BY <2>1, FS_CardinalityType
<1>4. Cardinality(S \cap live) <= Cardinality(live)
  BY FS_Intersection DEF SlotInv
<1>5. openConns' = IF openConns > Cardinality(S \cap live)
                   THEN openConns - Cardinality(S \cap live) ELSE 0
  BY EgressCardinality DEF Egress!Release
<1>6. openConns' = Cardinality(live) - Cardinality(S \cap live)
  BY <1>3, <1>4, <1>5 DEF SlotInv
<1>7. openConns' <= MaxConns
  BY <1>3, <1>6, LimitKnown DEF SlotInv
<1> QED BY <1>1, <1>2, <1>6, <1>7

LEMMA EndsExact ==
  ASSUME SlotInv, NEW S, Egress!Ends(S)
  PROVE  /\ IsFiniteSet(live') /\ openConns' = Cardinality(live')
         /\ socket' \in [Conn -> {"absent", "tracked", "refused", "gone"}]
         /\ live' = {c \in Conn : socket'[c] = "tracked"}
         /\ live' = live \ S /\ openConns' <= MaxConns
<1>1. /\ live' = live \ S /\ IsFiniteSet(live') /\ openConns' = Cardinality(live')
      /\ openConns' <= MaxConns
  BY ReleaseExact DEF Egress!Ends
<1>2. socket' = [c \in Conn |-> IF c \in S THEN "gone" ELSE socket[c]]
  BY DEF Egress!Ends
<1>3. live' = {c \in Conn : socket'[c] = "tracked"}
  BY <1>1, <1>2 DEF SlotInv
<1> QED BY <1>1, <1>2, <1>3 DEF SlotInv

LEMMA EndsKeepsSlots ==
  ASSUME SlotInv, NEW S, Egress!Ends(S), UNCHANGED listening
  PROVE  SlotInv'
BY EndsExact DEF SlotInv

LEMMA KeepsSlots ==
  ASSUME SlotInv, Egress!Keeps, UNCHANGED listening
  PROVE  SlotInv'
BY DEF SlotInv, Egress!Keeps

LEMMA ConnectSlots ==
  ASSUME SlotInv, NEW c \in Conn, Egress!Connect(c)
  PROVE  SlotInv'
<1>1. CASE openConns >= MaxConns
  <2>1. socket' = [socket EXCEPT ![c] = "refused"] /\ UNCHANGED <<openConns, live, listening>>
    BY <1>1 DEF Egress!Connect
  <2>2. socket[c] = "absent"
    BY DEF Egress!Connect
  <2> QED BY <2>1, <2>2 DEF SlotInv
<1>2. CASE ~(openConns >= MaxConns)
  <2>1. /\ socket' = [socket EXCEPT ![c] = "tracked"]
        /\ openConns' = openConns + 1
        /\ live' = live \cup {c}
        /\ listening = "up" /\ UNCHANGED listening
    BY <1>2 DEF Egress!Connect
  <2>2. socket[c] = "absent" /\ c \notin live
    BY DEF Egress!Connect, SlotInv
  <2>3. IsFiniteSet(live') /\ Cardinality(live') = Cardinality(live) + 1
    BY <2>1, <2>2, FS_AddElement DEF SlotInv
  <2>4. live' = {d \in Conn : socket'[d] = "tracked"}
    BY <2>1 DEF SlotInv
  <2>5. openConns' <= MaxConns
    <3>1. openConns \in Nat
      BY FS_CardinalityType DEF SlotInv
    <3> QED BY <1>2, <2>1, <3>1, LimitKnown
  <2> QED BY <2>1, <2>3, <2>4, <2>5 DEF SlotInv
<1> QED BY <1>1, <1>2

LEMMA CloseSlots ==
  ASSUME SlotInv, Egress!Close
  PROVE  SlotInv'
<1>1. live' = {}
  BY EndsExact DEF Egress!Close
<1> QED BY <1>1, EndsExact DEF Egress!Close, SlotInv

LEMMA StepSlots == SlotInv /\ [Egress!ProxyNext]_(Egress!proxyVars) => SlotInv'
<1> SUFFICES ASSUME SlotInv, [Egress!ProxyNext]_(Egress!proxyVars) PROVE SlotInv'
  OBVIOUS
<1>1. CASE UNCHANGED Egress!proxyVars
  BY <1>1 DEF Egress!proxyVars, SlotInv
<1>2. ASSUME NEW c \in Conn, Egress!Connect(c) PROVE SlotInv'
  BY <1>2, ConnectSlots
<1>3. ASSUME NEW c \in Conn, Egress!SocketCloses(c) \/ Egress!BodyTooLarge(c) \/ Egress!HandshakeFails(c)
      PROVE  SlotInv'
  BY <1>3, EndsKeepsSlots DEF Egress!SocketCloses, Egress!BodyTooLarge, Egress!HandshakeFails
<1>4. ASSUME NEW c \in Conn, Egress!Request(c) \/ Egress!InnerRequest(c)
      PROVE  SlotInv'
  BY <1>4, KeepsSlots DEF Egress!Request, Egress!InnerRequest, Egress!Begins
<1>5. ASSUME NEW c \in Conn, Egress!BodyEnds(c) \/ Egress!Resolves(c) \/ Egress!Responds(c) \/ Egress!HandshakeDone(c)
      PROVE  SlotInv'
  BY <1>5, KeepsSlots DEF Egress!BodyEnds, Egress!Resolves, Egress!Responds, Egress!HandshakeDone
<1>6. ASSUME NEW c \in Conn, Egress!ConnectTunnel(c) PROVE SlotInv'
  <2>1. Egress!Keeps \/ Egress!Ends({c})
    BY <1>6 DEF Egress!ConnectTunnel
  <2> QED BY <1>6, <2>1, KeepsSlots, EndsKeepsSlots DEF Egress!ConnectTunnel
<1>7. CASE Egress!Close
  BY <1>7, CloseSlots
<1>8. CASE Egress!Closed
  BY <1>8 DEF Egress!Closed, SlotInv
<1> QED BY <1>1, <1>2, <1>3, <1>4, <1>5, <1>6, <1>7, <1>8 DEF Egress!ProxyNext

LEMMA InitSlots == Egress!ProxyInit => SlotInv
<1> SUFFICES ASSUME Egress!ProxyInit PROVE SlotInv
  OBVIOUS
<1>1. live = {c \in Conn : socket[c] = "tracked"}
  BY DEF Egress!ProxyInit
<1> QED BY <1>1, FS_EmptySet, LimitKnown DEF Egress!ProxyInit, SlotInv

\* SlotsExact, about trackSocket() and release() of the egress proxy: for any number
\* of connections and of slots, the counter is the number of open admitted ones.
THEOREM ProxySlotsExact == Egress!ProxySpec => []Egress!SlotsExact
<1>1. SlotInv => Egress!SlotsExact
  BY EgressCardinality DEF SlotInv, Egress!SlotsExact
<1> QED BY <1>1, InitSlots, StepSlots, PTL DEF Egress!ProxySpec

(***************************************************************************)
(* Hops.  What a request is when it goes upstream was decided for its last *)
(* hop, and the guest's own header is for the origin of that hop.          *)
(***************************************************************************)
Hops == [target : Target \cup {Egress!NoTarget},
         guest  : {Egress!NoOrigin} \cup {Egress!originOf(t) : t \in Target \cup {Egress!NoTarget}},
         managed : Secret \cup {"none", "guest"}, literal : BOOLEAN,
         ip : Address \cup Literal \cup {"none"}, redirects : Nat]

OwnGuest(h) == h.guest \in {Egress!NoOrigin, Egress!originOf(h.target)}
Decided(h) ==
  /\ Egress!allowed(h.target)
  /\ h.managed = Egress!managedHeader(h.guest, h.target)
  /\ h.literal <=> Egress!allowPrivateLiteral(h.target)
PinnedHop(h) == \E answers \in SUBSET Address : h.ip \in Egress!Pins(h, answers)

GrantInv ==
  /\ stage \in [Conn -> Egress!Waiting \cup Egress!Busy]
  /\ hop \in [Conn -> Hops]
  /\ \A c \in Conn :
       /\ OwnGuest(hop[c])
       /\ stage[c] \in {"resolving", "upstream"} => Decided(hop[c])
       /\ stage[c] = "upstream" => PinnedHop(hop[c])

LEMMA HeaderKnown ==
  ASSUME NEW g, NEW t
  PROVE  Egress!managedHeader(g, t) \in Secret \cup {"none", "guest"}
BY DEF Egress!managedHeader

LEMMA NoHopKnown == Egress!NoHop \in Hops /\ OwnGuest(Egress!NoHop)
BY DEF Egress!NoHop, Hops, OwnGuest

LEMMA FreshHop ==
  ASSUME NEW t \in Target, NEW g \in {Egress!NoOrigin, Egress!originOf(t)}, NEW n \in Nat
  PROVE  LET h == [Egress!NoHop EXCEPT !.target = t, !.redirects = n, !.guest = g]
         IN  h \in Hops /\ OwnGuest(h)
BY DEF Egress!NoHop, Hops, OwnGuest

LEMMA AnswerGrants ==
  ASSUME GrantInv, NEW c \in Conn, Egress!Answer(c)
  PROVE  GrantInv'
<1>1. stage' \in [Conn -> Egress!Waiting \cup Egress!Busy] /\ stage'[c] \notin Egress!Busy
  BY DEF Egress!Answer, GrantInv, Egress!Waiting, Egress!Busy
<1>2. hop' \in [Conn -> Hops] /\ hop'[c] = Egress!NoHop
  BY NoHopKnown DEF Egress!Answer, GrantInv
<1>3. \A d \in Conn \ {c} : stage'[d] = stage[d] /\ hop'[d] = hop[d]
  BY DEF Egress!Answer, GrantInv
<1>4. \A d \in Conn : OwnGuest(hop'[d])
  BY <1>2, <1>3, NoHopKnown DEF GrantInv
<1> QED BY <1>1, <1>2, <1>3, <1>4 DEF GrantInv, Egress!Busy

LEMMA ForwardGrants ==
  ASSUME GrantInv, NEW c \in Conn, NEW h \in Hops, OwnGuest(h), Egress!Forward(c, h)
  PROVE  GrantInv'
<1>1. CASE ~Egress!allowed(h.target)
  BY <1>1, AnswerGrants DEF Egress!Forward
<1>2. CASE Egress!allowed(h.target)
  <2> DEFINE g == [h EXCEPT !.managed = Egress!managedHeader(h.guest, h.target),
                            !.literal = Egress!allowPrivateLiteral(h.target)]
  <2>1. stage' = [stage EXCEPT ![c] = "resolving"] /\ hop' = [hop EXCEPT ![c] = g]
    BY <1>2 DEF Egress!Forward
  <2>2. Egress!allowPrivateLiteral(h.target) \in BOOLEAN
    BY DEF Egress!allowPrivateLiteral
  <2>3. g \in Hops /\ g.target = h.target /\ g.guest = h.guest
        /\ g.managed = Egress!managedHeader(h.guest, h.target)
        /\ g.literal = Egress!allowPrivateLiteral(h.target)
    <3> HIDE DEF Egress!allowPrivateLiteral
    <3> QED BY <2>2, HeaderKnown DEF Hops
  <2> HIDE DEF g
  <2>4. OwnGuest(g) /\ Decided(g)
    BY <1>2, <2>3 DEF OwnGuest, Decided
  <2>5. /\ stage' \in [Conn -> Egress!Waiting \cup Egress!Busy] /\ stage'[c] = "resolving"
        /\ hop' \in [Conn -> Hops] /\ hop'[c] = g
    BY <2>1, <2>3 DEF GrantInv, Egress!Waiting, Egress!Busy
  <2>6. \A d \in Conn \ {c} : stage'[d] = stage[d] /\ hop'[d] = hop[d]
    BY <2>1 DEF GrantInv
  <2> QED BY <2>4, <2>5, <2>6 DEF GrantInv
<1> QED BY <1>1, <1>2

LEMMA BeginsGrants ==
  ASSUME GrantInv, NEW c \in Conn, NEW t \in Target, Egress!Begins(c, t)
  PROVE  GrantInv'
<1>1. PICK g \in {Egress!NoOrigin, Egress!originOf(t)} :
        hop' = [hop EXCEPT ![c] = [Egress!NoHop EXCEPT !.target = t, !.guest = g]]
  BY DEF Egress!Begins
<1> DEFINE h == [Egress!NoHop EXCEPT !.target = t, !.guest = g]
<1>2. h \in Hops /\ OwnGuest(h)
  BY DEF Egress!NoHop, Hops, OwnGuest
<1> HIDE DEF h
<1>3. stage' = [stage EXCEPT ![c] = "reading"] /\ hop' = [hop EXCEPT ![c] = h]
  BY <1>1 DEF Egress!Begins, h
<1>4. /\ stage' \in [Conn -> Egress!Waiting \cup Egress!Busy] /\ stage'[c] = "reading"
      /\ hop' \in [Conn -> Hops] /\ hop'[c] = h
      /\ \A d \in Conn \ {c} : stage'[d] = stage[d] /\ hop'[d] = hop[d]
  BY <1>2, <1>3 DEF GrantInv, Egress!Waiting, Egress!Busy
<1> QED BY <1>2, <1>4 DEF GrantInv

LEMMA ResolvesGrants ==
  ASSUME GrantInv, NEW c \in Conn, Egress!Resolves(c)
  PROVE  GrantInv'
<1>1. CASE Egress!Answer(c)
  BY <1>1, AnswerGrants
<1>2. CASE ~Egress!Answer(c)
  <2>0. PICK answers \in SUBSET Address : \E ip \in Egress!Pins(hop[c], answers) :
          /\ stage' = [stage EXCEPT ![c] = "upstream"]
          /\ hop'   = [hop EXCEPT ![c].ip = ip]
    BY <1>2 DEF Egress!Resolves
  <2>1. PICK ip \in Egress!Pins(hop[c], answers) :
          /\ stage' = [stage EXCEPT ![c] = "upstream"]
          /\ hop'   = [hop EXCEPT ![c].ip = ip]
    BY <2>0
  <2> DEFINE h == hop[c]
             g == [h EXCEPT !.ip = ip]
  <2>2. h \in Hops /\ OwnGuest(h) /\ Decided(h)
    BY DEF Egress!Resolves, GrantInv
  <2>3. ip \in Address \cup Literal
    BY <2>1 DEF Egress!Pins
  <2>4. g \in Hops /\ g.ip = ip /\ g.target = h.target /\ g.guest = h.guest
        /\ g.managed = h.managed /\ g.literal = h.literal
    BY <2>2, <2>3 DEF Hops
  <2>5. hop' = [hop EXCEPT ![c] = g]
    BY <2>1
  <2>6. ip \in Egress!Pins(g, answers)
    BY <2>1, <2>4 DEF Egress!Pins
  <2> HIDE DEF g, h
  <2>7. OwnGuest(g) /\ Decided(g) /\ PinnedHop(g)
    BY <2>2, <2>4, <2>6 DEF OwnGuest, Decided, PinnedHop
  <2>8. /\ stage' \in [Conn -> Egress!Waiting \cup Egress!Busy]
        /\ hop' \in [Conn -> Hops] /\ hop'[c] = g
        /\ \A d \in Conn \ {c} : stage'[d] = stage[d] /\ hop'[d] = hop[d]
    BY <2>1, <2>4, <2>5 DEF GrantInv, Egress!Waiting, Egress!Busy
  <2> QED BY <2>7, <2>8 DEF GrantInv
<1> QED BY <1>1, <1>2

LEMMA RespondsGrants ==
  ASSUME GrantInv, NEW c \in Conn, Egress!Responds(c)
  PROVE  GrantInv'
<1>1. CASE Egress!Answer(c)
  BY <1>1, AnswerGrants
<1>2. CASE ~Egress!Answer(c)
  <2>1. PICK t \in Target : Egress!Forward(c, Egress!NextHop(hop[c], t))
    BY <1>2 DEF Egress!Responds
  <2>2. hop[c] \in Hops /\ OwnGuest(hop[c])
    BY DEF GrantInv
  <2>3. hop[c].redirects + 1 \in Nat
    BY <2>2 DEF Hops
  <2>4. (IF Egress!originOf(t) = Egress!originOf(hop[c].target) THEN hop[c].guest ELSE Egress!NoOrigin)
          \in {Egress!NoOrigin, Egress!originOf(t)}
    BY <2>2 DEF OwnGuest
  <2>5. Egress!NextHop(hop[c], t) \in Hops /\ OwnGuest(Egress!NextHop(hop[c], t))
    BY <2>3, <2>4, FreshHop DEF Egress!NextHop
  <2> QED BY <2>1, <2>5, ForwardGrants
<1> QED BY <1>1, <1>2

LEMMA StageGrants ==
  ASSUME GrantInv, NEW c \in Conn, NEW s \in Egress!Waiting,
         stage' = [stage EXCEPT ![c] = s] \/ UNCHANGED stage, UNCHANGED hop
  PROVE  GrantInv'
<1>1. stage' \in [Conn -> Egress!Waiting \cup Egress!Busy]
  BY DEF GrantInv
<1>2. \A d \in Conn : stage'[d] \in {stage[d], s}
  BY DEF GrantInv
<1> QED BY <1>1, <1>2 DEF GrantInv, Egress!Waiting

LEMMA StepGrants == GrantInv /\ [Egress!ProxyNext]_(Egress!proxyVars) => GrantInv'
<1> SUFFICES ASSUME GrantInv, [Egress!ProxyNext]_(Egress!proxyVars) PROVE GrantInv'
  OBVIOUS
<1>1. CASE UNCHANGED <<stage, hop>>
  BY <1>1 DEF GrantInv
<1>2. ASSUME NEW c \in Conn, Egress!Request(c) \/ Egress!InnerRequest(c) PROVE GrantInv'
  BY <1>2, BeginsGrants DEF Egress!Request, Egress!InnerRequest
<1>3. ASSUME NEW c \in Conn, Egress!BodyTooLarge(c) PROVE GrantInv'
  BY <1>3, AnswerGrants DEF Egress!BodyTooLarge
<1>4. ASSUME NEW c \in Conn, Egress!BodyEnds(c) PROVE GrantInv'
  <2>1. hop[c] \in Hops /\ OwnGuest(hop[c])
    BY DEF GrantInv
  <2> QED BY <1>4, <2>1, ForwardGrants DEF Egress!BodyEnds
<1>5. ASSUME NEW c \in Conn, Egress!Resolves(c) PROVE GrantInv'
  BY <1>5, ResolvesGrants
<1>6. ASSUME NEW c \in Conn, Egress!Responds(c) PROVE GrantInv'
  BY <1>6, RespondsGrants
<1>7. ASSUME NEW c \in Conn, Egress!ConnectTunnel(c) PROVE GrantInv'
  <2>1. stage' = [stage EXCEPT ![c] = "handshake"] \/ UNCHANGED stage
    BY <1>7 DEF Egress!ConnectTunnel
  <2> QED BY <1>7, <2>1, StageGrants DEF Egress!ConnectTunnel, Egress!Waiting
<1>8. ASSUME NEW c \in Conn, Egress!HandshakeDone(c) PROVE GrantInv'
  BY <1>8, StageGrants DEF Egress!HandshakeDone, Egress!Waiting
<1>9. ASSUME NEW c \in Conn, Egress!Connect(c) \/ Egress!SocketCloses(c) \/ Egress!HandshakeFails(c)
      PROVE  GrantInv'
  BY <1>1, <1>9 DEF Egress!Connect, Egress!SocketCloses, Egress!HandshakeFails
<1>10. ASSUME Egress!Close \/ Egress!Closed PROVE GrantInv'
  BY <1>1, <1>10 DEF Egress!Close, Egress!Closed
<1>11. CASE UNCHANGED Egress!proxyVars
  BY <1>1, <1>11 DEF Egress!proxyVars
<1> QED BY <1>2, <1>3, <1>4, <1>5, <1>6, <1>7, <1>8, <1>9, <1>10, <1>11 DEF Egress!ProxyNext

LEMMA InitGrants == Egress!ProxyInit => GrantInv
BY NoHopKnown DEF Egress!ProxyInit, GrantInv, Egress!Waiting, Egress!Busy

\* The credential of a target is of a grant that applies to it, if it is one.
LEMMA CredentialApplies ==
  ASSUME Egress!ProxyAssumption, NEW t, Egress!credential(t) \in Secret
  PROVE  \E g \in Egress!Grant : g.key = Egress!credential(t) /\ Egress!applies(g, t)
<1> DEFINE hits == {i \in DOMAIN Credentials : Egress!applies(Credentials[i], t)}
<1>1. hits # {}
  BY DEF Egress!credential, Egress!ProxyAssumption
<1>2. hits \subseteq Nat
  BY DEF Egress!ProxyAssumption
<1>3. \E i \in hits : \A j \in hits : i <= j
  <2>1. PICK i \in hits : \A j \in hits : ~(<<j, i>> \in OpToRel(<, Nat))
    <3> HIDE DEF hits
    <3> QED BY <1>1, <1>2, WFMin, NatLessThanWellFounded
  <2>2. \A j \in hits : ~(j < i)
    BY <1>2, <2>1 DEF OpToRel
  <2> QED BY <1>2, <2>2
<1> DEFINE first == CHOOSE i \in hits : \A j \in hits : i <= j
<1>4. first \in hits
  <2> HIDE DEF hits
  <2> QED BY <1>3
<1>5. Egress!credential(t) = Credentials[first].key
  BY <1>1 DEF Egress!credential
<1>6. Credentials[first] \in Egress!Grant /\ Egress!applies(Credentials[first], t)
  BY <1>4 DEF Egress!Grant
<1> QED BY <1>5, <1>6

LEMMA GrantsImply == Egress!ProxyAssumption /\ GrantInv => Egress!UpstreamGranted
<1> SUFFICES ASSUME Egress!ProxyAssumption, GrantInv, NEW c \in Conn, stage[c] = "upstream"
             PROVE LET h == hop[c] IN
                   /\ \E p \in Hosts \ Suffix : <<p, h.target.host>> \in Covers
                   /\ h.ip \in Private => h.ip = h.target.host /\ h.ip \in Hosts
                   /\ h.managed = "guest" => Egress!originOf(h.target) = h.guest
                   /\ h.managed \in Secret =>
                        \E g \in Egress!Grant : g.key = h.managed /\ Egress!applies(g, h.target)
  BY DEF Egress!UpstreamGranted
<1> DEFINE h == hop[c]
<1>1. OwnGuest(h) /\ Decided(h) /\ PinnedHop(h)
  BY DEF GrantInv
<1> HIDE DEF h
<1>2. \E p \in Hosts \ Suffix : <<p, h.target.host>> \in Covers
  BY <1>1 DEF Decided, Egress!allowed, Egress!hostMatches
<1>3. h.ip \in Private => h.ip = h.target.host /\ h.ip \in Hosts
  <2>1. PICK answers \in SUBSET Address : h.ip \in Egress!Pins(h, answers)
    BY <1>1 DEF PinnedHop
  <2>2. CASE h.target.host \in Literal
    BY <1>1, <2>1, <2>2 DEF Egress!Pins, Decided, Egress!allowPrivateLiteral, Egress!isPrivateOrLinkLocal
  <2>3. CASE h.target.host \notin Literal
    BY <2>1, <2>3 DEF Egress!Pins, Egress!isPrivateOrLinkLocal
  <2> QED BY <2>2, <2>3
<1>4. h.managed = "guest" => Egress!originOf(h.target) = h.guest
  BY <1>1 DEF Decided, Egress!managedHeader, OwnGuest, Egress!ProxyAssumption
<1>5. h.managed \in Secret => h.managed = Egress!credential(h.target)
  BY <1>1 DEF Decided, Egress!managedHeader, Egress!ProxyAssumption
<1>6. h.managed \in Secret => \E g \in Egress!Grant : g.key = h.managed /\ Egress!applies(g, h.target)
  BY <1>5, CredentialApplies
<1> QED BY <1>2, <1>3, <1>4, <1>6 DEF h

\* UpstreamGranted, about the hops of a request through the proxy: for any policy, any
\* targets, answers of the DNS and number of redirects, what goes upstream is granted.
THEOREM ProxyUpstreamGranted == Egress!ProxyAssumption => (Egress!ProxySpec => []Egress!UpstreamGranted)
<1> SUFFICES ASSUME Egress!ProxyAssumption PROVE Egress!ProxySpec => []Egress!UpstreamGranted
  OBVIOUS
<1>1. GrantInv => Egress!UpstreamGranted
  BY GrantsImply
<1> QED BY <1>1, InitGrants, StepGrants, PTL DEF Egress!ProxySpec

LEMMA ProxyTyped == SlotInv /\ GrantInv => Egress!ProxyTypeOK
<1> SUFFICES ASSUME SlotInv, GrantInv PROVE Egress!ProxyTypeOK
  OBVIOUS
<1>1. openConns \in Nat
  BY FS_CardinalityType DEF SlotInv
<1> QED BY <1>1, LimitKnown DEF SlotInv, GrantInv, Egress!ProxyTypeOK

(***************************************************************************)
(* The launcher: what each stage of launch() and of cleanup() has behind   *)
(* it.                                                                     *)
(***************************************************************************)
Serving == {"binding", "listening", "stopping"}

LaunchStages ==
  /\ Launch!LaunchTypeOK
  /\ launch \in {"start", "writing", "booting", "connecting", "awaiting", "crashed"} =>
       closing = "no"
  /\ launch = "start" => server = "none" /\ sidecar = "none"
  /\ launch \in {"writing", "booting", "connecting", "awaiting"} =>
       carrier # "in-process" /\ server # "none"
  /\ launch \in {"start", "writing"} => frame = "unsent"
  /\ launch = "failing" => closing \in {"proxy", "signal", "container"}
  /\ launch = "failed" => closing = "done"

ServerInv ==
  /\ carrier # "in-process" /\ server \in Serving => frame = "read"
  /\ launch = "held" =>
       server \in {"listening", "stopping", "gone"} /\ (carrier # "in-process" => frame = "read")

CleanupInv ==
  /\ sidecar # "none" => carrier = "docker-sidecar"
  /\ sidecar = "gone" => server = "gone"
  /\ closing # "no" => ~caKey
  /\ closing = "proxy" => carrier = "in-process"
  /\ closing = "container" => sidecar # "none"
  /\ closing = "done" => /\ server \in {"none", "gone"} \/ waited \/ sidecar = "stuck"
                         /\ sidecar # "up"

LaunchInv == LaunchStages /\ ServerInv /\ CleanupInv

LEMMA LaunchStarts == Launch!LaunchInit => LaunchInv
BY DEF Launch!LaunchInit, Launch!Carrier, LaunchInv, LaunchStages, ServerInv, CleanupInv, Serving,
       Launch!LaunchTypeOK

\* cleanup() takes the key at once, and waits for what there is to wait for.
LEMMA CleanupBegins ==
  ASSUME LaunchInv, Launch!Cleanup
  PROVE  /\ launch = "held" => server' \in {"listening", "stopping", "gone"}
         /\ CleanupInv' /\ closing = "no" /\ closing' \in {"proxy", "signal", "container", "done"}
         /\ server' \in {"none", "reading", "binding", "listening", "stopping", "gone"}
         /\ server' \in Serving => server \in Serving
         /\ UNCHANGED <<carrier, frame, waited, sidecar, lingers>> /\ caKey' = FALSE
<1> USE DEF LaunchInv, LaunchStages, Launch!LaunchTypeOK, Launch!Carrier, Serving
<1>1. server' \in Launch!Signalled /\ closing = "no" /\ UNCHANGED <<carrier, frame, waited, sidecar, lingers>>
  BY DEF Launch!Cleanup
<1>2. /\ server' \in {"none", "reading", "binding", "listening", "stopping", "gone"}
      /\ server' \in Serving => server \in Serving
      /\ server \in {"none", "gone"} => server' = server
      /\ server \in {"listening", "stopping"} => server' = "stopping"
  BY <1>1 DEF Launch!Signalled
<1>3. closing' \in {"proxy", "signal", "container", "done"} /\ ~caKey'
  BY DEF Launch!Cleanup, Launch!AfterChild
<1>4. CleanupInv'
  BY <1>1, <1>2, <1>3 DEF Launch!Cleanup, Launch!AfterChild, CleanupInv
<1> QED BY <1>1, <1>2, <1>3, <1>4 DEF Launch!Cleanup, ServerInv

LEMMA AbortKeeps ==
  ASSUME LaunchInv, Launch!Abort, launch # "held" PROVE LaunchInv'
<1>1. Launch!Cleanup /\ launch' = IF closing' = "done" THEN "failed" ELSE "failing"
  BY DEF Launch!Abort
<1>2. LaunchStages'
  BY <1>1, CleanupBegins DEF LaunchInv, LaunchStages, Launch!LaunchTypeOK
<1>3. ServerInv'
  BY <1>1, CleanupBegins DEF LaunchInv, ServerInv
<1> QED BY <1>1, <1>2, <1>3, CleanupBegins DEF LaunchInv

LEMMA LaunchKeeps ==
  LaunchInv /\ [Launch!LaunchNext]_(Launch!launchVars) => LaunchInv'
<1> SUFFICES ASSUME LaunchInv, [Launch!LaunchNext]_(Launch!launchVars)
             PROVE  LaunchInv'
  OBVIOUS
<1> USE DEF LaunchInv, LaunchStages, ServerInv, CleanupInv, Serving, Launch!LaunchTypeOK
<1>0. CASE UNCHANGED Launch!launchVars
  BY <1>0 DEF Launch!launchVars
<1>1. CASE Launch!Begin
  <2>1. CASE Launch!Abort
    <3>1. launch # "held"
      BY <1>1 DEF Launch!Begin
    <3> QED BY <2>1, <3>1, AbortKeeps
  <2>2. CASE ~Launch!Abort
    BY <1>1, <2>2 DEF Launch!Begin
  <2> QED BY <2>1, <2>2
<1>2. CASE Launch!WriteFrame
  <2>1. CASE Launch!Abort
    <3>1. launch # "held"
      BY <1>2 DEF Launch!WriteFrame
    <3> QED BY <2>1, <3>1, AbortKeeps
  <2>2. CASE ~Launch!Abort
    BY <1>2, <2>2 DEF Launch!WriteFrame
  <2> QED BY <2>1, <2>2
<1>3. CASE Launch!Docker
  <2>1. CASE Launch!Abort
    <3>1. launch # "held"
      BY <1>3 DEF Launch!Docker
    <3> QED BY <2>1, <3>1, AbortKeeps
  <2>2. CASE ~Launch!Abort
    BY <1>3, <2>2 DEF Launch!Docker
  <2> QED BY <2>1, <2>2
<1>4. CASE Launch!Ready
  <2>1. CASE Launch!Abort
    <3>1. launch # "held"
      BY <1>4 DEF Launch!Ready
    <3> QED BY <2>1, <3>1, AbortKeeps
  <2>2. CASE ~Launch!Abort
    BY <1>4, <2>2 DEF Launch!Ready
  <2> QED BY <2>1, <2>2
<1>5. CASE Launch!Close
  BY <1>5, CleanupBegins DEF Launch!Close
<1>6. CASE Launch!ProxyClosed
  BY <1>6 DEF Launch!ProxyClosed, Launch!Server, Launch!Ended, Launch!AfterChild
<1>7. CASE Launch!ChildClosed
  BY <1>7 DEF Launch!ChildClosed, Launch!Server, Launch!Ended, Launch!AfterChild
<1>8. CASE Launch!ContainerRemoved
  BY <1>8 DEF Launch!ContainerRemoved, Launch!Server, Launch!Ended, Launch!AfterChild
<1>9. CASE Launch!ReadFrame
  BY <1>9 DEF Launch!ReadFrame, Launch!Server, Launch!Ended, Launch!AfterChild
<1>10. CASE Launch!Bind
  BY <1>10 DEF Launch!Bind, Launch!Server, Launch!Ended, Launch!AfterChild
<1>11. CASE Launch!Linger
  BY <1>11 DEF Launch!Linger, Launch!Server, Launch!Ended, Launch!AfterChild
<1>12. CASE Launch!Stopped
  BY <1>12 DEF Launch!Stopped, Launch!Server, Launch!Ended, Launch!AfterChild
<1>13. CASE Launch!ServerDies
  BY <1>13 DEF Launch!ServerDies, Launch!Server, Launch!Ended, Launch!AfterChild
<1> QED BY <1>0, <1>1, <1>2, <1>3, <1>4, <1>5, <1>6, <1>7, <1>8, <1>9, <1>10, <1>11,
    <1>12, <1>13 DEF Launch!LaunchNext

LEMMA LaunchFollows ==
  LaunchInv => Launch!ProxyGone /\ Launch!HandleServed /\ Launch!LaunchTypeOK
BY DEF LaunchInv, LaunchStages, ServerInv, CleanupInv, Launch!ProxyGone, Launch!HandleServed

(***************************************************************************)
(* The engine of the VM backend: whose each private directory is, and what *)
(* the backend still holds at each stage of its cleanup.                   *)
(***************************************************************************)
Holding == {"copying", "checking", "discarding"}
Ending  == {"remove", "unpin", "unverify", "wipe", "over"}

EngineTypes ==
  /\ prober \in [Engine!Prober -> {"idle", "clearing", "verifying", "copying", "checking",
                                   "discarding", "found", "unavailable"}]
  /\ made \in [Engine!Prober -> Engine!Dir \cup {Engine!NoDir}]
  /\ verified \in Engine!Dir \cup {Engine!NoDir}
  /\ dirs \subseteq Engine!Dir /\ superseded \subseteq Engine!Dir /\ leaked \subseteq Engine!Dir
  /\ vmStage # "probe" => prober["session"] = "found"

\* A directory a probe has made is its own; one it takes to remove is nobody's result.
DirsOwned ==
  /\ \A p \in Engine!Prober : prober[p] \in Holding =>
       /\ made[p] \in dirs \ leaked /\ made[p] # verified
       /\ \A q \in Engine!Prober \ {p} : made[q] # made[p]
  /\ \A p \in Engine!Prober : prober[p] = "clearing" => made[p] \notin {verified, Engine!NoDir}
  /\ \A p \in Engine!Prober :
       prober[p] \in {"idle", "verifying", "found", "unavailable"} =>
         made[p] = Engine!NoDir \/ (p = "session" /\ vmStage = "unverify")
  /\ dirs \subseteq {verified, made["session"], made["other"]} \cup superseded \cup leaked
  /\ leaked \subseteq dirs
  /\ verified # Engine!NoDir => verified \in dirs \ leaked \/ vmStage = "wipe"

BackendTypes ==
  /\ {wanted, opened, pin} \subseteq Ref \cup {NoRef}
  /\ mount \in {"no", "up", "stuck"} /\ bridge \in BOOLEAN /\ workDir \in BOOLEAN
  /\ helper \in {"none", "running", "gone"}
  /\ killer \in {"none", "sent", "threw", "swallowed"} /\ reported \subseteq {"helper", "workDir"}
  /\ vmStage \in {"probe", "prepare", "resolve", "hash", "assert", "mounted", "bind",
                  "skill image", "ca image", "prepared", "running", "failed",
                  "unbridge", "remove", "unpin", "unverify", "wipe", "over"}

BackendHolds ==
  /\ helper = "running" =>
       \/ vmStage = "running"
       \/ vmStage \in {"unbridge"} \cup Ending /\ killer # "none"
  /\ killer = "threw" => "helper" \in reported
  /\ opened # NoRef => vmStage = "hash"
  /\ mount = "up" => vmStage = "mounted"
  /\ bridge => vmStage \notin Ending
  /\ workDir => vmStage \notin Ending \ {"remove"} \/ "workDir" \in reported
  /\ pin # NoRef => vmStage \notin Ending \ {"remove", "unpin"}

EngineInv == EngineTypes /\ DirsOwned /\ BackendTypes /\ BackendHolds

LEMMA EngineFacts ==
  /\ Engine!NoDir \notin Engine!Dir /\ Engine!Prober = {"session", "other"}
  /\ NoRef \notin Ref
BY ServicesAssumption DEF ServicesAssumption, Engine!EngineAssumption, Engine!NoDir,
   Engine!Dir, Engine!Prober

LEMMA EngineStarts == Engine!EngineInit => EngineInv
BY EngineFacts DEF Engine!EngineInit, EngineInv, EngineTypes, DirsOwned, BackendTypes,
   BackendHolds, Holding, Ending

LEMMA EngineTypesKeep ==
  ASSUME EngineInv, Engine!EngineNext PROVE EngineTypes'
<1> USE EngineFacts DEF EngineInv, EngineTypes
<1>1. CASE \E p \in Engine!Prober : Engine!ProbeBegin(p)
  BY <1>1 DEF Engine!ProbeBegin, Engine!At, Engine!backendVars
<1>2. CASE \E p \in Engine!Prober : Engine!ProbeCleared(p)
  BY <1>2 DEF Engine!ProbeCleared, Engine!At, Engine!RemoveMade, Engine!backendVars
<1>3. CASE \E p \in Engine!Prober : Engine!ProbeVerified(p)
  BY <1>3 DEF Engine!ProbeVerified, Engine!At, Engine!backendVars
<1>4. CASE \E p \in Engine!Prober : Engine!ProbeCopied(p)
  BY <1>4 DEF Engine!ProbeCopied, Engine!At, Engine!backendVars
<1>5. CASE \E p \in Engine!Prober : Engine!ProbeChecked(p)
  BY <1>5 DEF Engine!ProbeChecked, Engine!At, Engine!backendVars
<1>6. CASE \E p \in Engine!Prober : Engine!ProbeDiscarded(p)
  BY <1>6 DEF Engine!ProbeDiscarded, Engine!At, Engine!RemoveMade, Engine!backendVars
<1>7. CASE Engine!ProbeOver
  BY <1>7 DEF Engine!ProbeOver, Engine!Stage, Engine!backendVars, Engine!probeVars
<1>8. CASE Engine!Chosen
  BY <1>8 DEF Engine!Chosen, Engine!Stage, Engine!backendVars, Engine!probeVars
<1>9. CASE Engine!Prepare
  BY <1>9 DEF Engine!Prepare, Engine!Stage, Engine!backendVars, Engine!probeVars
<1>10. CASE Engine!ResolveRootfs
  BY <1>10 DEF Engine!ResolveRootfs, Engine!Stage, Engine!backendVars, Engine!probeVars
<1>11. CASE Engine!PinRootfs
  BY <1>11 DEF Engine!PinRootfs, Engine!Stage, Engine!backendVars, Engine!probeVars
<1>12. CASE Engine!AssertQualified
  BY <1>12 DEF Engine!AssertQualified, Engine!Stage, Engine!backendVars, Engine!probeVars
<1>13. CASE Engine!Unmount
  BY <1>13 DEF Engine!Unmount, Engine!Stage, Engine!backendVars, Engine!probeVars
<1>14. CASE Engine!BindBridge
  BY <1>14 DEF Engine!BindBridge, Engine!Stage, Engine!backendVars, Engine!probeVars
<1>15. CASE Engine!BuildImage
  BY <1>15 DEF Engine!BuildImage, Engine!Stage, Engine!backendVars, Engine!probeVars
<1>16. CASE Engine!Start
  BY <1>16 DEF Engine!Start, Engine!Stage, Engine!backendVars, Engine!probeVars
<1>17. CASE Engine!HelperEnds
  BY <1>17 DEF Engine!HelperEnds, Engine!Stage, Engine!backendVars, Engine!probeVars
<1>18. CASE Engine!CollectorKills
  BY <1>18 DEF Engine!CollectorKills, Engine!probeVars
<1>19. CASE Engine!Cleanup
  BY <1>19 DEF Engine!Cleanup, Engine!Stage, Engine!backendVars, Engine!probeVars
<1>20. CASE Engine!StopBridge
  BY <1>20 DEF Engine!StopBridge, Engine!Stage, Engine!backendVars, Engine!probeVars
<1>21. CASE Engine!RemoveWorkDir
  BY <1>21 DEF Engine!RemoveWorkDir, Engine!Stage, Engine!backendVars, Engine!probeVars
<1>22. CASE Engine!Unpin
  BY <1>22 DEF Engine!Unpin, Engine!Stage, Engine!backendVars, Engine!probeVars
<1>23. CASE Engine!RemoveVerified
  BY <1>23 DEF Engine!RemoveVerified, Engine!RemoveMade, Engine!Stage, Engine!backendVars, Engine!probeVars
<1>24. CASE Engine!Forget
  BY <1>24 DEF Engine!Forget, Engine!Stage, Engine!backendVars, Engine!probeVars
<1> QED BY <1>1, <1>2, <1>3, <1>4, <1>5, <1>6, <1>7, <1>8, <1>9, <1>10, <1>11, <1>12,
    <1>13, <1>14, <1>15, <1>16, <1>17, <1>18, <1>19, <1>20, <1>21, <1>22, <1>23, <1>24 DEF
    Engine!EngineNext, Engine!Probe

\* A stage that touches no directory leaves them owned, but for the two that end the session's.
LEMMA DirsStay ==
  ASSUME DirsOwned, UNCHANGED <<prober, made, dirs, verified, superseded, leaked>>,
         vmStage' = vmStage \/ vmStage \notin {"unverify", "wipe"}
  PROVE  DirsOwned'
<1>1. \A p \in Engine!Prober : prober'[p] \in Holding =>
        /\ made'[p] \in dirs' \ leaked' /\ made'[p] # verified'
        /\ \A q \in Engine!Prober \ {p} : made'[q] # made'[p]
  BY DEF DirsOwned
<1>2. \A p \in Engine!Prober : prober'[p] = "clearing" => made'[p] \notin {verified', Engine!NoDir}
  BY DEF DirsOwned
<1>3. \A p \in Engine!Prober :
        prober'[p] \in {"idle", "verifying", "found", "unavailable"} =>
          made'[p] = Engine!NoDir \/ (p = "session" /\ vmStage' = "unverify")
  BY DEF DirsOwned
<1>4. /\ dirs' \subseteq {verified', made'["session"], made'["other"]} \cup superseded' \cup leaked'
      /\ leaked' \subseteq dirs'
  BY DEF DirsOwned
<1>5. verified' # Engine!NoDir => verified' \in dirs' \ leaked' \/ vmStage' = "wipe"
  BY DEF DirsOwned
<1> QED BY <1>1, <1>2, <1>3, <1>4, <1>5 DEF DirsOwned

LEMMA DirsKeep ==
  ASSUME EngineInv, Engine!EngineNext PROVE DirsOwned'
<1> USE EngineFacts DEF EngineInv, EngineTypes, DirsOwned, Holding
<1>1. CASE \E p \in Engine!Prober : Engine!ProbeBegin(p)
  BY <1>1 DEF Engine!ProbeBegin, Engine!At, Engine!backendVars
<1>2. CASE \E p \in Engine!Prober : Engine!ProbeCleared(p)
  BY <1>2 DEF Engine!ProbeCleared, Engine!At, Engine!RemoveMade, Engine!backendVars
<1>3. CASE \E p \in Engine!Prober : Engine!ProbeVerified(p)
  BY <1>3 DEF Engine!ProbeVerified, Engine!At, Engine!backendVars
<1>4. CASE \E p \in Engine!Prober : Engine!ProbeCopied(p)
  BY <1>4 DEF Engine!ProbeCopied, Engine!At, Engine!backendVars
<1>5. CASE \E p \in Engine!Prober : Engine!ProbeChecked(p)
  BY <1>5 DEF Engine!ProbeChecked, Engine!At, Engine!backendVars
<1>6. CASE \E p \in Engine!Prober : Engine!ProbeDiscarded(p)
  BY <1>6 DEF Engine!ProbeDiscarded, Engine!At, Engine!RemoveMade, Engine!backendVars
<1>7. CASE Engine!ProbeOver
  BY <1>7 DEF Engine!ProbeOver, Engine!Stage, Engine!backendVars, Engine!probeVars
<1>8. CASE Engine!Chosen
  <2>1. /\ UNCHANGED <<prober, made, dirs, verified, superseded, leaked>>
        /\ vmStage' = vmStage \/ vmStage \notin {"unverify", "wipe"}
    BY ONLY <1>8 DEF Engine!Chosen, Engine!Stage, Engine!backendVars, Engine!probeVars
  <2> QED BY ONLY EngineInv, <2>1, DirsStay DEF EngineInv
<1>9. CASE Engine!Prepare
  <2>1. /\ UNCHANGED <<prober, made, dirs, verified, superseded, leaked>>
        /\ vmStage' = vmStage \/ vmStage \notin {"unverify", "wipe"}
    BY ONLY <1>9 DEF Engine!Prepare, Engine!Stage, Engine!backendVars, Engine!probeVars
  <2> QED BY ONLY EngineInv, <2>1, DirsStay DEF EngineInv
<1>10. CASE Engine!ResolveRootfs
  <2>1. /\ UNCHANGED <<prober, made, dirs, verified, superseded, leaked>>
        /\ vmStage' = vmStage \/ vmStage \notin {"unverify", "wipe"}
    BY ONLY <1>10 DEF Engine!ResolveRootfs, Engine!Stage, Engine!backendVars, Engine!probeVars
  <2> QED BY ONLY EngineInv, <2>1, DirsStay DEF EngineInv
<1>11. CASE Engine!PinRootfs
  <2>1. /\ UNCHANGED <<prober, made, dirs, verified, superseded, leaked>>
        /\ vmStage' = vmStage \/ vmStage \notin {"unverify", "wipe"}
    BY ONLY <1>11 DEF Engine!PinRootfs, Engine!Stage, Engine!backendVars, Engine!probeVars
  <2> QED BY ONLY EngineInv, <2>1, DirsStay DEF EngineInv
<1>12. CASE Engine!AssertQualified
  <2>1. /\ UNCHANGED <<prober, made, dirs, verified, superseded, leaked>>
        /\ vmStage' = vmStage \/ vmStage \notin {"unverify", "wipe"}
    BY ONLY <1>12 DEF Engine!AssertQualified, Engine!Stage, Engine!backendVars, Engine!probeVars
  <2> QED BY ONLY EngineInv, <2>1, DirsStay DEF EngineInv
<1>13. CASE Engine!Unmount
  <2>1. /\ UNCHANGED <<prober, made, dirs, verified, superseded, leaked>>
        /\ vmStage' = vmStage \/ vmStage \notin {"unverify", "wipe"}
    BY ONLY <1>13 DEF Engine!Unmount, Engine!Stage, Engine!backendVars, Engine!probeVars
  <2> QED BY ONLY EngineInv, <2>1, DirsStay DEF EngineInv
<1>14. CASE Engine!BindBridge
  <2>1. /\ UNCHANGED <<prober, made, dirs, verified, superseded, leaked>>
        /\ vmStage' = vmStage \/ vmStage \notin {"unverify", "wipe"}
    BY ONLY <1>14 DEF Engine!BindBridge, Engine!Stage, Engine!backendVars, Engine!probeVars
  <2> QED BY ONLY EngineInv, <2>1, DirsStay DEF EngineInv
<1>15. CASE Engine!BuildImage
  <2>1. /\ UNCHANGED <<prober, made, dirs, verified, superseded, leaked>>
        /\ vmStage' = vmStage \/ vmStage \notin {"unverify", "wipe"}
    BY ONLY <1>15 DEF Engine!BuildImage, Engine!Stage, Engine!backendVars, Engine!probeVars
  <2> QED BY ONLY EngineInv, <2>1, DirsStay DEF EngineInv
<1>16. CASE Engine!Start
  <2>1. /\ UNCHANGED <<prober, made, dirs, verified, superseded, leaked>>
        /\ vmStage' = vmStage \/ vmStage \notin {"unverify", "wipe"}
    BY ONLY <1>16 DEF Engine!Start, Engine!Stage, Engine!backendVars, Engine!probeVars
  <2> QED BY ONLY EngineInv, <2>1, DirsStay DEF EngineInv
<1>17. CASE Engine!HelperEnds
  <2>1. /\ UNCHANGED <<prober, made, dirs, verified, superseded, leaked>>
        /\ vmStage' = vmStage \/ vmStage \notin {"unverify", "wipe"}
    BY ONLY <1>17 DEF Engine!HelperEnds, Engine!Stage, Engine!backendVars, Engine!probeVars
  <2> QED BY ONLY EngineInv, <2>1, DirsStay DEF EngineInv
<1>18. CASE Engine!CollectorKills
  <2>1. /\ UNCHANGED <<prober, made, dirs, verified, superseded, leaked>>
        /\ vmStage' = vmStage \/ vmStage \notin {"unverify", "wipe"}
    BY ONLY <1>18 DEF Engine!CollectorKills, Engine!probeVars
  <2> QED BY ONLY EngineInv, <2>1, DirsStay DEF EngineInv
<1>19. CASE Engine!Cleanup
  <2>1. /\ UNCHANGED <<prober, made, dirs, verified, superseded, leaked>>
        /\ vmStage' = vmStage \/ vmStage \notin {"unverify", "wipe"}
    BY ONLY <1>19 DEF Engine!Cleanup, Engine!Stage, Engine!backendVars, Engine!probeVars
  <2> QED BY ONLY EngineInv, <2>1, DirsStay DEF EngineInv
<1>20. CASE Engine!StopBridge
  <2>1. /\ UNCHANGED <<prober, made, dirs, verified, superseded, leaked>>
        /\ vmStage' = vmStage \/ vmStage \notin {"unverify", "wipe"}
    BY ONLY <1>20 DEF Engine!StopBridge, Engine!Stage, Engine!backendVars, Engine!probeVars
  <2> QED BY ONLY EngineInv, <2>1, DirsStay DEF EngineInv
<1>21. CASE Engine!RemoveWorkDir
  <2>1. /\ UNCHANGED <<prober, made, dirs, verified, superseded, leaked>>
        /\ vmStage' = vmStage \/ vmStage \notin {"unverify", "wipe"}
    BY ONLY <1>21 DEF Engine!RemoveWorkDir, Engine!Stage, Engine!backendVars, Engine!probeVars
  <2> QED BY ONLY EngineInv, <2>1, DirsStay DEF EngineInv
<1>22. CASE Engine!Unpin
  BY <1>22 DEF Engine!Unpin, Engine!Stage, Engine!backendVars, Engine!probeVars
<1>23. CASE Engine!RemoveVerified
  BY <1>23 DEF Engine!RemoveVerified, Engine!RemoveMade, Engine!Stage, Engine!backendVars, Engine!probeVars
<1>24. CASE Engine!Forget
  BY <1>24 DEF Engine!Forget, Engine!Stage, Engine!backendVars, Engine!probeVars
<1> QED BY <1>1, <1>2, <1>3, <1>4, <1>5, <1>6, <1>7, <1>8, <1>9, <1>10, <1>11, <1>12,
    <1>13, <1>14, <1>15, <1>16, <1>17, <1>18, <1>19, <1>20, <1>21, <1>22, <1>23, <1>24 DEF
    Engine!EngineNext, Engine!Probe

LEMMA BackendStays ==
  ASSUME EngineInv, UNCHANGED Engine!backendVars, UNCHANGED vmStage
  PROVE  BackendTypes' /\ BackendHolds'
<1>1. UNCHANGED <<wanted, opened, pin, mount, bridge, workDir, helper, killer, reported, vmStage>>
  BY DEF Engine!backendVars, Engine!killVars
<1>2. BackendTypes'
  BY <1>1 DEF EngineInv, BackendTypes
<1>3. BackendHolds'
  BY <1>1 DEF EngineInv, BackendHolds
<1> QED BY <1>2, <1>3

LEMMA BackendKeeps ==
  ASSUME EngineInv, Engine!EngineNext PROVE BackendTypes' /\ BackendHolds'
<1> USE EngineFacts DEF EngineInv, BackendTypes, BackendHolds, Ending, Engine!killVars
<1>1. CASE \E p \in Engine!Prober : Engine!ProbeBegin(p)
  BY <1>1, BackendStays DEF Engine!ProbeBegin
<1>2. CASE \E p \in Engine!Prober : Engine!ProbeCleared(p)
  BY <1>2, BackendStays DEF Engine!ProbeCleared
<1>3. CASE \E p \in Engine!Prober : Engine!ProbeVerified(p)
  BY <1>3, BackendStays DEF Engine!ProbeVerified
<1>4. CASE \E p \in Engine!Prober : Engine!ProbeCopied(p)
  BY <1>4, BackendStays DEF Engine!ProbeCopied
<1>5. CASE \E p \in Engine!Prober : Engine!ProbeChecked(p)
  BY <1>5, BackendStays DEF Engine!ProbeChecked
<1>6. CASE \E p \in Engine!Prober : Engine!ProbeDiscarded(p)
  BY <1>6, BackendStays DEF Engine!ProbeDiscarded
<1>7. CASE Engine!ProbeOver
  BY <1>7, BackendStays DEF Engine!ProbeOver
<1>8. CASE Engine!Chosen
  BY <1>8 DEF Engine!Chosen, Engine!Stage, Engine!backendVars, Engine!probeVars
<1>9. CASE Engine!Prepare
  BY <1>9 DEF Engine!Prepare, Engine!Stage, Engine!backendVars, Engine!probeVars
<1>10. CASE Engine!ResolveRootfs
  BY <1>10 DEF Engine!ResolveRootfs, Engine!Stage, Engine!backendVars, Engine!probeVars
<1>11. CASE Engine!PinRootfs
  BY <1>11 DEF Engine!PinRootfs, Engine!Stage, Engine!backendVars, Engine!probeVars
<1>12. CASE Engine!AssertQualified
  BY <1>12 DEF Engine!AssertQualified, Engine!Stage, Engine!backendVars, Engine!probeVars
<1>13. CASE Engine!Unmount
  BY <1>13 DEF Engine!Unmount, Engine!Stage, Engine!backendVars, Engine!probeVars
<1>14. CASE Engine!BindBridge
  BY <1>14 DEF Engine!BindBridge, Engine!Stage, Engine!backendVars, Engine!probeVars
<1>15. CASE Engine!BuildImage
  BY <1>15 DEF Engine!BuildImage, Engine!Stage, Engine!backendVars, Engine!probeVars
<1>16. CASE Engine!Start
  BY <1>16 DEF Engine!Start, Engine!Stage, Engine!backendVars, Engine!probeVars
<1>17. CASE Engine!HelperEnds
  BY <1>17 DEF Engine!HelperEnds, Engine!Stage, Engine!backendVars, Engine!probeVars
<1>18. CASE Engine!CollectorKills
  BY <1>18 DEF Engine!CollectorKills, Engine!probeVars
<1>19. CASE Engine!Cleanup
  BY <1>19 DEF Engine!Cleanup, Engine!Stage, Engine!backendVars, Engine!probeVars
<1>20. CASE Engine!StopBridge
  BY <1>20 DEF Engine!StopBridge, Engine!Stage, Engine!backendVars, Engine!probeVars
<1>21. CASE Engine!RemoveWorkDir
  BY <1>21 DEF Engine!RemoveWorkDir, Engine!Stage, Engine!backendVars, Engine!probeVars
<1>22. CASE Engine!Unpin
  BY <1>22 DEF Engine!Unpin, Engine!Stage, Engine!backendVars, Engine!probeVars
<1>23. CASE Engine!RemoveVerified
  BY <1>23 DEF Engine!RemoveVerified, Engine!RemoveMade, Engine!Stage, Engine!backendVars, Engine!probeVars
<1>24. CASE Engine!Forget
  BY <1>24 DEF Engine!Forget, Engine!Stage, Engine!backendVars, Engine!probeVars
<1> QED BY <1>1, <1>2, <1>3, <1>4, <1>5, <1>6, <1>7, <1>8, <1>9, <1>10, <1>11, <1>12,
    <1>13, <1>14, <1>15, <1>16, <1>17, <1>18, <1>19, <1>20, <1>21, <1>22, <1>23, <1>24 DEF
    Engine!EngineNext, Engine!Probe

LEMMA EngineStill ==
  ASSUME EngineInv, UNCHANGED Engine!engineVars PROVE EngineInv'
<1>1. /\ UNCHANGED <<vmStage, prober, made, dirs, verified, superseded, leaked>>
      /\ UNCHANGED Engine!backendVars
  BY DEF Engine!engineVars, Engine!backendVars, Engine!killVars
<1>2. EngineTypes' /\ DirsOwned'
  BY <1>1, DirsStay DEF EngineInv, EngineTypes
<1> QED BY <1>1, <1>2, BackendStays DEF EngineInv

LEMMA EngineKeeps ==
  EngineInv /\ [Engine!EngineNext]_(Engine!engineVars) => EngineInv'
<1> SUFFICES ASSUME EngineInv, [Engine!EngineNext]_(Engine!engineVars)
             PROVE  EngineInv'
  OBVIOUS
<1>1. CASE UNCHANGED Engine!engineVars
  BY <1>1, EngineStill
<1>2. CASE Engine!EngineNext
  BY <1>2, EngineTypesKeep, DirsKeep, BackendKeeps DEF EngineInv
<1> QED BY <1>1, <1>2

LEMMA EngineFollows ==
  EngineInv => Engine!VerifiedOnDisk /\ Engine!EngineReleased /\ Engine!EngineTypeOK
BY EngineFacts DEF EngineInv, EngineTypes, DirsOwned, BackendTypes, BackendHolds, Ending,
   Engine!VerifiedOnDisk, Engine!EngineReleased, Engine!EngineTypeOK

(***************************************************************************)
(* The VM: what its channel carries tells what its first process has done. *)
(***************************************************************************)
In(f, frames) == \E i \in DOMAIN frames : frames[i] = f
HasExit(frames) == \E c \in Guest!Code : In(Guest!Exit(c), frames)
BeforePort == {"off", "mounting", "deciding"}

GuestStages ==
  /\ guest \in {"off", "mounting", "deciding", "ready", "working", "settling", "halted",
                "crashed"}
  /\ helperOf \in {"none", "running", "killed", "dead", "slain", "failed"}
  /\ start \in {"spawning", "handshake", "up", "failed"}
  /\ settled \in {"no", "frame", "eof", "timer"}
  /\ killedBy \in {"none", "start", "collector", "caller"}
  /\ capped \in {"none", "timeout", "overflow"}
  /\ start \in {"spawning", "handshake"} => killedBy = "none"
  /\ start = "spawning" => helperOf = "none"
  /\ start = "failed" => helperOf # "running"

GuestCodes ==
  /\ worker \in Guest!Code \cup {Guest!NoCode} /\ guestExit \in Guest!Code \cup {Guest!NoCode}
  /\ status \in {Guest!NoCode, 0, 1, Guest!Killed}
  /\ result \in Guest!Code \cup {Guest!NoCode, Guest!Killed}
  /\ tx \in Seq(Guest!Frame) /\ pipe \in Seq(Guest!Frame)

\* Only a workload that ends with 0 sends 0, and one that is working has sent nothing.
WorkerInv ==
  /\ worker # Guest!NoCode => guest \in {"settling", "halted", "crashed"}
  /\ helperOf = "dead" => guest = "halted" \/ (guest = "crashed" /\ worker = Guest!NoCode)
  /\ guest = "halted" => tx = <<>> /\ helperOf = "dead"
  /\ guest = "crashed" => helperOf \in {"dead", "slain", "failed"}
  /\ In(Guest!Exit(0), tx) \/ In(Guest!Exit(0), pipe) \/ guestExit = 0 => worker = 0

\* A guest that got ready before it settled has sent a code.
ReadyInv ==
  LET wasReady == In(Guest!Ready, tx) \/ In(Guest!Ready, pipe) \/ start = "up"
  IN  /\ wasReady => guest \notin BeforePort
      /\ wasReady /\ guest \in {"settling", "halted"} =>
           HasExit(tx) \/ HasExit(pipe) \/ guestExit # Guest!NoCode

HostInv ==
  /\ status # Guest!NoCode => helperOf \in {"dead", "slain", "failed"}
  /\ status = 0 => helperOf = "dead"
  /\ settled = "frame" => guestExit # Guest!NoCode
  /\ settled = "eof" => helperOf \in {"dead", "slain", "failed"} /\ pipe = <<>>
  /\ result # Guest!NoCode => start = "up" /\ status # Guest!NoCode /\ settled # "no"
  /\ Guest!CodeReported

GuestInv == GuestStages /\ GuestCodes /\ WorkerInv /\ ReadyInv /\ HostInv

LEMMA GuestFacts ==
  /\ Guest!Code = {0, 1, 127} /\ Guest!NoCode = -1 /\ Guest!Killed = 137
  /\ Guest!Ready \in Guest!Frame /\ Guest!Refusal \in Guest!Frame /\ Guest!Noise \in Guest!Frame
  /\ \A c \in Guest!Code : Guest!Exit(c) \in Guest!Frame
  /\ Guest!Rejected \in Guest!Code /\ Guest!Rejected # 0
  /\ \A c, d \in Guest!Code : Guest!Exit(c) = Guest!Exit(d) => c = d
  /\ \A c \in Guest!Code : Guest!Exit(c) \notin {Guest!Ready, Guest!Refusal, Guest!Noise}
  /\ Guest!Ready \notin {Guest!Refusal, Guest!Noise}
BY DEF Guest!Code, Guest!NoCode, Guest!Killed, Guest!Ready, Guest!Refusal, Guest!Noise,
   Guest!Exit, Guest!Frame, Guest!Rejected

LEMMA InAppended ==
  ASSUME NEW a \in Seq(Guest!Frame), NEW b \in Seq(Guest!Frame), NEW f
  PROVE  In(f, a \o b) <=> In(f, a) \/ In(f, b)
<1>1. ASSUME NEW i \in DOMAIN a PROVE i \in DOMAIN (a \o b) /\ (a \o b)[i] = a[i]
  OBVIOUS
<1>2. ASSUME NEW i \in DOMAIN b
      PROVE  Len(a) + i \in DOMAIN (a \o b) /\ (a \o b)[Len(a) + i] = b[i]
  OBVIOUS
<1>3. ASSUME NEW i \in DOMAIN (a \o b)
      PROVE  \/ i \in DOMAIN a /\ (a \o b)[i] = a[i]
             \/ i - Len(a) \in DOMAIN b /\ (a \o b)[i] = b[i - Len(a)]
  OBVIOUS
<1> QED BY <1>1, <1>2, <1>3 DEF In

LEMMA InRead ==
  ASSUME NEW a \in Seq(Guest!Frame), NEW n \in 1..Len(a), NEW f
  PROVE  In(f, a) <=> In(f, SubSeq(a, 1, n)) \/ In(f, SubSeq(a, n + 1, Len(a)))
<1> DEFINE b == SubSeq(a, 1, n)
           c == SubSeq(a, n + 1, Len(a))
<1>1. DOMAIN a = 1..Len(a) /\ DOMAIN b = 1..n /\ DOMAIN c = 1..(Len(a) - n)
  OBVIOUS
<1>2. ASSUME NEW i \in 1..n PROVE b[i] = a[i]
  OBVIOUS
<1>3. ASSUME NEW i \in 1..(Len(a) - n) PROVE c[i] = a[n + i]
  OBVIOUS
<1>4. ASSUME NEW i \in 1..Len(a), i \notin 1..n
      PROVE  i - n \in 1..(Len(a) - n) /\ c[i - n] = a[i]
  <2>1. i - n \in 1..(Len(a) - n) /\ n + (i - n) = i
    BY <1>4
  <2> QED BY <2>1, <1>3
<1>5. ASSUME In(f, a) PROVE In(f, b) \/ In(f, c)
  BY <1>1, <1>2, <1>4, <1>5 DEF In
<1>6. ASSUME In(f, b) \/ In(f, c) PROVE In(f, a)
  <2>1. \A i \in 1..(Len(a) - n) : n + i \in 1..Len(a)
    OBVIOUS
  <2>2. CASE In(f, b)
    BY <1>1, <1>2, <2>2 DEF In
  <2>3. CASE In(f, c)
    <3> HIDE DEF b, c
    <3>1. PICK i \in 1..(Len(a) - n) : c[i] = f
      BY <1>1, <2>3 DEF In
    <3>2. a[n + i] = f
      BY <1>3, <3>1
    <3> QED BY <1>1, <2>1, <3>2 DEF In
  <2> QED BY <1>6, <2>2, <2>3
<1> QED BY <1>5, <1>6

\* What read() of the host takes: the first n frames of the channel, and what follows of them.
LEMMA ReadStep ==
  ASSUME Guest!Read
  PROVE  \E n \in 1..Len(pipe) :
           /\ pipe' = SubSeq(pipe, n + 1, Len(pipe))
           /\ guestExit' = IF guestExit = Guest!NoCode THEN Guest!FirstExit(SubSeq(pipe, 1, n))
                           ELSE guestExit
           /\ settled' = IF guestExit' # Guest!NoCode /\ settled = "no" THEN "frame" ELSE settled
           /\ start' = "up" => start = "up" \/ Guest!Handshake(SubSeq(pipe, 1, n)) = "up"
<1>1. PICK n \in 1..Len(pipe) :
        /\ pipe' = SubSeq(pipe, n + 1, Len(pipe))
        /\ guestExit' = IF guestExit = Guest!NoCode THEN Guest!FirstExit(SubSeq(pipe, 1, n))
                        ELSE guestExit
        /\ settled' = IF guestExit' # Guest!NoCode /\ settled = "no" THEN "frame" ELSE settled
        /\ \/ start' = start
           \/ Guest!Handshake(SubSeq(pipe, 1, n)) = "up" /\ start' = "up"
           \/ start' = "failed"
  BY DEF Guest!Read, Guest!Fails
<1>2. start' = "up" => start = "up" \/ Guest!Handshake(SubSeq(pipe, 1, n)) = "up"
  BY <1>1
<1> QED BY <1>1, <1>2

LEMMA ReadTyped ==
  ASSUME NEW s \in Seq(Guest!Frame), NEW n \in 1..Len(s)
  PROVE  /\ SubSeq(s, 1, n) \in Seq(Guest!Frame)
         /\ SubSeq(s, n + 1, Len(s)) \in Seq(Guest!Frame)
OBVIOUS

\* What the guest writes at once.
LEMMA InWritten ==
  /\ \A x : ~In(x, <<>>)
  /\ \A x, f : In(x, <<f>>) <=> x = f
  /\ \A x, f, g : In(x, <<f, g>>) <=> x \in {f, g}
  /\ \A x, f, g, h : In(x, <<f, g, h>>) <=> x \in {f, g, h}
<1>1. ASSUME NEW f, NEW g, NEW h
      PROVE  DOMAIN <<f>> = {1} /\ DOMAIN <<f, g>> = {1, 2} /\ DOMAIN <<f, g, h>> = {1, 2, 3}
  OBVIOUS
<1>2. \A x : ~In(x, <<>>)
  BY DEF In
<1>3. ASSUME NEW x, NEW f PROVE In(x, <<f>>) <=> x = f
  BY <1>1 DEF In
<1>4. ASSUME NEW x, NEW f, NEW g PROVE In(x, <<f, g>>) <=> x \in {f, g}
  BY <1>1 DEF In
<1>5. ASSUME NEW x, NEW f, NEW g, NEW h PROVE In(x, <<f, g, h>>) <=> x \in {f, g, h}
  BY <1>1 DEF In
<1> QED BY <1>2, <1>3, <1>4, <1>5

\* The code that is read is that of an exit frame, if there is one.
LEMMA FirstExitRead ==
  ASSUME NEW s \in Seq(Guest!Frame)
  PROVE  /\ Guest!FirstExit(s) \in Guest!Code \cup {Guest!NoCode}
         /\ Guest!FirstExit(s) \in Guest!Code => In(Guest!Exit(Guest!FirstExit(s)), s)
         /\ HasExit(s) => Guest!FirstExit(s) # Guest!NoCode
<1> DEFINE Exits == {i \in DOMAIN s : s[i].frame = "exit"}
<1>0. \A i \in DOMAIN s : s[i] \in Guest!Frame
  OBVIOUS
<1>1. \A i \in Exits : \E c \in Guest!Code : s[i] = Guest!Exit(c) /\ s[i].code = c
  BY <1>0 DEF Guest!Frame, Guest!Ready, Guest!Refusal, Guest!Noise, Guest!Exit
<1>2. \A i \in DOMAIN s, c \in Guest!Code : s[i] = Guest!Exit(c) => i \in Exits
  BY DEF Guest!Exit
<1>3. CASE Exits = {}
  <2>1. ~HasExit(s)
    BY <1>2, <1>3 DEF HasExit, In
  <2>2. ~\E i \in DOMAIN s : s[i].frame = "exit"
    BY <1>3
  <2>3. Guest!FirstExit(s) = Guest!NoCode
    BY <2>2 DEF Guest!FirstExit
  <2> QED BY <2>1, <2>3, GuestFacts
<1>4. CASE Exits # {}
  <2>1. Exits \subseteq Nat
    OBVIOUS
  <2>2. PICK i \in Exits : \A j \in Exits : i <= j
    <3> HIDE DEF Exits
    <3> QED BY <1>4, <2>1, Least
  <2>3. \A j \in 1..(i - 1) : s[j].frame # "exit"
    BY <2>1, <2>2
  <2>4. \E k \in DOMAIN s : s[k].frame = "exit" /\ \A j \in 1..(k - 1) : s[j].frame # "exit"
    BY <2>3
  <2> DEFINE k == CHOOSE i_1 \in DOMAIN s : s[i_1].frame = "exit" /\ \A j \in 1..(i_1 - 1) : s[j].frame # "exit"
  <2>5. k \in Exits
    BY <2>4
  <2>6. Guest!FirstExit(s) = s[k].code
    BY <1>4 DEF Guest!FirstExit
  <2> HIDE DEF k, Exits
  <2>7. PICK c \in Guest!Code : s[k] = Guest!Exit(c) /\ s[k].code = c
    BY <1>1, <2>5
  <2> QED BY <2>5, <2>6, <2>7, GuestFacts DEF In, Exits
<1> QED BY <1>3, <1>4

LEMMA FramesWritten ==
  /\ <<>> \in Seq(Guest!Frame) /\ <<Guest!Ready>> \in Seq(Guest!Frame)
  /\ <<Guest!Refusal, Guest!Exit(Guest!Rejected)>> \in Seq(Guest!Frame)
  /\ \A c \in Guest!Code : /\ <<Guest!Exit(c)>> \in Seq(Guest!Frame)
                          /\ <<Guest!Refusal, Guest!Exit(c), Guest!Exit(c)>> \in Seq(Guest!Frame)
BY GuestFacts

\* What a step of the guest puts into its channel.
LEMMA GuestWrites ==
  ASSUME Guest!Decide \/ Guest!Fork \/ Guest!WorkloadEnds \/ Guest!Bleed
  PROVE  \E fs \in Seq(Guest!Frame) :
           /\ tx' = tx \o fs
           /\ In(Guest!Ready, fs) => guest = "deciding" /\ guest' = "ready"
           /\ In(Guest!Exit(0), fs) => worker' = 0
           /\ guest' = "settling" /\ guest # "settling" => HasExit(fs)
<1> USE FramesWritten
<1> DEFINE Says(fs) ==
             /\ In(Guest!Ready, fs) => guest = "deciding" /\ guest' = "ready"
             /\ In(Guest!Exit(0), fs) => worker' = 0
             /\ guest' = "settling" /\ guest # "settling" => HasExit(fs)
<1>0. 0 \in Guest!Code
  BY GuestFacts
<1>1. CASE Guest!Decide
  <2>1. CASE tx' = tx \o <<Guest!Ready>> /\ guest = "deciding" /\ guest' = "ready"
    <3>1. Says(<<Guest!Ready>>)
      BY <2>1, <1>0, InWritten, GuestFacts
    <3> QED BY <2>1, <3>1
  <2>2. CASE tx' = tx \o <<Guest!Refusal, Guest!Exit(Guest!Rejected)>>
    <3>1. Says(<<Guest!Refusal, Guest!Exit(Guest!Rejected)>>)
      BY <1>0, InWritten, GuestFacts DEF HasExit
    <3> QED BY <2>2, <3>1
  <2> QED BY <1>1, <2>1, <2>2 DEF Guest!Decide, Guest!Guest, Guest!Write
<1>2. CASE Guest!Fork
  <2>1. CASE UNCHANGED tx /\ guest' = "working"
    <3>1. Says(<<>>) /\ tx \o <<>> = tx
      BY <2>1, InWritten
    <3> QED BY <2>1, <3>1
  <2>2. CASE tx' = tx \o <<Guest!Refusal, Guest!Exit(Guest!Rejected)>>
    <3>1. Says(<<Guest!Refusal, Guest!Exit(Guest!Rejected)>>)
      BY <1>0, InWritten, GuestFacts DEF HasExit
    <3> QED BY <2>2, <3>1
  <2> QED BY <1>2, <2>1, <2>2 DEF Guest!Fork, Guest!Guest, Guest!Write
<1>3. CASE Guest!WorkloadEnds
  <2>1. PICK c \in Guest!Code :
          /\ worker' = c
          /\ \/ tx' = tx \o <<Guest!Exit(c)>>
             \/ tx' = tx \o <<Guest!Refusal, Guest!Exit(c), Guest!Exit(c)>>
    BY <1>3 DEF Guest!WorkloadEnds, Guest!Write
  <2>2. Says(<<Guest!Exit(c)>>) /\ Says(<<Guest!Refusal, Guest!Exit(c), Guest!Exit(c)>>)
    BY <2>1, <1>0, InWritten, GuestFacts DEF HasExit
  <2> QED BY <2>1, <2>2
<1>4. CASE Guest!Bleed
  <2>1. Says(<<Guest!Noise>>) /\ <<Guest!Noise>> \in Seq(Guest!Frame)
    BY <1>4, <1>0, InWritten, GuestFacts DEF Guest!Bleed
  <2> QED BY <1>4, <2>1 DEF Guest!Bleed, Guest!Write
<1> QED BY <1>1, <1>2, <1>3, <1>4

LEMMA GuestStarts == Guest!GuestInit => GuestInv
<1> USE GuestFacts DEF Guest!GuestInit
<1>1. Guest!GuestInit => GuestStages /\ GuestCodes
  BY DEF GuestStages, GuestCodes
<1>2. Guest!GuestInit => WorkerInv /\ ReadyInv
  BY DEF WorkerInv, ReadyInv, In, BeforePort
<1>3. Guest!GuestInit => HostInv
  BY DEF HostInv, Guest!CodeReported
<1> QED BY <1>1, <1>2, <1>3 DEF GuestInv

LEMMA GuestStagesKeep ==
  ASSUME GuestInv, Guest!GuestNext PROVE GuestStages'
<1> USE DEF GuestInv, GuestStages
<1>1. CASE Guest!Spawn
  BY <1>1 DEF Guest!Spawn
<1>2. CASE Guest!Configure
  BY <1>2 DEF Guest!Configure, Guest!hostVars
<1>3. CASE Guest!Mount
  BY <1>3 DEF Guest!Mount, Guest!Guest, Guest!Alive, Guest!hostVars
<1>4. CASE Guest!Decide
  BY <1>4 DEF Guest!Decide, Guest!Guest, Guest!Alive, Guest!hostVars, Guest!Write
<1>5. CASE Guest!Fork
  BY <1>5 DEF Guest!Fork, Guest!Guest, Guest!Alive, Guest!hostVars, Guest!Write
<1>6. CASE Guest!WorkloadEnds
  BY <1>6 DEF Guest!WorkloadEnds, Guest!Guest, Guest!Alive, Guest!hostVars, Guest!Write
<1>7. CASE Guest!Bleed
  BY <1>7 DEF Guest!Bleed, Guest!Alive, Guest!hostVars, Guest!Write
<1>8. CASE Guest!Drain
  BY <1>8 DEF Guest!Drain, Guest!Alive, Guest!hostVars
<1>9. CASE Guest!Halt
  BY <1>9 DEF Guest!Halt, Guest!Alive, Guest!hostVars
<1>10. CASE Guest!Crash
  BY <1>10 DEF Guest!Crash, Guest!Alive, Guest!hostVars
<1>11. CASE Guest!Die
  BY <1>11 DEF Guest!Die, Guest!hostVars
<1>12. CASE Guest!Reap
  BY <1>12 DEF Guest!Reap, Guest!Gone, Guest!guestVars
<1>13. CASE Guest!Read
  BY <1>13 DEF Guest!Read, Guest!Fails, Guest!Kill, Guest!Alive, Guest!guestVars
<1>14. CASE Guest!HandshakeOver
  BY <1>14 DEF Guest!HandshakeOver, Guest!Fails, Guest!Kill, Guest!Alive, Guest!guestVars
<1>15. CASE Guest!Settle
  BY <1>15 DEF Guest!Settle, Guest!Gone, Guest!guestVars
<1>16. CASE Guest!Capped
  BY <1>16 DEF Guest!Capped, Guest!Kill, Guest!Alive, Guest!guestVars
<1>17. CASE Guest!CallerKills
  BY <1>17 DEF Guest!CallerKills, Guest!Kill, Guest!Alive, Guest!guestVars
<1>18. CASE Guest!Result
  BY <1>18 DEF Guest!Result, Guest!guestVars
<1> QED BY <1>1, <1>2, <1>3, <1>4, <1>5, <1>6, <1>7, <1>8, <1>9, <1>10, <1>11, <1>12,
    <1>13, <1>14, <1>15, <1>16, <1>17, <1>18 DEF Guest!GuestNext

LEMMA GuestCodesKeep ==
  ASSUME GuestInv, Guest!GuestNext PROVE GuestCodes'
<1> USE GuestFacts DEF GuestInv, GuestCodes
<1>1. CASE Guest!Spawn
  BY <1>1 DEF Guest!Spawn
<1>2. CASE Guest!Configure
  BY <1>2 DEF Guest!Configure, Guest!hostVars
<1>3. CASE Guest!Mount
  BY <1>3 DEF Guest!Mount, Guest!Guest, Guest!Alive, Guest!hostVars
<1>4. CASE Guest!Decide
  <2>1. PICK fs \in Seq(Guest!Frame) : tx' = tx \o fs
    BY ONLY <1>4, GuestWrites
  <2>2. tx' \in Seq(Guest!Frame)
    BY <2>1
  <2>3. UNCHANGED <<pipe, guestExit, status, result>> /\ worker' \in Guest!Code \cup {Guest!NoCode}
    BY <1>4 DEF Guest!Decide, Guest!Guest, Guest!hostVars
  <2> QED BY <2>2, <2>3
<1>5. CASE Guest!Fork
  <2>1. PICK fs \in Seq(Guest!Frame) : tx' = tx \o fs
    BY ONLY <1>5, GuestWrites
  <2>2. tx' \in Seq(Guest!Frame)
    BY <2>1
  <2>3. UNCHANGED <<pipe, guestExit, status, result>> /\ worker' \in Guest!Code \cup {Guest!NoCode}
    BY <1>5 DEF Guest!Fork, Guest!Guest, Guest!hostVars
  <2> QED BY <2>2, <2>3
<1>6. CASE Guest!WorkloadEnds
  <2>1. PICK fs \in Seq(Guest!Frame) : tx' = tx \o fs
    BY ONLY <1>6, GuestWrites
  <2>2. tx' \in Seq(Guest!Frame)
    BY <2>1
  <2>3. UNCHANGED <<pipe, guestExit, status, result>> /\ worker' \in Guest!Code \cup {Guest!NoCode}
    BY <1>6 DEF Guest!WorkloadEnds, Guest!Guest, Guest!hostVars
  <2> QED BY <2>2, <2>3
<1>7. CASE Guest!Bleed
  <2>1. PICK fs \in Seq(Guest!Frame) : tx' = tx \o fs
    BY ONLY <1>7, GuestWrites
  <2>2. tx' \in Seq(Guest!Frame)
    BY <2>1
  <2>3. UNCHANGED <<pipe, guestExit, status, result>> /\ worker' \in Guest!Code \cup {Guest!NoCode}
    BY <1>7 DEF Guest!Bleed, Guest!Guest, Guest!hostVars
  <2> QED BY <2>2, <2>3
<1>8. CASE Guest!Drain
  BY <1>8 DEF Guest!Drain, Guest!Alive, Guest!hostVars
<1>9. CASE Guest!Halt
  BY <1>9 DEF Guest!Halt, Guest!Alive, Guest!hostVars
<1>10. CASE Guest!Crash
  BY <1>10 DEF Guest!Crash, Guest!Alive, Guest!hostVars
<1>11. CASE Guest!Die
  BY <1>11 DEF Guest!Die, Guest!hostVars
<1>12. CASE Guest!Reap
  BY <1>12 DEF Guest!Reap, Guest!Gone, Guest!guestVars
<1>13. CASE Guest!Read
  <2>1. PICK n \in 1..Len(pipe) :
          /\ pipe' = SubSeq(pipe, n + 1, Len(pipe))
          /\ guestExit' = IF guestExit = Guest!NoCode THEN Guest!FirstExit(SubSeq(pipe, 1, n))
                          ELSE guestExit
    BY ONLY <1>13, ReadStep
  <2>2. UNCHANGED <<worker, tx, status, result>>
    BY <1>13 DEF Guest!Read, Guest!guestVars
  <2>3. SubSeq(pipe, 1, n) \in Seq(Guest!Frame) /\ pipe' \in Seq(Guest!Frame)
    BY <2>1, ReadTyped
  <2>4. Guest!FirstExit(SubSeq(pipe, 1, n)) \in Guest!Code \cup {Guest!NoCode}
    BY ONLY <2>3, FirstExitRead
  <2>5. guestExit' \in Guest!Code \cup {Guest!NoCode}
    BY <2>1, <2>4
  <2> QED BY <2>2, <2>3, <2>5
<1>14. CASE Guest!HandshakeOver
  BY <1>14 DEF Guest!HandshakeOver, Guest!Fails, Guest!Kill, Guest!Alive, Guest!guestVars
<1>15. CASE Guest!Settle
  BY <1>15 DEF Guest!Settle, Guest!Gone, Guest!guestVars
<1>16. CASE Guest!Capped
  BY <1>16 DEF Guest!Capped, Guest!Kill, Guest!Alive, Guest!guestVars
<1>17. CASE Guest!CallerKills
  BY <1>17 DEF Guest!CallerKills, Guest!Kill, Guest!Alive, Guest!guestVars
<1>18. CASE Guest!Result
  BY <1>18 DEF Guest!Result, Guest!guestVars
<1> QED BY <1>1, <1>2, <1>3, <1>4, <1>5, <1>6, <1>7, <1>8, <1>9, <1>10, <1>11, <1>12,
    <1>13, <1>14, <1>15, <1>16, <1>17, <1>18 DEF Guest!GuestNext

LEMMA WorkerKeeps ==
  ASSUME GuestInv, Guest!GuestNext PROVE WorkerInv'
<1> USE GuestFacts DEF GuestInv, GuestStages, GuestCodes, WorkerInv
<1>1. CASE Guest!Spawn
  BY <1>1 DEF Guest!Spawn
<1>2. CASE Guest!Configure
  BY <1>2 DEF Guest!Configure, Guest!hostVars
<1>3. CASE Guest!Mount
  BY <1>3 DEF Guest!Mount, Guest!Guest, Guest!Alive, Guest!hostVars
<1>4. CASE Guest!Decide
  <2>1. PICK fs \in Seq(Guest!Frame) :
          /\ tx' = tx \o fs
          /\ In(Guest!Exit(0), fs) => worker' = 0
    BY <1>4, GuestWrites
  <2>2. In(Guest!Exit(0), tx') <=> In(Guest!Exit(0), tx) \/ In(Guest!Exit(0), fs)
    BY <2>1, InAppended
  <2>3. worker = 0 => worker' = 0
    BY <1>4 DEF Guest!Decide, Guest!Guest
  <2> QED BY <1>4, <2>1, <2>2, <2>3 DEF Guest!Decide, Guest!Guest, Guest!Alive, Guest!hostVars
<1>5. CASE Guest!Fork
  <2>1. PICK fs \in Seq(Guest!Frame) :
          /\ tx' = tx \o fs
          /\ In(Guest!Exit(0), fs) => worker' = 0
    BY <1>5, GuestWrites
  <2>2. In(Guest!Exit(0), tx') <=> In(Guest!Exit(0), tx) \/ In(Guest!Exit(0), fs)
    BY <2>1, InAppended
  <2>3. worker = 0 => worker' = 0
    BY <1>5 DEF Guest!Fork, Guest!Guest
  <2> QED BY <1>5, <2>1, <2>2, <2>3 DEF Guest!Fork, Guest!Guest, Guest!Alive, Guest!hostVars
<1>6. CASE Guest!WorkloadEnds
  <2>1. PICK fs \in Seq(Guest!Frame) :
          /\ tx' = tx \o fs
          /\ In(Guest!Exit(0), fs) => worker' = 0
    BY <1>6, GuestWrites
  <2>2. In(Guest!Exit(0), tx') <=> In(Guest!Exit(0), tx) \/ In(Guest!Exit(0), fs)
    BY <2>1, InAppended
  <2>3. worker = 0 => worker' = 0
    BY <1>6 DEF Guest!WorkloadEnds, Guest!Guest
  <2> QED BY <1>6, <2>1, <2>2, <2>3 DEF Guest!WorkloadEnds, Guest!Guest, Guest!Alive, Guest!hostVars
<1>7. CASE Guest!Bleed
  <2>1. PICK fs \in Seq(Guest!Frame) :
          /\ tx' = tx \o fs
          /\ In(Guest!Exit(0), fs) => worker' = 0
    BY <1>7, GuestWrites
  <2>2. In(Guest!Exit(0), tx') <=> In(Guest!Exit(0), tx) \/ In(Guest!Exit(0), fs)
    BY <2>1, InAppended
  <2>3. worker = 0 => worker' = 0
    BY <1>7 DEF Guest!Bleed, Guest!Guest
  <2> QED BY <1>7, <2>1, <2>2, <2>3 DEF Guest!Bleed, Guest!Guest, Guest!Alive, Guest!hostVars
<1>8. CASE Guest!Drain
  <2>1. In(Guest!Exit(0), pipe') <=> In(Guest!Exit(0), pipe) \/ In(Guest!Exit(0), tx)
    BY <1>8, InAppended DEF Guest!Drain
  <2>2. ~In(Guest!Exit(0), tx')
    BY <1>8, InWritten DEF Guest!Drain
  <2> QED BY <1>8, <2>1, <2>2 DEF Guest!Drain, Guest!Alive, Guest!hostVars
<1>9. CASE Guest!Halt
  BY <1>9 DEF Guest!Halt, Guest!Alive, Guest!hostVars
<1>10. CASE Guest!Crash
  BY <1>10, InWritten DEF Guest!Crash, Guest!Alive, Guest!hostVars
<1>11. CASE Guest!Die
  BY <1>11, InWritten DEF Guest!Die, Guest!Alive, Guest!hostVars
<1>12. CASE Guest!Reap
  BY <1>12 DEF Guest!Reap, Guest!Gone, Guest!guestVars
<1>13. CASE Guest!Read
  <2>1. PICK n \in 1..Len(pipe) :
          /\ pipe' = SubSeq(pipe, n + 1, Len(pipe))
          /\ guestExit' = IF guestExit = Guest!NoCode THEN Guest!FirstExit(SubSeq(pipe, 1, n))
                          ELSE guestExit
          /\ settled' = IF guestExit' # Guest!NoCode /\ settled = "no" THEN "frame" ELSE settled
          /\ start' = "up" => start = "up" \/ Guest!Handshake(SubSeq(pipe, 1, n)) = "up"
    BY ONLY <1>13, ReadStep
  <2>2. UNCHANGED <<guest, worker, tx, status, capped, result>> /\ start \in {"handshake", "up"}
        /\ result = Guest!NoCode /\ start' \in {"handshake", "up", "failed"}
    BY <1>13 DEF Guest!Read, Guest!guestVars, Guest!Fails
  <2>3. helperOf' = helperOf \/ (helperOf = "running" /\ helperOf' = "killed")
    BY <1>13 DEF Guest!Read, Guest!Fails, Guest!Kill, Guest!Alive
  <2> DEFINE chunk == SubSeq(pipe, 1, n)
  <2>4. chunk \in Seq(Guest!Frame)
    BY <2>1
  <2>5. \A f : In(f, pipe) <=> In(f, chunk) \/ In(f, pipe')
    BY <2>1, InRead
  <2> HIDE DEF chunk
  <2>6. guestExit' = 0 => worker' = 0
    <3>1. CASE guestExit # Guest!NoCode
      BY <2>1, <2>2, <3>1
    <3>2. CASE guestExit = Guest!NoCode /\ guestExit' = 0
      <4>1. Guest!FirstExit(chunk) = 0
        BY <2>1, <3>2 DEF chunk
      <4>2. In(Guest!Exit(Guest!FirstExit(chunk)), chunk)
        BY <2>4, <4>1, FirstExitRead
      <4>3. In(Guest!Exit(0), chunk)
        BY <4>1, <4>2
      <4> QED BY <2>2, <2>5, <4>3
    <3> QED BY <3>1, <3>2
  <2> QED BY <2>2, <2>3, <2>5, <2>6
<1>14. CASE Guest!HandshakeOver
  BY <1>14 DEF Guest!HandshakeOver, Guest!Fails, Guest!Kill, Guest!Alive, Guest!guestVars
<1>15. CASE Guest!Settle
  BY <1>15 DEF Guest!Settle, Guest!Gone, Guest!guestVars
<1>16. CASE Guest!Capped
  BY <1>16 DEF Guest!Capped, Guest!Kill, Guest!Alive, Guest!guestVars
<1>17. CASE Guest!CallerKills
  BY <1>17 DEF Guest!CallerKills, Guest!Kill, Guest!Alive, Guest!guestVars
<1>18. CASE Guest!Result
  BY <1>18 DEF Guest!Result, Guest!guestVars
<1> QED BY <1>1, <1>2, <1>3, <1>4, <1>5, <1>6, <1>7, <1>8, <1>9, <1>10, <1>11, <1>12,
    <1>13, <1>14, <1>15, <1>16, <1>17, <1>18 DEF Guest!GuestNext

LEMMA ReadyKeeps ==
  ASSUME GuestInv, Guest!GuestNext PROVE ReadyInv'
<1> USE DEF GuestInv, GuestStages, GuestCodes, ReadyInv, BeforePort
<1>1. CASE Guest!Spawn
  BY <1>1 DEF Guest!Spawn
<1>2. CASE Guest!Configure
  BY <1>2 DEF Guest!Configure, Guest!hostVars
<1>3. CASE Guest!Mount
  BY <1>3 DEF Guest!Mount, Guest!Guest, Guest!Alive, Guest!hostVars
<1>4. CASE Guest!Decide
  <2>1. PICK fs \in Seq(Guest!Frame) :
          /\ tx' = tx \o fs
          /\ In(Guest!Ready, fs) => guest = "deciding" /\ guest' = "ready"
          /\ guest' = "settling" /\ guest # "settling" => HasExit(fs)
    BY <1>4, GuestWrites
  <2>2. \A f : In(f, tx') <=> In(f, tx) \/ In(f, fs)
    BY <2>1, InAppended
  <2>3. HasExit(tx) \/ HasExit(fs) => HasExit(tx')
    BY <2>2 DEF HasExit
  <2>4. UNCHANGED <<pipe, start, guestExit>>
    BY <1>4 DEF Guest!Decide, Guest!Guest, Guest!hostVars
  <2>5. CASE guest' = guest
    BY <2>1, <2>2, <2>3, <2>4, <2>5
  <2>6. CASE guest' # guest
    BY <1>4, <2>1, <2>2, <2>3, <2>4, <2>6 DEF Guest!Decide, Guest!Guest
  <2> QED BY <2>5, <2>6
<1>5. CASE Guest!Fork
  <2>1. PICK fs \in Seq(Guest!Frame) :
          /\ tx' = tx \o fs
          /\ In(Guest!Ready, fs) => guest = "deciding" /\ guest' = "ready"
          /\ guest' = "settling" /\ guest # "settling" => HasExit(fs)
    BY <1>5, GuestWrites
  <2>2. \A f : In(f, tx') <=> In(f, tx) \/ In(f, fs)
    BY <2>1, InAppended
  <2>3. HasExit(tx) \/ HasExit(fs) => HasExit(tx')
    BY <2>2 DEF HasExit
  <2>4. UNCHANGED <<pipe, start, guestExit>>
    BY <1>5 DEF Guest!Fork, Guest!Guest, Guest!hostVars
  <2>5. CASE guest' = guest
    BY <2>1, <2>2, <2>3, <2>4, <2>5
  <2>6. CASE guest' # guest
    BY <1>5, <2>1, <2>2, <2>3, <2>4, <2>6 DEF Guest!Fork, Guest!Guest
  <2> QED BY <2>5, <2>6
<1>6. CASE Guest!WorkloadEnds
  <2>1. PICK fs \in Seq(Guest!Frame) :
          /\ tx' = tx \o fs
          /\ In(Guest!Ready, fs) => guest = "deciding" /\ guest' = "ready"
          /\ guest' = "settling" /\ guest # "settling" => HasExit(fs)
    BY <1>6, GuestWrites
  <2>2. \A f : In(f, tx') <=> In(f, tx) \/ In(f, fs)
    BY <2>1, InAppended
  <2>3. HasExit(tx) \/ HasExit(fs) => HasExit(tx')
    BY <2>2 DEF HasExit
  <2>4. UNCHANGED <<pipe, start, guestExit>>
    BY <1>6 DEF Guest!WorkloadEnds, Guest!Guest, Guest!hostVars
  <2>5. CASE guest' = guest
    BY <2>1, <2>2, <2>3, <2>4, <2>5
  <2>6. CASE guest' # guest
    BY <1>6, <2>1, <2>2, <2>3, <2>4, <2>6 DEF Guest!WorkloadEnds, Guest!Guest
  <2> QED BY <2>5, <2>6
<1>7. CASE Guest!Bleed
  <2>1. PICK fs \in Seq(Guest!Frame) :
          /\ tx' = tx \o fs
          /\ In(Guest!Ready, fs) => guest = "deciding" /\ guest' = "ready"
          /\ guest' = "settling" /\ guest # "settling" => HasExit(fs)
    BY <1>7, GuestWrites
  <2>2. \A f : In(f, tx') <=> In(f, tx) \/ In(f, fs)
    BY <2>1, InAppended
  <2>3. HasExit(tx) \/ HasExit(fs) => HasExit(tx')
    BY <2>2 DEF HasExit
  <2>4. UNCHANGED <<pipe, start, guestExit>>
    BY <1>7 DEF Guest!Bleed, Guest!Guest, Guest!hostVars
  <2>5. CASE guest' = guest
    BY <2>1, <2>2, <2>3, <2>4, <2>5
  <2>6. CASE guest' # guest
    BY <1>7, <2>1, <2>2, <2>3, <2>4, <2>6 DEF Guest!Bleed, Guest!Guest
  <2> QED BY <2>5, <2>6
<1>8. CASE Guest!Drain
  <2>1. \A f : In(f, pipe') <=> In(f, pipe) \/ In(f, tx)
    BY <1>8, InAppended DEF Guest!Drain
  <2>2. (HasExit(tx) \/ HasExit(pipe) => HasExit(pipe')) /\ \A f : ~In(f, tx')
    BY <1>8, <2>1, InWritten DEF Guest!Drain, HasExit
  <2> QED BY <1>8, <2>1, <2>2 DEF Guest!Drain, Guest!Alive, Guest!hostVars
<1>9. CASE Guest!Halt
  BY <1>9, InWritten DEF Guest!Halt, Guest!Alive, Guest!hostVars
<1>10. CASE Guest!Crash
  BY <1>10, InWritten DEF Guest!Crash, Guest!Alive, Guest!hostVars
<1>11. CASE Guest!Die
  BY <1>11, InWritten DEF Guest!Die, Guest!Alive, Guest!hostVars
<1>12. CASE Guest!Reap
  BY <1>12 DEF Guest!Reap, Guest!Gone, Guest!guestVars
<1>13. CASE Guest!Read
  <2>1. PICK n \in 1..Len(pipe) :
          /\ pipe' = SubSeq(pipe, n + 1, Len(pipe))
          /\ guestExit' = IF guestExit = Guest!NoCode THEN Guest!FirstExit(SubSeq(pipe, 1, n))
                          ELSE guestExit
          /\ settled' = IF guestExit' # Guest!NoCode /\ settled = "no" THEN "frame" ELSE settled
          /\ start' = "up" => start = "up" \/ Guest!Handshake(SubSeq(pipe, 1, n)) = "up"
    BY ONLY <1>13, ReadStep
  <2>2. UNCHANGED <<guest, worker, tx, status, capped, result>> /\ start \in {"handshake", "up"}
        /\ result = Guest!NoCode /\ start' \in {"handshake", "up", "failed"}
    BY <1>13 DEF Guest!Read, Guest!guestVars, Guest!Fails
  <2>3. helperOf' = helperOf \/ (helperOf = "running" /\ helperOf' = "killed")
    BY <1>13 DEF Guest!Read, Guest!Fails, Guest!Kill, Guest!Alive
  <2> DEFINE chunk == SubSeq(pipe, 1, n)
  <2>4. chunk \in Seq(Guest!Frame)
    BY <2>1
  <2>5. \A f : In(f, pipe) <=> In(f, chunk) \/ In(f, pipe')
    BY <2>1, InRead
  <2>6. start' = "up" => start = "up" \/ In(Guest!Ready, chunk)
    <3>1. Guest!Handshake(chunk) = "up" => \E i \in DOMAIN chunk : chunk[i] = Guest!Ready
      BY DEF Guest!Handshake, Guest!Decided
    <3> QED BY <2>1, <3>1 DEF In
  <2>7. HasExit(chunk) => guestExit' # Guest!NoCode
    BY <2>1, <2>4, FirstExitRead
  <2> HIDE DEF chunk
  <2>8. HasExit(pipe) => HasExit(chunk) \/ HasExit(pipe')
    BY <2>5 DEF HasExit
  <2>9. guestExit # Guest!NoCode => guestExit' # Guest!NoCode
    BY <2>1
  <2> QED BY <2>2, <2>5, <2>6, <2>7, <2>8, <2>9
<1>14. CASE Guest!HandshakeOver
  BY <1>14 DEF Guest!HandshakeOver, Guest!Fails, Guest!Kill, Guest!Alive, Guest!guestVars
<1>15. CASE Guest!Settle
  BY <1>15 DEF Guest!Settle, Guest!Gone, Guest!guestVars
<1>16. CASE Guest!Capped
  BY <1>16 DEF Guest!Capped, Guest!Kill, Guest!Alive, Guest!guestVars
<1>17. CASE Guest!CallerKills
  BY <1>17 DEF Guest!CallerKills, Guest!Kill, Guest!Alive, Guest!guestVars
<1>18. CASE Guest!Result
  BY <1>18 DEF Guest!Result, Guest!guestVars
<1> QED BY <1>1, <1>2, <1>3, <1>4, <1>5, <1>6, <1>7, <1>8, <1>9, <1>10, <1>11, <1>12,
    <1>13, <1>14, <1>15, <1>16, <1>17, <1>18 DEF Guest!GuestNext

LEMMA HostKeeps ==
  ASSUME GuestInv, Guest!GuestNext PROVE HostInv'
<1> USE GuestFacts DEF GuestInv, GuestStages, GuestCodes, HostInv, Guest!CodeReported
<1>1. CASE Guest!Spawn
  BY <1>1 DEF Guest!Spawn
<1>2. CASE Guest!Configure
  BY <1>2 DEF Guest!Configure, Guest!hostVars
<1>3. CASE Guest!Mount
  BY <1>3 DEF Guest!Mount, Guest!Guest, Guest!Alive, Guest!hostVars
<1>4. CASE Guest!Decide
  BY <1>4 DEF Guest!Decide, Guest!Guest, Guest!Alive, Guest!hostVars, Guest!Write
<1>5. CASE Guest!Fork
  BY <1>5 DEF Guest!Fork, Guest!Guest, Guest!Alive, Guest!hostVars, Guest!Write
<1>6. CASE Guest!WorkloadEnds
  BY <1>6 DEF Guest!WorkloadEnds, Guest!Guest, Guest!Alive, Guest!hostVars, Guest!Write
<1>7. CASE Guest!Bleed
  BY <1>7 DEF Guest!Bleed, Guest!Alive, Guest!hostVars, Guest!Write
<1>8. CASE Guest!Drain
  BY <1>8 DEF Guest!Drain, Guest!Alive, Guest!hostVars
<1>9. CASE Guest!Halt
  BY <1>9 DEF Guest!Halt, Guest!Alive, Guest!hostVars
<1>10. CASE Guest!Crash
  BY <1>10 DEF Guest!Crash, Guest!Alive, Guest!hostVars
<1>11. CASE Guest!Die
  BY <1>11 DEF Guest!Die, Guest!hostVars
<1>12. CASE Guest!Reap
  BY <1>12 DEF Guest!Reap, Guest!Gone, Guest!guestVars
<1>13. CASE Guest!Read
  BY <1>13 DEF Guest!Read, Guest!Fails, Guest!Kill, Guest!Alive, Guest!guestVars
<1>14. CASE Guest!HandshakeOver
  BY <1>14 DEF Guest!HandshakeOver, Guest!Fails, Guest!Kill, Guest!Alive, Guest!guestVars
<1>15. CASE Guest!Settle
  BY <1>15 DEF Guest!Settle, Guest!Gone, Guest!guestVars
<1>16. CASE Guest!Capped
  BY <1>16 DEF Guest!Capped, Guest!Kill, Guest!Alive, Guest!guestVars
<1>17. CASE Guest!CallerKills
  BY <1>17 DEF Guest!CallerKills, Guest!Kill, Guest!Alive, Guest!guestVars
<1>18. CASE Guest!Result
  <2>1. /\ start = "up" /\ status # Guest!NoCode /\ settled # "no"
        /\ result' = IF capped # "none" THEN Guest!Killed
                     ELSE IF guestExit # Guest!NoCode THEN guestExit ELSE status
        /\ UNCHANGED <<worker, guest, tx, pipe, helperOf, status, start, guestExit, settled>>
    BY <1>18 DEF Guest!Result, Guest!guestVars
  <2>2. ASSUME result' = 0, settled # "timer"
        PROVE  worker = 0 \/ (guest = "crashed" /\ worker = Guest!NoCode)
    <3>1. CASE guestExit = 0
      BY <3>1 DEF WorkerInv
    <3>2. CASE guestExit = Guest!NoCode /\ status = 0
      <4>1. settled = "eof" /\ helperOf = "dead" /\ pipe = <<>>
        BY <2>1, <2>2, <3>2
      <4>2. CASE guest = "halted"
        <5>1. ~HasExit(tx) /\ ~HasExit(pipe)
          BY <4>1, <4>2, InWritten DEF WorkerInv, HasExit
        <5> QED BY <2>1, <3>2, <4>2, <5>1 DEF ReadyInv
      <4> QED BY <4>1, <4>2 DEF WorkerInv
    <3> QED BY <2>1, <2>2, <3>1, <3>2
  <2> QED BY <2>1, <2>2
<1> QED BY <1>1, <1>2, <1>3, <1>4, <1>5, <1>6, <1>7, <1>8, <1>9, <1>10, <1>11, <1>12,
    <1>13, <1>14, <1>15, <1>16, <1>17, <1>18 DEF Guest!GuestNext

LEMMA GuestKeeps ==
  GuestInv /\ [Guest!GuestNext]_(Guest!vmVars) => GuestInv'
<1> SUFFICES ASSUME GuestInv, [Guest!GuestNext]_(Guest!vmVars)
             PROVE  GuestInv'
  OBVIOUS
<1>1. CASE UNCHANGED Guest!vmVars
  <2> USE <1>1 DEF Guest!vmVars, GuestInv
  <2>1. GuestStages' /\ GuestCodes'
    BY DEF GuestStages, GuestCodes
  <2>2. WorkerInv'
    BY DEF WorkerInv
  <2>3. ReadyInv'
    BY DEF ReadyInv
  <2>4. HostInv'
    BY DEF HostInv, Guest!CodeReported
  <2> QED BY <2>1, <2>2, <2>3, <2>4
<1>2. CASE Guest!GuestNext
  BY <1>2, GuestStagesKeep, GuestCodesKeep, WorkerKeeps, ReadyKeeps, HostKeeps DEF GuestInv
<1> QED BY <1>1, <1>2

LEMMA GuestFollows == GuestInv => Guest!StartClean /\ Guest!CodeReported
BY DEF GuestInv, GuestStages, HostInv, Guest!StartClean

(***************************************************************************)
(* The handshake's strikes: one more than it forgives decides it.          *)
(***************************************************************************)
StrikesInv == strikes \in 0..MaxStrikes + 1 /\ noise \in 0..MaxNoise

LEMMA GuestBounds == MaxStrikes \in Nat /\ MaxNoise \in Nat
BY ServicesAssumption DEF ServicesAssumption, Guest!GuestAssumption

LEMMA GuestCardinality == ASSUME NEW S PROVE Guest!Cardinality(S) = Cardinality(S)
BY DEF Guest!Cardinality, Cardinality

LEMMA StrikesStart == Guest!GuestInit => StrikesInv
BY GuestBounds DEF Guest!GuestInit, StrikesInv

\* A chunk that decides nothing leaves the strikes within what is forgiven.
LEMMA ChunkForgiven ==
  ASSUME NEW chunk \in Seq(Guest!Frame), StrikesInv, Guest!Decided(chunk) = {}
  PROVE  strikes + Guest!Strikes(chunk) \in 0..MaxStrikes + 1
<1> DEFINE N == {i \in DOMAIN chunk : chunk[i] = Guest!Noise}
<1>1. DOMAIN chunk = 1..Len(chunk) /\ Len(chunk) \in Nat
  OBVIOUS
<1>2. IsFiniteSet(N) /\ Guest!Strikes(chunk) = Cardinality(N)
  <2>1. IsFiniteSet(1..Len(chunk))
    BY <1>1, FS_Interval
  <2> QED BY <1>1, <2>1, FS_Subset, GuestCardinality DEF Guest!Strikes
<1>3. Cardinality(N) \in Nat
  BY <1>2, FS_CardinalityType
<1>4. \A i \in DOMAIN chunk : ~Guest!Decisive(chunk, i)
  <2> SUFFICES ASSUME NEW i \in DOMAIN chunk, Guest!Decisive(chunk, i) PROVE FALSE
    OBVIOUS
  <2> DEFINE D == {k \in DOMAIN chunk : Guest!Decisive(chunk, k)}
  <2>1. PICK k \in D : \A j \in D : k <= j
    <3>1. D \subseteq Nat /\ D # {}
      BY <1>1
    <3> HIDE DEF D
    <3> QED BY <3>1, Least
  <2>2. \A j \in 1..(k - 1) : ~Guest!Decisive(chunk, j)
    BY <1>1, <2>1
  <2> QED BY <2>1, <2>2 DEF Guest!Decided
<1>5. CASE N = {}
  <2>1. Cardinality(N) = 0
    BY <1>5, FS_EmptySet
  <2> QED BY <1>2, <2>1 DEF StrikesInv
<1>6. CASE N # {}
  <2>1. PICK m \in N : \A i \in N : i <= m
    <3>1. N \subseteq 1..Len(chunk)
      BY <1>1
    <3> HIDE DEF N
    <3> QED BY <1>1, <1>6, <3>1, Greatest
  <2>2. m \in 1..Len(chunk) /\ chunk[m] = Guest!Noise
    BY <1>1
  <2> DEFINE head == SubSeq(chunk, 1, m)
  <2>3. DOMAIN head = 1..m /\ \A i \in 1..m : head[i] = chunk[i]
    BY <2>2
  <2>4. {i \in DOMAIN head : head[i] = Guest!Noise} = N
    <3> HIDE DEF head
    <3> QED BY <1>1, <2>1, <2>2, <2>3
  <2>5. Guest!Strikes(head) = Cardinality(N)
    BY <2>4, GuestCardinality DEF Guest!Strikes
  <2>6. ~(strikes + Guest!Strikes(head) > MaxStrikes)
    BY <1>1, <1>4, <2>2 DEF Guest!Decisive
  <2> HIDE DEF N, head
  <2> QED BY <1>2, <1>3, <2>5, <2>6, GuestBounds DEF StrikesInv
<1> QED BY <1>5, <1>6

LEMMA StrikesKeep ==
  GuestInv /\ StrikesInv /\ [Guest!GuestNext]_(Guest!vmVars) => StrikesInv'
<1> SUFFICES ASSUME GuestInv, StrikesInv, [Guest!GuestNext]_(Guest!vmVars) PROVE StrikesInv'
  OBVIOUS
<1> USE DEF Guest!hostVars, Guest!guestVars
<1>1. CASE UNCHANGED Guest!vmVars
  BY <1>1 DEF Guest!vmVars, StrikesInv
<1>2. CASE Guest!Spawn \/ Guest!Configure \/ Guest!Mount \/ Guest!Decide \/ Guest!Fork
  BY <1>2 DEF Guest!Spawn, Guest!Configure, Guest!Mount, Guest!Decide, Guest!Fork, StrikesInv
<1>3. CASE Guest!WorkloadEnds \/ Guest!Drain \/ Guest!Halt \/ Guest!Crash \/ Guest!Die
  BY <1>3 DEF Guest!WorkloadEnds, Guest!Drain, Guest!Halt, Guest!Crash, Guest!Die, StrikesInv
<1>4. CASE Guest!Bleed
  BY <1>4, GuestBounds DEF Guest!Bleed, StrikesInv
<1>5. CASE Guest!Reap \/ Guest!HandshakeOver \/ Guest!Settle
  BY <1>5 DEF Guest!Reap, Guest!HandshakeOver, Guest!Settle, StrikesInv
<1>6. CASE Guest!Capped \/ Guest!CallerKills \/ Guest!Result
  BY <1>6 DEF Guest!Capped, Guest!CallerKills, Guest!Result, StrikesInv
<1>7. CASE Guest!Read
  <2>1. noise' = noise
    BY <1>7 DEF Guest!Read
  <2>2. PICK n \in 1..Len(pipe) :
          \/ UNCHANGED strikes
          \/ strikes' = IF Guest!Handshake(SubSeq(pipe, 1, n)) = "handshake"
                        THEN strikes + Guest!Strikes(SubSeq(pipe, 1, n)) ELSE strikes
    BY <1>7 DEF Guest!Read
  <2>3. SubSeq(pipe, 1, n) \in Seq(Guest!Frame)
    BY DEF GuestInv, GuestCodes
  <2>4. CASE Guest!Handshake(SubSeq(pipe, 1, n)) = "handshake"
    <3>1. Guest!Decided(SubSeq(pipe, 1, n)) = {}
      BY <2>4 DEF Guest!Handshake
    <3> QED BY <2>1, <2>2, <2>3, <3>1, ChunkForgiven DEF StrikesInv
  <2>5. CASE Guest!Handshake(SubSeq(pipe, 1, n)) # "handshake"
    BY <2>1, <2>2, <2>5 DEF StrikesInv
  <2> QED BY <2>4, <2>5
<1> QED BY <1>1, <1>2, <1>3, <1>4, <1>5, <1>6, <1>7 DEF Guest!GuestNext

LEMMA GuestTyped == GuestInv /\ StrikesInv => Guest!GuestTypeOK
BY DEF GuestInv, GuestStages, GuestCodes, StrikesInv, Guest!GuestTypeOK

(***************************************************************************)
(* The topology of the OS backend.  Its stages come in one order, so each  *)
(* tells what the ones before it have built.                               *)
(***************************************************************************)
Building   == {"root", "group", "limits", "prepared", "attach", "continue", "active"}
Limited    == {"prepared", "attach", "continue", "active"}
Unspawned  == {"setup", "noTopology", "topology", "root", "group", "limits", "prepared"}
TearingDown == {"kill", "files", "network", "cleaned"}

TopologyStages ==
  /\ osStage \in {"setup", "noTopology", "topology", "held", "root", "group", "limits",
                  "prepared", "attach", "continue", "active", "kill", "files",
                  "network", "cleaned"}
  /\ group \in {"none", "made", "attached", "abandoned"}
  /\ osHelper \in {"none", "stopped", "running", "dead"}

TopologyCounts ==
  /\ netStep \in 0..10 /\ checkNo \in 0..7 /\ tries \in 0..MaxAttach
  /\ osStage = "attach" => tries < MaxAttach

NetworkInv ==
  /\ network \subseteq Topology!Objects /\ netErrs \subseteq Topology!Objects
  /\ osStage = "setup" => network = {Topology!Plan[n] : n \in 1..netStep} \cap Topology!Objects
  /\ osStage \in Building \cup {"topology"} => network = Topology!Objects
  /\ osStage \in Building => grants.out = {"proxy"} /\ grants.back = {"proxy"}
  /\ osStage = "noTopology" => network \subseteq netErrs
  /\ osStage = "cleaned" /\ network # {} => netErrs # {} \/ reasons # {}

TreeInv ==
  /\ \A k \in 1..checkNo : Topology!Passes(k)
  /\ osStage \in {"setup", "noTopology", "topology"} => checkNo = 0
  /\ osStage \in Building \ {"root"} => checkNo = 7
  /\ osStage \in {"setup", "noTopology", "topology"} \cup Building =>
       tree = IF checkNo >= 3 THEN release.archive.tree ELSE Topology!Absent
  /\ tree = Topology!Absent \/ tree = release.archive.tree
  /\ osStage \in {"network", "cleaned"} /\ tree # Topology!Absent => softs # {}

GroupInv ==
  /\ osStage \in Limited => Topology!LimitsDone
  /\ group = "abandoned" => partial
  /\ osStage \in {"continue", "active"} => group = "attached"

HelperInv ==
  /\ osStage \notin TearingDown => ~partial
  /\ osStage \in Unspawned => osHelper = "none"
  /\ osHelper = "running" =>
       /\ osStage \in {"active"} \cup TearingDown /\ ~partial
       /\ osStage \in {"active", "kill"} => group = "attached"
       /\ osStage \in {"files", "network", "cleaned"} => reasons # {}

TopologyInv ==
  TopologyStages /\ TopologyCounts /\ NetworkInv /\ TreeInv /\ GroupInv /\ HelperInv

LEMMA TopologyFacts ==
  /\ MaxAttach \in Nat \ {0}
  /\ Len(Topology!Plan) = 10
  /\ {Topology!Plan[n] : n \in 1..10} \cap Topology!Objects = Topology!Objects
  /\ {Topology!Plan[n] : n \in 1..0} = {}
<1>1. {"netns", "veth", "table"} \subseteq {Topology!Plan[n] : n \in 1..10}
  <2>1. Topology!Plan[1] = "netns" /\ Topology!Plan[2] = "veth" /\ Topology!Plan[9] = "table"
    BY DEF Topology!Plan
  <2> QED BY <2>1
<1>2. Len(Topology!Plan) = 10
  BY DEF Topology!Plan
<1> QED BY <1>1, <1>2, ServicesAssumption
    DEF ServicesAssumption, Topology!TopologyAssumption, Topology!Objects

LEMMA TopologyStarts == Topology!TopologyInit => TopologyInv
<1> SUFFICES ASSUME Topology!TopologyInit PROVE TopologyInv
  OBVIOUS
<1> USE TopologyFacts DEF Topology!TopologyInit
<1>1. TopologyStages
  BY DEF TopologyStages
<1>2. TopologyCounts
  BY DEF TopologyCounts
<1>3. NetworkInv
  BY DEF NetworkInv, Building
<1>4. TreeInv
  BY DEF TreeInv, Building
<1>5. GroupInv /\ HelperInv
  BY DEF GroupInv, HelperInv, Limited, Unspawned, TearingDown
<1> QED BY <1>1, <1>2, <1>3, <1>4, <1>5 DEF TopologyInv

\* What a step leaves alone keeps its part of the invariant.
LEMMA TreeStays ==
  ASSUME TreeInv, UNCHANGED <<release, checkNo, tree, softs>>,
         osStage' \in {"setup", "noTopology", "topology"} =>
           osStage \in {"setup", "noTopology", "topology"},
         osStage' \in Building \ {"root"} => osStage \in Building \ {"root"},
         osStage' = "root" => osStage \in {"topology", "root"},
         osStage' \in {"network", "cleaned"} => osStage \in {"network", "cleaned"}
  PROVE  TreeInv'
<1>1. \A k \in 1..checkNo' : Topology!Passes(k)'
  BY DEF TreeInv, Topology!Passes, Topology!SchemaValid, Topology!DigestMatches
<1>2. /\ osStage' \in {"setup", "noTopology", "topology"} => checkNo' = 0
      /\ osStage' \in Building \ {"root"} => checkNo' = 7
      /\ tree' = Topology!Absent \/ tree' = release'.archive.tree
      /\ osStage' \in {"network", "cleaned"} /\ tree' # Topology!Absent => softs' # {}
  BY DEF TreeInv
<1>3. osStage' \in {"setup", "noTopology", "topology"} \cup Building =>
        tree' = IF checkNo' >= 3 THEN release'.archive.tree ELSE Topology!Absent
  BY DEF TreeInv, Building
<1> QED BY <1>1, <1>2, <1>3 DEF TreeInv

LEMMA GroupStays ==
  ASSUME GroupInv, UNCHANGED <<group, limits, partial>>,
         osStage' \in Limited => osStage \in Limited,
         osStage' \in {"continue", "active"} => osStage \in {"continue", "active"}
  PROVE  GroupInv'
BY DEF GroupInv, Topology!LimitsDone

LEMMA NetworkStays ==
  ASSUME NetworkInv, UNCHANGED <<netStep, network, grants, netErrs>>,
         osStage' \in Building \cup {"topology", "held"} \cup TearingDown, osStage' # "cleaned",
         osStage' \in Building => osStage \in Building,
         osStage' = "topology" => osStage = "topology"
  PROVE  NetworkInv'
BY DEF NetworkInv, Building, TearingDown

\* The deletes of a namespace leave what was refused, or what a process holds.
LEMMA Survive ==
  ASSUME NetworkInv, Topology!DeleteNetwork
  PROVE  /\ netErrs' \subseteq Topology!Objects /\ network' \subseteq Topology!Objects
         /\ osHelper # "running" => network' \subseteq netErrs'
<1>1. PICK refused \in SUBSET Topology!Objects :
        network' = Topology!Survivors(refused) /\ netErrs' = network \cap refused
  BY DEF Topology!DeleteNetwork
<1>2. CASE osHelper = "running"
  BY <1>1, <1>2 DEF Topology!Survivors, NetworkInv
<1>3. CASE osHelper # "running"
  BY <1>1, <1>3 DEF Topology!Survivors, NetworkInv
<1> QED BY <1>2, <1>3

LEMMA TopologyStagesKeep ==
  ASSUME TopologyInv, Topology!TopologyNext PROVE TopologyStages'
<1> USE TopologyFacts DEF TopologyInv, TopologyStages
<1>1. CASE Topology!SetupStep
  BY <1>1 DEF Topology!SetupStep
<1>2. CASE Topology!SetupFails
  BY <1>2 DEF Topology!SetupFails
<1>3. CASE Topology!Authorize
  BY <1>3 DEF Topology!Authorize
<1>4. CASE Topology!PrepareRefused
  BY <1>4 DEF Topology!PrepareRefused
<1>5. CASE Topology!CheckPasses
  BY <1>5 DEF Topology!CheckPasses
<1>6. CASE Topology!RootFails
  BY <1>6 DEF Topology!RootFails, Topology!Fails
<1>7. CASE Topology!MakeGroup
  BY <1>7 DEF Topology!MakeGroup
<1>8. CASE Topology!WriteLimit
  BY <1>8 DEF Topology!WriteLimit
<1>9. CASE Topology!Delegated
  BY <1>9 DEF Topology!Delegated
<1>10. CASE Topology!GroupFails
  BY <1>10 DEF Topology!GroupFails, Topology!Fails
<1>11. CASE Topology!Spawn
  BY <1>11 DEF Topology!Spawn
<1>12. CASE Topology!AttachTry
  BY <1>12 DEF Topology!AttachTry
<1>13. CASE Topology!Continue
  BY <1>13 DEF Topology!Continue
<1>14. CASE Topology!HelperEnds
  BY <1>14 DEF Topology!HelperEnds
<1>15. CASE Topology!Cleanup
  BY <1>15 DEF Topology!Cleanup
<1>16. CASE Topology!KillGroup
  BY <1>16 DEF Topology!KillGroup
<1>17. CASE Topology!RemoveFiles
  BY <1>17 DEF Topology!RemoveFiles
<1>18. CASE Topology!EndCleanup
  BY <1>18 DEF Topology!EndCleanup
<1> QED BY <1>1, <1>2, <1>3, <1>4, <1>5, <1>6, <1>7, <1>8, <1>9, <1>10, <1>11, <1>12,
    <1>13, <1>14, <1>15, <1>16, <1>17, <1>18 DEF Topology!TopologyNext

LEMMA TopologyCountsKeep ==
  ASSUME TopologyInv, Topology!TopologyNext PROVE TopologyCounts'
<1> USE TopologyFacts DEF TopologyInv, TopologyCounts
<1>1. CASE Topology!SetupStep
  BY <1>1 DEF Topology!SetupStep
<1>2. CASE Topology!SetupFails
  BY <1>2 DEF Topology!SetupFails
<1>3. CASE Topology!Authorize
  BY <1>3 DEF Topology!Authorize
<1>4. CASE Topology!PrepareRefused
  BY <1>4 DEF Topology!PrepareRefused
<1>5. CASE Topology!CheckPasses
  BY <1>5 DEF Topology!CheckPasses
<1>6. CASE Topology!RootFails
  BY <1>6 DEF Topology!RootFails, Topology!Fails
<1>7. CASE Topology!MakeGroup
  BY <1>7 DEF Topology!MakeGroup
<1>8. CASE Topology!WriteLimit
  BY <1>8 DEF Topology!WriteLimit
<1>9. CASE Topology!Delegated
  BY <1>9 DEF Topology!Delegated
<1>10. CASE Topology!GroupFails
  BY <1>10 DEF Topology!GroupFails, Topology!Fails
<1>11. CASE Topology!Spawn
  BY <1>11 DEF Topology!Spawn
<1>12. CASE Topology!AttachTry
  BY <1>12 DEF Topology!AttachTry
<1>13. CASE Topology!Continue
  BY <1>13 DEF Topology!Continue
<1>14. CASE Topology!HelperEnds
  BY <1>14 DEF Topology!HelperEnds
<1>15. CASE Topology!Cleanup
  BY <1>15 DEF Topology!Cleanup
<1>16. CASE Topology!KillGroup
  BY <1>16 DEF Topology!KillGroup
<1>17. CASE Topology!RemoveFiles
  BY <1>17 DEF Topology!RemoveFiles
<1>18. CASE Topology!EndCleanup
  BY <1>18 DEF Topology!EndCleanup
<1> QED BY <1>1, <1>2, <1>3, <1>4, <1>5, <1>6, <1>7, <1>8, <1>9, <1>10, <1>11, <1>12,
    <1>13, <1>14, <1>15, <1>16, <1>17, <1>18 DEF Topology!TopologyNext

LEMMA NetworkKeeps ==
  ASSUME TopologyInv, Topology!TopologyNext PROVE NetworkInv'
<1> USE DEF TopologyInv, Building, TearingDown
<1>1. CASE Topology!SetupStep
  <2>1. /\ osStage = "setup" /\ netStep < 10 /\ netStep' = netStep + 1
        /\ network' = network \cup ({Topology!Plan[netStep + 1]} \cap Topology!Objects)
        /\ osStage' = IF netStep' = 10 THEN "topology" ELSE "setup"
        /\ UNCHANGED <<grants, netErrs, reasons>>
    BY <1>1, TopologyFacts DEF Topology!SetupStep
  <2>2. network' = {Topology!Plan[n] : n \in 1..netStep'} \cap Topology!Objects
    <3>1. 1..netStep' = (1..netStep) \cup {netStep + 1}
      BY <2>1 DEF TopologyCounts
    <3>2. network = {Topology!Plan[n] : n \in 1..netStep} \cap Topology!Objects
      BY <2>1 DEF NetworkInv
    <3> QED BY <2>1, <3>1, <3>2
  <2>3. netStep' = 10 => network' = Topology!Objects
    BY <2>2, TopologyFacts
  <2> QED BY <2>1, <2>2, <2>3 DEF NetworkInv
<1>2. CASE Topology!SetupFails
  <2>1. /\ osStage = "setup" /\ osStage' = "noTopology" /\ Topology!DeleteNetwork
        /\ osHelper = "none"
    BY <1>2 DEF Topology!SetupFails, HelperInv, Unspawned
  <2> QED BY <2>1, Survive DEF NetworkInv
<1>3. CASE Topology!Authorize
  BY <1>3 DEF Topology!Authorize, NetworkInv
<1>4. CASE Topology!PrepareRefused
  BY <1>4, NetworkStays DEF Topology!PrepareRefused
<1>5. CASE Topology!CheckPasses
  BY <1>5, NetworkStays DEF Topology!CheckPasses
<1>6. CASE Topology!RootFails
  BY <1>6, NetworkStays DEF Topology!RootFails, Topology!Fails
<1>7. CASE Topology!MakeGroup
  BY <1>7, NetworkStays DEF Topology!MakeGroup
<1>8. CASE Topology!WriteLimit
  BY <1>8, NetworkStays DEF Topology!WriteLimit
<1>9. CASE Topology!Delegated
  BY <1>9, NetworkStays DEF Topology!Delegated
<1>10. CASE Topology!GroupFails
  BY <1>10, NetworkStays DEF Topology!GroupFails, Topology!Fails
<1>11. CASE Topology!Spawn
  BY <1>11, NetworkStays DEF Topology!Spawn
<1>12. CASE Topology!AttachTry
  BY <1>12, NetworkStays DEF Topology!AttachTry
<1>13. CASE Topology!Continue
  BY <1>13, NetworkStays DEF Topology!Continue
<1>14. CASE Topology!HelperEnds
  BY <1>14, NetworkStays DEF Topology!HelperEnds
<1>15. CASE Topology!Cleanup
  BY <1>15, NetworkStays DEF Topology!Cleanup
<1>16. CASE Topology!KillGroup
  BY <1>16, NetworkStays DEF Topology!KillGroup
<1>17. CASE Topology!RemoveFiles
  BY <1>17, NetworkStays DEF Topology!RemoveFiles
<1>18. CASE Topology!EndCleanup
  <2>1. /\ osStage = "network" /\ osStage' = "cleaned" /\ Topology!DeleteNetwork
        /\ reasons' = reasons
    BY <1>18 DEF Topology!EndCleanup
  <2>2. osHelper # "running" => network' \subseteq netErrs'
    BY <2>1, Survive
  <2>3. osHelper = "running" => reasons' # {}
    BY <2>1 DEF HelperInv
  <2> QED BY <2>1, <2>2, <2>3, Survive DEF NetworkInv
<1> QED BY <1>1, <1>2, <1>3, <1>4, <1>5, <1>6, <1>7, <1>8, <1>9, <1>10, <1>11, <1>12,
    <1>13, <1>14, <1>15, <1>16, <1>17, <1>18 DEF Topology!TopologyNext

LEMMA TreeKeeps ==
  ASSUME TopologyInv, Topology!TopologyNext PROVE TreeInv'
<1> USE DEF TopologyInv, Building
<1>1. CASE Topology!SetupStep
  BY <1>1, TreeStays DEF Topology!SetupStep
<1>2. CASE Topology!SetupFails
  BY <1>2, TreeStays DEF Topology!SetupFails
<1>3. CASE Topology!Authorize
  BY <1>3, TreeStays DEF Topology!Authorize
<1>4. CASE Topology!PrepareRefused
  BY <1>4, TreeStays DEF Topology!PrepareRefused
<1>5. CASE Topology!CheckPasses
  <2>1. /\ osStage = "root" /\ checkNo < 7 /\ Topology!Passes(checkNo + 1)
        /\ checkNo' = checkNo + 1
        /\ tree' = IF checkNo' = 3 THEN release.archive.tree ELSE tree
        /\ osStage' = IF checkNo' = 7 THEN "group" ELSE "root"
        /\ UNCHANGED <<release, softs>>
    BY <1>5 DEF Topology!CheckPasses
  <2>2. checkNo \in 0..6 /\ checkNo' \in 1..7
    BY <2>1 DEF TopologyCounts
  <2>3. \A k \in 1..checkNo' : Topology!Passes(k)
    BY <2>1, <2>2 DEF TreeInv
  <2>4. \A k \in 1..checkNo' : Topology!Passes(k)'
    BY <2>1, <2>3 DEF Topology!Passes
  <2>5. tree = IF checkNo >= 3 THEN release.archive.tree ELSE Topology!Absent
    BY <2>1 DEF TreeInv
  <2>6. tree' = IF checkNo' >= 3 THEN release'.archive.tree ELSE Topology!Absent
    BY <2>1, <2>2, <2>5
  <2>7. osStage' \in {"root", "group"} /\ (osStage' = "group" => checkNo' = 7)
    BY <2>1
  <2> QED BY <2>4, <2>6, <2>7 DEF TreeInv
<1>6. CASE Topology!RootFails
  <2>1. /\ osStage' = "kill" /\ tree' = Topology!Absent /\ UNCHANGED <<release, checkNo>>
    BY <1>6 DEF Topology!RootFails, Topology!Fails
  <2>2. \A k \in 1..checkNo' : Topology!Passes(k)'
    BY <2>1 DEF Topology!Passes, TreeInv
  <2> QED BY <2>1, <2>2 DEF TreeInv
<1>7. CASE Topology!MakeGroup
  BY <1>7, TreeStays DEF Topology!MakeGroup
<1>8. CASE Topology!WriteLimit
  BY <1>8, TreeStays DEF Topology!WriteLimit
<1>9. CASE Topology!Delegated
  BY <1>9, TreeStays DEF Topology!Delegated
<1>10. CASE Topology!GroupFails
  <2>1. osStage' = "kill" /\ UNCHANGED <<release, checkNo, tree, softs>>
    BY <1>10 DEF Topology!GroupFails, Topology!Fails
  <2> QED BY <2>1, TreeStays
<1>11. CASE Topology!Spawn
  BY <1>11, TreeStays DEF Topology!Spawn
<1>12. CASE Topology!AttachTry
  BY <1>12, TreeStays DEF Topology!AttachTry
<1>13. CASE Topology!Continue
  BY <1>13, TreeStays DEF Topology!Continue
<1>14. CASE Topology!HelperEnds
  BY <1>14, TreeStays DEF Topology!HelperEnds
<1>15. CASE Topology!Cleanup
  BY <1>15, TreeStays DEF Topology!Cleanup
<1>16. CASE Topology!KillGroup
  BY <1>16, TreeStays DEF Topology!KillGroup
<1>17. CASE Topology!RemoveFiles
  <2>1. PICK treeGone \in BOOLEAN :
          /\ tree' = IF treeGone THEN Topology!Absent ELSE tree
          /\ softs' = IF treeGone \/ tree = Topology!Absent THEN {} ELSE {"tree"}
    BY <1>17 DEF Topology!RemoveFiles
  <2>2. osStage' = "network" /\ UNCHANGED <<release, checkNo>>
    BY <1>17 DEF Topology!RemoveFiles
  <2>3. \A k \in 1..checkNo' : Topology!Passes(k)'
    BY <2>2 DEF Topology!Passes, TreeInv
  <2>4. tree' = Topology!Absent \/ (tree' = tree /\ softs' # {})
    BY <2>1
  <2> QED BY <2>2, <2>3, <2>4 DEF TreeInv
<1>18. CASE Topology!EndCleanup
  BY <1>18, TreeStays DEF Topology!EndCleanup
<1> QED BY <1>1, <1>2, <1>3, <1>4, <1>5, <1>6, <1>7, <1>8, <1>9, <1>10, <1>11, <1>12,
    <1>13, <1>14, <1>15, <1>16, <1>17, <1>18 DEF Topology!TopologyNext

LEMMA GroupKeeps ==
  ASSUME TopologyInv, Topology!TopologyNext PROVE GroupInv'
<1> USE DEF TopologyInv, Limited
<1>1. CASE Topology!SetupStep
  BY <1>1, GroupStays DEF Topology!SetupStep
<1>2. CASE Topology!SetupFails
  BY <1>2, GroupStays DEF Topology!SetupFails
<1>3. CASE Topology!Authorize
  BY <1>3, GroupStays DEF Topology!Authorize
<1>4. CASE Topology!PrepareRefused
  BY <1>4, GroupStays DEF Topology!PrepareRefused
<1>5. CASE Topology!CheckPasses
  BY <1>5, GroupStays DEF Topology!CheckPasses
<1>6. CASE Topology!RootFails
  BY <1>6, GroupStays DEF Topology!RootFails, Topology!Fails, GroupInv
<1>7. CASE Topology!MakeGroup
  BY <1>7, GroupStays DEF Topology!MakeGroup, GroupInv
<1>8. CASE Topology!WriteLimit
  BY <1>8, GroupStays DEF Topology!WriteLimit, GroupInv
<1>9. CASE Topology!Delegated
  BY <1>9, GroupStays DEF Topology!Delegated, GroupInv, Topology!LimitsDone
<1>10. CASE Topology!GroupFails
  BY <1>10, GroupStays DEF Topology!GroupFails, Topology!Fails, GroupInv
<1>11. CASE Topology!Spawn
  BY <1>11, GroupStays DEF Topology!Spawn, Topology!LimitsDone, GroupInv
<1>12. CASE Topology!AttachTry
  BY <1>12, GroupStays DEF Topology!AttachTry, GroupInv, Topology!LimitsDone
<1>13. CASE Topology!Continue
  BY <1>13, GroupStays DEF Topology!Continue
<1>14. CASE Topology!HelperEnds
  BY <1>14, GroupStays DEF Topology!HelperEnds
<1>15. CASE Topology!Cleanup
  BY <1>15, GroupStays DEF Topology!Cleanup
<1>16. CASE Topology!KillGroup
  BY <1>16, GroupStays DEF Topology!KillGroup
<1>17. CASE Topology!RemoveFiles
  BY <1>17, GroupStays DEF Topology!RemoveFiles, GroupInv
<1>18. CASE Topology!EndCleanup
  BY <1>18, GroupStays DEF Topology!EndCleanup
<1> QED BY <1>1, <1>2, <1>3, <1>4, <1>5, <1>6, <1>7, <1>8, <1>9, <1>10, <1>11, <1>12,
    <1>13, <1>14, <1>15, <1>16, <1>17, <1>18 DEF Topology!TopologyNext

LEMMA HelperKeeps ==
  ASSUME TopologyInv, Topology!TopologyNext PROVE HelperInv'
<1> USE DEF TopologyInv, HelperInv, Unspawned, TearingDown
<1>1. CASE Topology!SetupStep
  BY <1>1 DEF Topology!SetupStep
<1>2. CASE Topology!SetupFails
  BY <1>2 DEF Topology!SetupFails
<1>3. CASE Topology!Authorize
  BY <1>3 DEF Topology!Authorize
<1>4. CASE Topology!PrepareRefused
  BY <1>4 DEF Topology!PrepareRefused
<1>5. CASE Topology!CheckPasses
  BY <1>5 DEF Topology!CheckPasses
<1>6. CASE Topology!RootFails
  BY <1>6 DEF Topology!RootFails, Topology!Fails
<1>7. CASE Topology!MakeGroup
  BY <1>7 DEF Topology!MakeGroup
<1>8. CASE Topology!WriteLimit
  BY <1>8 DEF Topology!WriteLimit
<1>9. CASE Topology!Delegated
  BY <1>9 DEF Topology!Delegated
<1>10. CASE Topology!GroupFails
  BY <1>10 DEF Topology!GroupFails, Topology!Fails
<1>11. CASE Topology!Spawn
  BY <1>11 DEF Topology!Spawn
<1>12. CASE Topology!AttachTry
  BY <1>12 DEF Topology!AttachTry
<1>13. CASE Topology!Continue
  BY <1>13 DEF Topology!Continue, GroupInv
<1>14. CASE Topology!HelperEnds
  BY <1>14 DEF Topology!HelperEnds
<1>15. CASE Topology!Cleanup
  BY <1>15 DEF Topology!Cleanup
<1>16. CASE Topology!KillGroup
  <2>1. osStage = "kill" /\ osStage' = "files" /\ UNCHANGED partial
    BY <1>16 DEF Topology!KillGroup
  <2>2. PICK killed \in BOOLEAN : \E emptied \in BOOLEAN :
          /\ reasons' = IF group \in {"none", "abandoned"} THEN {}
                        ELSE {r \in {"kill", "waitEmpty"} :
                                IF r = "kill" THEN ~killed ELSE ~emptied}
          /\ osHelper' = IF osHelper = "running" /\ emptied THEN "dead" ELSE osHelper
    BY <1>16 DEF Topology!KillGroup
  <2>3. PICK emptied \in BOOLEAN :
          /\ reasons' = IF group \in {"none", "abandoned"} THEN {}
                        ELSE {r \in {"kill", "waitEmpty"} :
                                IF r = "kill" THEN ~killed ELSE ~emptied}
          /\ osHelper' = IF osHelper = "running" /\ emptied THEN "dead" ELSE osHelper
    BY <2>2
  <2>4. ASSUME osHelper' = "running" PROVE osHelper = "running" /\ ~partial /\ reasons' # {}
    <3>1. osHelper = "running" /\ ~emptied
      BY <2>3, <2>4
    <3>2. group = "attached" /\ ~partial
      BY <2>1, <3>1
    <3>3. "waitEmpty" \in reasons'
      BY <2>3, <3>1, <3>2
    <3> QED BY <3>1, <3>2, <3>3
  <2> QED BY <2>1, <2>4
<1>17. CASE Topology!RemoveFiles
  BY <1>17 DEF Topology!RemoveFiles
<1>18. CASE Topology!EndCleanup
  BY <1>18 DEF Topology!EndCleanup
<1> QED BY <1>1, <1>2, <1>3, <1>4, <1>5, <1>6, <1>7, <1>8, <1>9, <1>10, <1>11, <1>12,
    <1>13, <1>14, <1>15, <1>16, <1>17, <1>18 DEF Topology!TopologyNext

LEMMA TopologyKeeps ==
  TopologyInv /\ [Topology!TopologyNext]_(Topology!topologyVars) => TopologyInv'
<1> SUFFICES ASSUME TopologyInv, [Topology!TopologyNext]_(Topology!topologyVars)
             PROVE  TopologyInv'
  OBVIOUS
<1>1. CASE UNCHANGED Topology!topologyVars
  <2> USE <1>1 DEF Topology!topologyVars, TopologyInv
  <2>1. TopologyStages' /\ TopologyCounts'
    BY DEF TopologyStages, TopologyCounts
  <2>2. NetworkInv'
    BY DEF NetworkInv
  <2>3. TreeInv'
    BY TreeStays
  <2>4. GroupInv' /\ HelperInv'
    BY DEF GroupInv, HelperInv, Topology!LimitsDone
  <2> QED BY <2>1, <2>2, <2>3, <2>4
<1>2. CASE Topology!TopologyNext
  BY <1>2, TopologyStagesKeep, TopologyCountsKeep, NetworkKeeps, TreeKeeps, GroupKeeps,
     HelperKeeps DEF TopologyInv
<1> QED BY <1>1, <1>2

LEMMA TopologyTyped == TopologyInv => Topology!TopologyTypeOK
BY TopologyFacts DEF TopologyInv, TopologyStages, TopologyCounts, NetworkInv, TreeInv,
   Topology!TopologyTypeOK

LEMMA TopologyLeftovers == TopologyInv => Topology!LeftoversAccounted
BY DEF TopologyInv, NetworkInv, TreeInv, GroupInv, HelperInv, TearingDown,
   Topology!LeftoversAccounted

\* What the seven checks of verifyRuntimeArtifact() together say of the tree.
LEMMA TopologyConfined == TopologyInv => Topology!ConfinedBeforeContinue
<1> SUFFICES ASSUME TopologyInv, osStage = "active", osHelper = "running"
             PROVE  Topology!ConfinedBeforeContinue
  BY DEF Topology!ConfinedBeforeContinue
<1> DEFINE m == release.manifest
           t == release.archive.tree
<1>1. checkNo = 7 /\ tree = t /\ \A k \in 1..7 : Topology!Passes(k)
  BY DEF TopologyInv, TreeInv, Building
<1>2. /\ Topology!SchemaValid(m) /\ Topology!LinksStay(t) /\ Topology!EntriesMatch(m, t)
      /\ Topology!NothingUndeclared(m, t) /\ Topology!Closed(m, t)
  <2>1. Topology!Passes(1) /\ Topology!Passes(4) /\ Topology!Passes(5)
        /\ Topology!Passes(6) /\ Topology!Passes(7)
    BY <1>1
  <2> QED BY <2>1 DEF Topology!Passes
<1> HIDE DEF m, t
<1>3. DOMAIN t = DOMAIN m.files
  BY <1>2 DEF Topology!EntriesMatch, Topology!NothingUndeclared
<1>4. ASSUME NEW p \in DOMAIN t
      PROVE  /\ t[p].kind = m.files[p].kind
             /\ t[p].kind = "file" => t[p].bits = m.files[p].bits
             /\ t[p].target \notin {Outside}
             /\ t[p].kind = "file" /\ t[p].executable => ~t[p].shared
  <2>1. /\ t[p].kind = m.files[p].kind
        /\ t[p].kind = "file" => t[p].bits = m.files[p].bits
        /\ t[p].kind # "symlink" => Topology!ModeWithin(t[p], m.files[p])
    BY <1>2, <1>3 DEF Topology!EntriesMatch
  <2>2. t[p].target # Outside
    BY <1>2 DEF Topology!LinksStay
  <2>3. ASSUME t[p].kind = "file", t[p].executable PROVE ~t[p].shared
    <3>1. (t[p].executable => m.files[p].executable) /\ (t[p].shared => m.files[p].shared)
      BY <2>1, <2>3 DEF Topology!ModeWithin
    <3>2. m.files[p].kind = "file" /\ m.files[p].executable => ~m.files[p].shared
      BY <1>2, <1>3, Zenon DEF Topology!SchemaValid
    <3> QED BY <2>1, <2>3, <3>1, <3>2, Zenon
  <2> QED BY <2>1, <2>2, <2>3
<1>5. Topology!ElfNeeds(t, m.node) \subseteq DOMAIN t
  BY <1>2, <1>3 DEF Topology!Closed
<1>6. /\ group = "attached" /\ Topology!LimitsDone /\ network = Topology!Objects
      /\ grants.out = {"proxy"} /\ grants.back = {"proxy"}
  BY DEF TopologyInv, NetworkInv, GroupInv, Building, Limited
<1> QED BY <1>1, <1>3, <1>4, <1>5, <1>6, Zenon DEF Topology!ConfinedBeforeContinue, m

(***************************************************************************)
(* The probe of the OS backend.  Every bit is of something the host can do *)
(* and that was done, every object that stays is an error, and what has    *)
(* been reported no step changes.                                          *)
(***************************************************************************)
ProbeInv ==
  /\ Probe!ProbeTypeOK
  /\ caps \subseteq sound
  /\ ranHelper => "helper" \in caps
  /\ "namespaces" \in caps => ranHelper
  /\ probeObjs \subseteq probeErrors
  /\ probed = "full" =>
       platform = "linux" /\ caps = Probe!All /\ probeErrors = {} /\ phase = 7

LEMMA ProbePhases ==
  /\ Len(Probe!Phases) = 6
  /\ Probe!All = {"runtime", "helper", "namespaces", "netns", "nft", "cgroup"}
  /\ \A n \in 1..6 : Probe!Phases[n] \in Probe!All
<1>1. Len(Probe!Phases) = 6 /\ DOMAIN Probe!Phases = 1..6
  BY DEF Probe!Phases
<1>2. Probe!All = {Probe!Phases[1], Probe!Phases[2], Probe!Phases[3], Probe!Phases[4],
                   Probe!Phases[5], Probe!Phases[6]}
  BY <1>1 DEF Probe!All
<1>3. \A n \in 1..6 : Probe!Phases[n] \in Probe!All
  BY <1>1 DEF Probe!All
<1> QED BY <1>1, <1>2, <1>3 DEF Probe!Phases

LEMMA ProbeStarts == Probe!ProbeInit => ProbeInv
BY ProbePhases DEF Probe!ProbeInit, ProbeInv, Probe!ProbeTypeOK

LEMMA ProbeKeeps == ProbeInv /\ [Probe!ProbeNext]_(Probe!probeVars) => ProbeInv'
<1> SUFFICES ASSUME ProbeInv, [Probe!ProbeNext]_(Probe!probeVars) PROVE ProbeInv'
  OBVIOUS
<1> USE ProbePhases DEF ProbeInv, Probe!ProbeTypeOK
<1>1. CASE UNCHANGED Probe!probeVars
  BY <1>1 DEF Probe!probeVars
<1>2. CASE Probe!NotLinux
  BY <1>2 DEF Probe!NotLinux, Probe!fullLevel
<1>3. ASSUME Probe!Running
      PROVE  phase \in 1..6 /\ probed # "full" /\ Probe!Now \in Probe!All
  BY <1>3 DEF Probe!Running, Probe!Now
<1>4. CASE Probe!Verify
  BY <1>3, <1>4 DEF Probe!Verify
<1>5. CASE Probe!Namespaces
  <2>1. ranHelper' <=> "helper" \in caps
    BY <1>5 DEF Probe!Namespaces
  <2>2. \/ /\ ranHelper' /\ Probe!Now \in sound
           /\ caps' = caps \cup {Probe!Now} /\ probeErrors' = probeErrors
        \/ caps' = caps /\ probeErrors' = probeErrors \cup {Probe!Now}
    BY <1>5 DEF Probe!Namespaces
  <2>3. /\ Probe!Running /\ Probe!Now = "namespaces" /\ phase' = phase + 1
        /\ UNCHANGED <<platform, sound, probeObjs, probed>>
    BY <1>5 DEF Probe!Namespaces
  <2>4. /\ caps' \subseteq sound /\ caps \subseteq caps' /\ probeErrors \subseteq probeErrors'
        /\ probeErrors' \subseteq Probe!All
    BY <1>3, <2>2, <2>3
  <2>5. /\ ranHelper' => "helper" \in caps'
        /\ "namespaces" \in caps' => ranHelper'
    BY <2>1, <2>2, <2>3, <2>4
  <2> QED BY <1>3, <2>3, <2>4, <2>5
<1>6. CASE Probe!Try
  <2>1. PICK created \in BOOLEAN, removed \in BOOLEAN :
          LET used == created /\ Probe!Now \in sound
          IN  /\ caps' = IF used THEN caps \cup {Probe!Now} ELSE caps
              /\ probeErrors' = IF used /\ removed THEN probeErrors
                                ELSE probeErrors \cup {Probe!Now}
              /\ probeObjs' = IF created /\ ~removed THEN probeObjs \cup {Probe!Now}
                              ELSE probeObjs
    BY <1>6 DEF Probe!Try
  <2>2. /\ Probe!Running /\ Probe!Now \notin {"helper", "namespaces"} /\ phase' = phase + 1
        /\ UNCHANGED <<platform, sound, ranHelper, probed>>
    BY <1>6 DEF Probe!Try, Probe!Throwaway
  <2>3. caps \subseteq caps' /\ caps' \subseteq sound /\ caps' \subseteq caps \cup {Probe!Now}
    <3>1. CASE created /\ Probe!Now \in sound
      BY <2>1, <2>2, <3>1
    <3>2. CASE ~(created /\ Probe!Now \in sound)
      BY <2>1, <2>2, <3>2
    <3> QED BY <3>1, <3>2
  <2>4. probeErrors' \subseteq Probe!All /\ probeObjs' \subseteq probeErrors'
    BY <1>3, <2>1, <2>2
  <2> QED BY <1>3, <2>2, <2>3, <2>4
<1>7. CASE Probe!Report
  BY <1>7 DEF Probe!Report, Probe!fullLevel
<1> QED BY <1>1, <1>2, <1>4, <1>5, <1>6, <1>7 DEF Probe!ProbeNext

LEMMA ProbeFollows == ProbeInv => Probe!FullIsProven
BY ProbePhases DEF ProbeInv, Probe!ProbeTypeOK, Probe!FullIsProven

(***************************************************************************)
(* Keys, quotas and rates.                                                 *)
(***************************************************************************)

\* The uses of an entry that count today.
Today(e) == IF e.day = day THEN e.daily ELSE 0

\* What the losses of the day have cost at most, and the uses of an entry since it was
\* last to be saved.
Lost == (SaveEvery - 1) * losses
Unsaved(e) == Today(e) % SaveEvery

KeysShape ==
  /\ keyFile \in Keys!Entries /\ keys \in Keys!Entries
  /\ day \in 0..MaxDay
  /\ losses \in 0..MaxLosses
  /\ served \in [Key -> Nat]
  /\ issued \subseteq Key

\* A key that was not made is nowhere.
KeysIssued ==
  \A k \in Key \ issued : ~keys[k].known /\ ~keyFile[k].known /\ served[k] = 0

KeysDated ==
  \A k \in Key : keys[k].day <= day /\ keyFile[k].day <= day

KeysWithin ==
  \A k \in Key :
    /\ Today(keys[k]) <= DayLimit[keys[k].tier]
    /\ Today(keyFile[k]) <= DayLimit[keyFile[k].tier]

KeysUp ==
  gateway => \A k \in Key :
    /\ keys[k].known => served[k] <= Today(keys[k]) + Lost
    /\ keyFile[k].known => served[k] <= Today(keyFile[k]) + Lost + Unsaved(keys[k])
    /\ keyFile[k].known /\ keys[k].known => keys[k].tier = keyFile[k].tier

KeysDown ==
  ~gateway => \A k \in Key :
    /\ ~keys[k].known
    /\ keyFile[k].known => served[k] <= Today(keyFile[k]) + Lost

QuotaInv == KeysShape /\ KeysIssued /\ KeysDated /\ KeysWithin /\ KeysUp /\ KeysDown

LEMMA KeysFacts ==
  /\ FreeTier \in Tier /\ Anyone \notin Key \cup Tier
  /\ DayLimit \in [Tier -> Nat] /\ MinuteLimit \in [Tier \cup {Anyone} -> Nat]
  /\ SaveEvery \in Nat \ {0} /\ Window \in Nat \ {0}
  /\ MaxClock \in Nat /\ MaxDay \in Nat /\ MaxLosses \in Nat
BY ServicesAssumption DEF ServicesAssumption, Keys!KeysAssumption, Keys!Tiers

LEMMA Remainder ==
  ASSUME NEW q \in Int, NEW p \in Int, NEW m \in Nat \ {0}, NEW r \in 0..m - 1, NEW s \in 0..m - 1,
         q * m + r = p * m + s
  PROVE  r = s
<1>1. (q - p) * m = s - r
  OBVIOUS
<1>2. q - p \in Int /\ s - r < m /\ s - r > -m
  OBVIOUS
<1>3. q - p >= 1 => (q - p) * m >= m
  OBVIOUS
<1>4. q - p <= -1 => (q - p) * m <= -m
  OBVIOUS
<1>5. q - p = 0
  BY <1>1, <1>2, <1>3, <1>4
<1> QED BY <1>1, <1>5

\* Fewer than SaveEvery uses are unsaved, none at a multiple of it, and one more after a
\* use that is none.
LEMMA UnsavedCount ==
  ASSUME NEW n \in Nat, NEW m \in Nat \ {0}
  PROVE  /\ n % m \in 0..m - 1 /\ 0 % m = 0
         /\ (n + 1) % m = 0 => n % m = m - 1
         /\ (n + 1) % m # 0 => (n + 1) % m = (n % m) + 1
<1> DEFINE Splits(i, q, r) == q \in Nat /\ r \in 0..m - 1 /\ i = q * m + r
<1>1. ASSUME NEW i \in Nat PROVE Splits(i, i \div m, i % m)
  <2>1. i \div m \in Nat /\ i % m \in Nat /\ i % m < m
    OBVIOUS
  <2>2. i = (i \div m) * m + (i % m)
    OBVIOUS
  <2> QED BY <2>1, <2>2
<1>2. ASSUME NEW i \in Nat, NEW q, NEW r, Splits(i, q, r) PROVE i % m = r
  <2>1. (i \div m) * m + (i % m) = q * m + r
    BY <1>1, <1>2
  <2>2. i \div m \in Int /\ q \in Int /\ i % m \in 0..m - 1 /\ r \in 0..m - 1
    BY <1>1, <1>2
  <2> QED BY <2>1, <2>2, Remainder
<1> HIDE DEF Splits
<1> DEFINE q == n \div m
           r == n % m
<1>3. q \in Nat /\ r \in 0..m - 1 /\ n = q * m + r /\ q * m \in Nat
  BY <1>1 DEF Splits
<1> HIDE DEF q, r
<1>4. 0 % m = 0
  OBVIOUS
<1>5. CASE r < m - 1
  <2>1. Splits(n + 1, q, r + 1) /\ n + 1 \in Nat
    BY <1>3, <1>5 DEF Splits
  <2>2. (n + 1) % m = r + 1
    BY <1>2, <2>1
  <2> QED BY <1>3, <1>4, <1>5, <2>2 DEF r
<1>6. CASE r = m - 1
  <2>1. (q + 1) * m = q * m + m
    BY <1>3
  <2>2. Splits(n + 1, q + 1, 0) /\ n + 1 \in Nat
    BY <1>3, <1>6, <2>1 DEF Splits
  <2>3. (n + 1) % m = 0
    BY <1>2, <2>2
  <2> QED BY <1>3, <1>4, <1>6, <2>3 DEF r
<1> QED BY <1>3, <1>5, <1>6

LEMMA CostNat == ASSUME NEW n \in Nat PROVE (SaveEvery - 1) * n \in Nat
BY KeysFacts

\* The numbers the invariant is about.
LEMMA KeyNumbers ==
  ASSUME QuotaInv, NEW k \in Key
  PROVE  /\ Today(keys[k]) \in Nat /\ Today(keyFile[k]) \in Nat /\ served[k] \in Nat
         /\ Unsaved(keys[k]) \in 0..SaveEvery - 1 /\ Lost \in Nat /\ SaveEvery \in Nat \ {0}
<1>1. /\ Today(keys[k]) \in Nat /\ Today(keyFile[k]) \in Nat /\ served[k] \in Nat
      /\ losses \in Nat /\ SaveEvery \in Nat \ {0}
  BY KeysFacts DEF QuotaInv, KeysShape, Keys!Entries, Today
<1>2. Unsaved(keys[k]) \in 0..SaveEvery - 1
  BY <1>1, UnsavedCount DEF Unsaved
<1>3. Lost \in Nat
  BY <1>1 DEF Lost
<1> QED BY <1>1, <1>2, <1>3

LEMMA StoreFacts ==
  ASSUME QuotaInv, gateway, NEW k \in Key
  PROVE  /\ keys[k].day <= day /\ Today(keys[k]) <= DayLimit[keys[k].tier]
         /\ keys[k].known => served[k] <= Today(keys[k]) + Lost
         /\ keyFile[k].known => served[k] <= Today(keyFile[k]) + Lost + Unsaved(keys[k])
         /\ keyFile[k].known /\ keys[k].known => keys[k].tier = keyFile[k].tier
BY DEF QuotaInv, KeysDated, KeysWithin, KeysUp

LEMMA OneLossMore ==
  ASSUME QuotaInv, losses' = losses + 1 PROVE Lost' = Lost + (SaveEvery - 1)
BY KeysFacts DEF Lost, QuotaInv, KeysShape

LEMMA KeysQuotaInit == Keys!KeysInit => QuotaInv
<1> SUFFICES ASSUME Keys!KeysInit PROVE QuotaInv
  OBVIOUS
<1> USE KeysFacts DEF Keys!KeysInit, Keys!NoKeys, Keys!None
<1>1. KeysShape
  BY DEF KeysShape, Keys!Entries
<1>2. KeysDated /\ KeysUp /\ KeysIssued
  BY DEF KeysDated, KeysUp, KeysIssued
<1>3. KeysWithin
  BY DEF KeysWithin, Today
<1>4. KeysDown
  BY DEF KeysDown
<1> QED BY <1>1, <1>2, <1>3, <1>4 DEF QuotaInv

LEMMA NoKeysWithin ==
  ASSUME QuotaInv
  PROVE  /\ Keys!NoKeys \in Keys!Entries
         /\ \A k \in Key : /\ ~Keys!NoKeys[k].known /\ Keys!NoKeys[k].day <= day
                           /\ Keys!NoKeys[k].daily = 0 /\ Keys!NoKeys[k].tier = FreeTier
                           /\ Today(Keys!NoKeys[k]) <= DayLimit[Keys!NoKeys[k].tier]
BY KeysFacts DEF QuotaInv, KeysShape, Keys!NoKeys, Keys!None, Keys!Entries, Today

LEMMA LoadQuota == ASSUME QuotaInv, Keys!Load PROVE QuotaInv'
<1>1. /\ ~gateway /\ gateway' /\ keys' \in {keyFile, Keys!NoKeys}
      /\ UNCHANGED <<keyFile, day, served, losses, issued>>
  BY DEF Keys!Load, Keys!timeVars, Keys!keyHistory
<1> USE KeysFacts, NoKeysWithin, <1>1 DEF QuotaInv
<1>2. KeysShape'
  BY DEF KeysShape
<1>3. KeysIssued'
  BY DEF KeysIssued
<1>4. KeysDated'
  BY DEF KeysDated
<1>5. KeysWithin'
  BY DEF KeysWithin, Today
<1>6. KeysUp'
  <2> SUFFICES ASSUME NEW k \in Key
               PROVE  /\ keys'[k].known => served'[k] <= Today(keys[k])' + Lost'
                      /\ keyFile'[k].known =>
                           served'[k] <= Today(keyFile[k])' + Lost' + Unsaved(keys[k])'
                      /\ keyFile'[k].known /\ keys'[k].known => keys'[k].tier = keyFile'[k].tier
    BY DEF KeysUp
  <2>1. keyFile[k].known => served[k] <= Today(keyFile[k]) + Lost
    BY DEF KeysDown
  <2>2. Lost' = Lost /\ Today(keyFile[k])' = Today(keyFile[k])
    BY DEF Lost, Today
  <2>3. Today(keys[k])' \in Nat
    BY <1>2 DEF KeysShape, Keys!Entries, Today
  <2>4. Unsaved(keys[k])' \in Nat
    BY <2>3, UnsavedCount DEF Unsaved
  <2>5. keys'[k].known => keys'[k] = keyFile[k] /\ Today(keys[k])' = Today(keyFile[k])
    BY DEF Today
  <2> HIDE DEF QuotaInv
  <2> QED BY <2>1, <2>2, <2>4, <2>5, KeyNumbers
<1>7. KeysDown'
  BY DEF KeysDown
<1> QED BY <1>2, <1>3, <1>4, <1>5, <1>6, <1>7

LEMMA ShutdownQuota == ASSUME QuotaInv, Keys!Shutdown PROVE QuotaInv'
<1>1. /\ gateway /\ ~gateway' /\ keys' = Keys!NoKeys /\ keyFile' = keys
      /\ UNCHANGED <<day, served, losses, issued>>
  BY DEF Keys!Shutdown, Keys!Ends, Keys!timeVars, Keys!keyHistory
<1> USE KeysFacts, NoKeysWithin, <1>1 DEF QuotaInv
<1>2. KeysShape'
  BY DEF KeysShape
<1>3. KeysIssued' /\ KeysDated'
  BY DEF KeysIssued, KeysDated
<1>4. KeysWithin'
  BY DEF KeysWithin, Today
<1>5. KeysUp'
  BY DEF KeysUp
<1>6. KeysDown'
  BY DEF KeysDown, KeysUp, Today, Lost
<1> QED BY <1>2, <1>3, <1>4, <1>5, <1>6

\* A crash costs the uses since the last save, fewer than SaveEvery.
LEMMA CrashQuota == ASSUME QuotaInv, Keys!Crash PROVE QuotaInv'
<1>1. /\ gateway /\ ~gateway' /\ keys' = Keys!NoKeys /\ keyFile' \in {keyFile, Keys!NoKeys}
      /\ losses < MaxLosses /\ losses' = losses + 1
      /\ UNCHANGED <<day, served, issued>>
  BY DEF Keys!Crash, Keys!SaveFails, Keys!Ends, Keys!timeVars, Keys!keyHistory
<1> USE KeysFacts, NoKeysWithin, <1>1 DEF QuotaInv
<1>2. KeysShape'
  BY DEF KeysShape
<1>3. KeysIssued' /\ KeysDated'
  BY DEF KeysIssued, KeysDated
<1>4. KeysWithin'
  BY DEF KeysWithin, Today
<1>5. KeysUp'
  BY DEF KeysUp
<1>6. KeysDown'
  <2> SUFFICES ASSUME NEW k \in Key, keyFile'[k].known
               PROVE  served[k] <= Today(keyFile[k]) + Lost'
    BY DEF KeysDown, Today
  <2>1. served[k] <= Today(keyFile[k]) + Lost + Unsaved(keys[k])
    BY DEF KeysUp
  <2> HIDE DEF QuotaInv
  <2> QED BY <2>1, KeyNumbers, OneLossMore
<1> QED BY <1>2, <1>3, <1>4, <1>5, <1>6

LEMMA MidnightQuota == ASSUME QuotaInv, Keys!Midnight PROVE QuotaInv'
<1>1. /\ day < MaxDay /\ day' = day + 1 /\ served' = [k \in Key |-> 0] /\ losses' = 0
      /\ UNCHANGED <<keyFile, keys, gateway, issued>>
  BY DEF Keys!Midnight, Keys!keyHistory
<1> USE KeysFacts, <1>1 DEF QuotaInv
<1>2. KeysShape'
  BY DEF KeysShape
<1>3. KeysIssued'
  BY DEF KeysIssued
<1>4. KeysDated'
  BY DEF KeysDated, KeysShape, Keys!Entries
<1>5. \A k \in Key : Today(keys[k])' = 0 /\ Today(keyFile[k])' = 0 /\ served'[k] = 0
  BY DEF KeysDated, KeysShape, Keys!Entries, Today
<1>6. KeysWithin'
  BY <1>5 DEF KeysWithin, KeysShape, Keys!Entries
<1>7. Lost' = 0 /\ \A k \in Key : Unsaved(keys[k])' = 0
  BY <1>5, UnsavedCount DEF Lost, Unsaved
<1>8. KeysUp'
  BY <1>5, <1>7 DEF KeysUp
<1>9. KeysDown'
  BY <1>5, <1>7 DEF KeysDown
<1> QED BY <1>2, <1>3, <1>4, <1>6, <1>8, <1>9

\* What a write of the whole store leaves in the file: all that is in memory or, if it
\* fails, what was there or nothing.  The uses unsaved in memory are those the losses
\* do not yet account for.
LEMMA SavedQuota ==
  ASSUME QuotaInv, gateway, NEW ks \in Keys!Entries, keys' = ks,
         keyFile' = ks \/ keyFile' \in {keyFile, Keys!NoKeys},
         UNCHANGED <<gateway, day>>, losses' \in 0..MaxLosses, served' \in [Key -> Nat],
         issued' \subseteq Key, KeysIssued',
         \A k \in Key :
           /\ ks[k].day <= day /\ Today(ks[k]) <= DayLimit[ks[k].tier]
           /\ ks[k].known => served'[k] <= Today(ks[k]) + Lost'
           /\ keyFile' = keyFile /\ keyFile[k].known =>
                /\ served'[k] <= Today(keyFile[k]) + Lost' + Unsaved(ks[k])
                /\ ks[k].known => ks[k].tier = keyFile[k].tier
  PROVE  QuotaInv'
<1> USE KeysFacts, NoKeysWithin DEF QuotaInv
<1>2. KeysShape'
  BY DEF KeysShape
<1>3. KeysDated'
  BY DEF KeysDated
<1>4. KeysWithin'
  BY DEF KeysWithin, Today
<1>5. KeysUp'
  <2> SUFFICES ASSUME NEW k \in Key
               PROVE  /\ ks[k].known => served'[k] <= Today(ks[k]) + Lost'
                      /\ keyFile'[k].known =>
                           served'[k] <= Today(keyFile'[k]) + Lost' + Unsaved(ks[k])
                      /\ keyFile'[k].known /\ ks[k].known => ks[k].tier = keyFile'[k].tier
    <3>1. \A e : Today(e) = IF e.day = day' THEN e.daily ELSE 0
      BY DEF Today
    <3> QED BY <3>1 DEF KeysUp, Today, Unsaved
  <2>1. CASE keyFile' = ks
    <3>1. Today(ks[k]) \in Nat /\ served'[k] \in Nat
      BY DEF Today, Keys!Entries
    <3>3. Lost' \in Nat
      <4>1. losses' \in Nat
        OBVIOUS
      <4>2. Lost' = (SaveEvery - 1) * losses'
        BY DEF Lost
      <4> QED BY <4>1, <4>2, CostNat
    <3>2. Unsaved(ks[k]) \in Nat
      BY <3>1, UnsavedCount DEF Unsaved
    <3> HIDE DEF QuotaInv
    <3> QED BY <2>1, <3>1, <3>2, <3>3
  <2>2. CASE keyFile' = keyFile
    BY <2>2
  <2>3. CASE keyFile' = Keys!NoKeys
    BY <2>3
  <2> QED BY <2>1, <2>2, <2>3
<1>6. KeysDown'
  BY DEF KeysDown
<1> QED BY <1>2, <1>3, <1>4, <1>5, <1>6

\* A key that was not made is not made by a write of the others.
LEMMA UnmadeStays ==
  ASSUME QuotaInv, keyFile' = keys' \/ keyFile' \in {keyFile, Keys!NoKeys}, issued \subseteq issued',
         \A k \in Key \ issued' : keys'[k].known = keys[k].known /\ served'[k] = served[k]
  PROVE  KeysIssued'
<1> SUFFICES ASSUME NEW k \in Key, k \notin issued'
             PROVE  ~keys'[k].known /\ ~keyFile'[k].known /\ served'[k] = 0
  BY DEF KeysIssued
<1>1. ~keys[k].known /\ ~keyFile[k].known /\ served[k] = 0
  BY DEF QuotaInv, KeysIssued
<1>2. ~Keys!NoKeys[k].known
  BY NoKeysWithin
<1> QED BY <1>1, <1>2

LEMMA CreateQuota ==
  ASSUME QuotaInv, NEW k \in Key, NEW tier \in Tier, Keys!CreateApiKey(k, tier)
  PROVE  QuotaInv'
<1> DEFINE e == [tier |-> tier, known |-> TRUE, active |-> TRUE, daily |-> 0, day |-> day]
           ks == [keys EXCEPT ![k] = e]
<1> USE KeysFacts
<1>1. ks \in Keys!Entries
  BY DEF QuotaInv, KeysShape, Keys!Entries
<1>2. /\ gateway /\ keys' = ks
      /\ keyFile' = ks \/ keyFile' \in {keyFile, Keys!NoKeys}
      /\ k \notin issued /\ issued' = issued \cup {k}
      /\ UNCHANGED <<gateway, day, losses, served>>
  BY DEF Keys!CreateApiKey, Keys!SaveFails, Keys!timeVars
<1>3. ks[k] = e /\ \A j \in Key : j # k => ks[j] = keys[j]
  BY DEF QuotaInv, KeysShape, Keys!Entries
<1>4. served[k] = 0 /\ ~keyFile[k].known
  BY <1>2 DEF QuotaInv, KeysIssued
<1>5. Lost' = Lost /\ Lost \in Nat /\ day \in Nat
  BY <1>2, KeyNumbers DEF Lost, QuotaInv, KeysShape
<1>6. /\ e.day = day /\ e.daily = 0 /\ e.tier = tier
      /\ DayLimit[tier] \in Nat
  OBVIOUS
<1> HIDE DEF ks, e
<1>7. ASSUME NEW j \in Key
      PROVE  /\ ks[j].day <= day /\ Today(ks[j]) <= DayLimit[ks[j].tier]
             /\ ks[j].known => served'[j] <= Today(ks[j]) + Lost'
             /\ keyFile' = keyFile /\ keyFile[j].known =>
                  /\ served'[j] <= Today(keyFile[j]) + Lost' + Unsaved(ks[j])
                  /\ ks[j].known => ks[j].tier = keyFile[j].tier
  <2>1. CASE j = k
    BY <1>2, <1>3, <1>4, <1>5, <1>6, <2>1 DEF Today
  <2>2. CASE j # k
    <3>1. ks[j] = keys[j] /\ served'[j] = served[j]
      BY <1>2, <1>3, <2>2
    <3>2. /\ keys[j].day <= day /\ Today(keys[j]) <= DayLimit[keys[j].tier]
          /\ keys[j].known => served[j] <= Today(keys[j]) + Lost
          /\ keyFile[j].known => served[j] <= Today(keyFile[j]) + Lost + Unsaved(keys[j])
          /\ keyFile[j].known /\ keys[j].known => keys[j].tier = keyFile[j].tier
      BY <1>2, StoreFacts
    <3> QED BY <1>5, <3>1, <3>2
  <2> QED BY <2>1, <2>2
<1>8. KeysIssued'
  BY <1>2, <1>3, UnmadeStays
<1>9. served' \in [Key -> Nat] /\ losses' \in 0..MaxLosses /\ issued' \subseteq Key
  BY <1>2 DEF QuotaInv, KeysShape
<1> QED BY <1>1, <1>2, <1>7, <1>8, <1>9, SavedQuota

LEMMA RevokeQuota == ASSUME QuotaInv, NEW k \in Key, Keys!RevokeApiKey(k) PROVE QuotaInv'
<1> DEFINE ks == [keys EXCEPT ![k].active = FALSE]
<1>1. ks \in Keys!Entries
  BY DEF QuotaInv, KeysShape, Keys!Entries
<1>2. /\ gateway /\ keys' = ks
      /\ keyFile' = ks \/ keyFile' \in {keyFile, Keys!NoKeys}
      /\ UNCHANGED <<gateway, day, losses, served, issued>>
  BY DEF Keys!RevokeApiKey, Keys!SaveFails, Keys!timeVars
<1>3. \A j \in Key : /\ ks[j].day = keys[j].day /\ ks[j].daily = keys[j].daily
                     /\ ks[j].tier = keys[j].tier /\ ks[j].known = keys[j].known
  BY DEF QuotaInv, KeysShape, Keys!Entries
<1>4. served' \in [Key -> Nat] /\ losses' \in 0..MaxLosses /\ issued' \subseteq Key /\ Lost' = Lost
  BY <1>2 DEF QuotaInv, KeysShape, Lost
<1> HIDE DEF ks
<1>5. \A j \in Key : /\ Today(ks[j]) = Today(keys[j]) /\ Unsaved(ks[j]) = Unsaved(keys[j])
  BY <1>3 DEF Today, Unsaved
<1>6. \A j \in Key :
        /\ ks[j].day <= day /\ Today(ks[j]) <= DayLimit[ks[j].tier]
        /\ ks[j].known => served'[j] <= Today(ks[j]) + Lost'
        /\ keyFile' = keyFile /\ keyFile[j].known =>
             /\ served'[j] <= Today(keyFile[j]) + Lost' + Unsaved(ks[j])
             /\ ks[j].known => ks[j].tier = keyFile[j].tier
  <2> SUFFICES ASSUME NEW j \in Key
               PROVE  /\ ks[j].day <= day /\ Today(ks[j]) <= DayLimit[ks[j].tier]
                      /\ ks[j].known => served'[j] <= Today(ks[j]) + Lost'
                      /\ keyFile' = keyFile /\ keyFile[j].known =>
                           /\ served'[j] <= Today(keyFile[j]) + Lost' + Unsaved(ks[j])
                           /\ ks[j].known => ks[j].tier = keyFile[j].tier
    OBVIOUS
  <2>1. /\ keys[j].day <= day /\ Today(keys[j]) <= DayLimit[keys[j].tier]
        /\ keys[j].known => served[j] <= Today(keys[j]) + Lost
        /\ keyFile[j].known => served[j] <= Today(keyFile[j]) + Lost + Unsaved(keys[j])
        /\ keyFile[j].known /\ keys[j].known => keys[j].tier = keyFile[j].tier
    BY <1>2, StoreFacts
  <2> QED BY <1>2, <1>3, <1>4, <1>5, <2>1
<1>7. KeysIssued'
  BY <1>2, <1>3, UnmadeStays
<1> QED BY <1>1, <1>2, <1>4, <1>6, <1>7, SavedQuota

LEMMA UsedEntry ==
  ASSUME QuotaInv, NEW k \in Key, Keys!InQuota(keys[k])
  PROVE  /\ [keys EXCEPT ![k] = Keys!Used(keys[k])] \in Keys!Entries
         /\ Keys!Used(keys[k]).tier = keys[k].tier /\ Keys!Used(keys[k]).day = day
         /\ Keys!Used(keys[k]).known = keys[k].known
         /\ Keys!Used(keys[k]).active = keys[k].active
         /\ Keys!Used(keys[k]).daily = Today(keys[k]) + 1
         /\ Today(keys[k]) + 1 <= DayLimit[keys[k].tier]
         /\ Today(keys[k]) \in Nat
<1> DEFINE e == keys[k]
<1>1. /\ e \in [tier : Tier, known : BOOLEAN, active : BOOLEAN, daily : Nat, day : 0..MaxDay]
      /\ day \in 0..MaxDay
  BY DEF QuotaInv, KeysShape, Keys!Entries
<1>2. Keys!Today(e) = [e EXCEPT !.daily = Today(e), !.day = day]
  BY <1>1 DEF Keys!Today, Today
<1>3. Keys!Used(e) = [e EXCEPT !.daily = Today(e) + 1, !.day = day]
  BY <1>1, <1>2 DEF Keys!Used
<1>4. Today(e) \in Nat
  BY <1>1 DEF Today
<1>5. Today(e) < DayLimit[e.tier]
  BY <1>1, <1>2 DEF Keys!InQuota
<1>6. DayLimit[e.tier] \in Nat
  BY <1>1, KeysFacts
<1>7. Keys!Used(e) \in [tier : Tier, known : BOOLEAN, active : BOOLEAN, daily : Nat, day : 0..MaxDay]
  <2>1. Keys!Used(e) = [tier |-> e.tier, known |-> e.known, active |-> e.active,
                        daily |-> Today(e) + 1, day |-> day]
    <3> HIDE DEF e
    <3> QED BY <1>1, <1>3
  <2>2. /\ e.tier \in Tier /\ e.known \in BOOLEAN /\ e.active \in BOOLEAN
        /\ Today(e) + 1 \in Nat /\ day \in 0..MaxDay
    <3> HIDE DEF e
    <3> QED BY <1>1, <1>4
  <2> HIDE DEF e
  <2> QED BY <2>1, <2>2
<1>8. [keys EXCEPT ![k] = Keys!Used(e)] \in Keys!Entries
  BY <1>7 DEF QuotaInv, KeysShape, Keys!Entries
<1> HIDE DEF e
<1>9. /\ Keys!Used(e).tier = e.tier /\ Keys!Used(e).day = day
      /\ Keys!Used(e).known = e.known /\ Keys!Used(e).active = e.active
      /\ Keys!Used(e).daily = Today(e) + 1
  BY <1>1, <1>3
<1> QED BY <1>4, <1>5, <1>6, <1>8, <1>9 DEF e

\* A use is counted in memory before it is served, and served only if it is saved or is
\* to be saved later; one whose save fails is a loss.
LEMMA RequestQuota == ASSUME QuotaInv, NEW k \in Key, Keys!Request(k) PROVE QuotaInv'
<1> DEFINE used == Keys!Used(keys[k])
           ks == [keys EXCEPT ![k] = used]
           last == used.daily % SaveEvery = 0
<1>1. /\ gateway /\ keys[k].known /\ Keys!InQuota(keys[k]) /\ keys' = ks
      /\ UNCHANGED <<gateway, day, issued>>
      /\ \/ /\ keyFile' = IF last THEN ks ELSE keyFile
            /\ served' = [served EXCEPT ![k] = @ + 1] /\ losses' = losses
         \/ /\ last /\ keyFile' \in {keyFile, Keys!NoKeys} /\ served' = served
            /\ losses < MaxLosses /\ losses' = losses + 1
  BY DEF Keys!Request, Keys!SaveFails, Keys!timeVars, Keys!keyHistory
<1>2. /\ ks \in Keys!Entries /\ used.tier = keys[k].tier /\ used.day = day
      /\ used.known = keys[k].known /\ used.daily = Today(keys[k]) + 1
      /\ Today(keys[k]) + 1 <= DayLimit[keys[k].tier]
  BY <1>1, UsedEntry
<1>3. ks[k] = used /\ \A j \in Key : j # k => ks[j] = keys[j]
  BY DEF QuotaInv, KeysShape, Keys!Entries
<1> HIDE DEF ks, used
<1>4. served \in [Key -> Nat] /\ losses \in 0..MaxLosses /\ MaxLosses \in Nat /\ issued \subseteq Key
      /\ day \in Nat
  BY KeysFacts DEF QuotaInv, KeysShape
<1>5. /\ served' \in [Key -> Nat] /\ losses' \in 0..MaxLosses
      /\ Lost' \in {Lost, Lost + (SaveEvery - 1)}
      /\ \A j \in Key : j # k => served'[j] = served[j]
  BY <1>1, <1>4, OneLossMore DEF Lost
<1>6. /\ Today(ks[k]) = Today(keys[k]) + 1
      /\ Unsaved(ks[k]) = (Today(keys[k]) + 1) % SaveEvery
      /\ last <=> (Today(keys[k]) + 1) % SaveEvery = 0
  BY <1>2, <1>3 DEF Today, Unsaved
<1> HIDE DEF last
<1>7. ASSUME NEW j \in Key, j # k
      PROVE  /\ ks[j].day <= day /\ Today(ks[j]) <= DayLimit[ks[j].tier]
             /\ ks[j].known => served'[j] <= Today(ks[j]) + Lost'
             /\ keyFile' = keyFile /\ keyFile[j].known =>
                  /\ served'[j] <= Today(keyFile[j]) + Lost' + Unsaved(ks[j])
                  /\ ks[j].known => ks[j].tier = keyFile[j].tier
  <2>1. ks[j] = keys[j] /\ served'[j] = served[j]
    BY <1>3, <1>5, <1>7
  <2>2. /\ keys[j].day <= day /\ Today(keys[j]) <= DayLimit[keys[j].tier]
        /\ keys[j].known => served[j] <= Today(keys[j]) + Lost
        /\ keyFile[j].known => served[j] <= Today(keyFile[j]) + Lost + Unsaved(keys[j])
        /\ keyFile[j].known /\ keys[j].known => keys[j].tier = keyFile[j].tier
    BY <1>1, StoreFacts
  <2>3. /\ Today(keys[j]) \in Nat /\ Today(keyFile[j]) \in Nat /\ served[j] \in Nat
        /\ Unsaved(keys[j]) \in Nat /\ Lost \in Nat /\ SaveEvery - 1 \in Nat
    BY KeyNumbers
  <2> QED BY <1>5, <2>1, <2>2, <2>3
<1>8. /\ ks[k].day <= day /\ Today(ks[k]) <= DayLimit[ks[k].tier]
      /\ ks[k].known => served'[k] <= Today(ks[k]) + Lost'
  <2>1. served[k] <= Today(keys[k]) + Lost /\ served'[k] \in {served[k], served[k] + 1}
    BY <1>1, <1>4 DEF QuotaInv, KeysUp
  <2> QED BY <1>2, <1>3, <1>4, <1>5, <1>6, <2>1, KeyNumbers
<1>9. ASSUME keyFile' = keyFile, keyFile[k].known
      PROVE  /\ served'[k] <= Today(keyFile[k]) + Lost' + Unsaved(ks[k])
             /\ ks[k].known => ks[k].tier = keyFile[k].tier
  <2>1. /\ served[k] <= Today(keyFile[k]) + Lost + Unsaved(keys[k])
        /\ keys[k].tier = keyFile[k].tier
    BY <1>1, <1>9 DEF QuotaInv, KeysUp
  <2>2. /\ Today(keys[k]) \in Nat /\ Today(keyFile[k]) \in Nat /\ served[k] \in Nat
        /\ Unsaved(keys[k]) \in 0..SaveEvery - 1 /\ Lost \in Nat /\ SaveEvery \in Nat \ {0}
    BY KeyNumbers
  <2>3. /\ last => Unsaved(ks[k]) = 0 /\ Unsaved(keys[k]) = SaveEvery - 1
        /\ ~last => Unsaved(ks[k]) = Unsaved(keys[k]) + 1
    BY <1>6, <2>2, UnsavedCount DEF Unsaved
  <2>4. CASE last /\ served' = served /\ losses' = losses + 1
    BY <1>2, <1>3, <2>1, <2>2, <2>3, <2>4, OneLossMore
  <2>5. CASE ~last /\ served'[k] = served[k] + 1 /\ losses' = losses
    <3>1. Lost' = Lost
      BY <2>5 DEF Lost
    <3> QED BY <1>2, <1>3, <2>1, <2>2, <2>3, <2>5, <3>1
  <2>6. CASE last /\ keyFile' = ks /\ served'[k] = served[k] + 1 /\ losses' = losses
    <3>1. Today(keyFile[k]) = Today(keys[k]) + 1 /\ Lost' = Lost
      BY <1>6, <1>9, <2>6 DEF Lost
    <3>2. served[k] <= Today(keys[k]) + Lost
      BY <1>1 DEF QuotaInv, KeysUp
    <3> QED BY <1>2, <1>3, <2>1, <2>2, <2>3, <2>6, <3>1, <3>2
  <2>7. served' = [served EXCEPT ![k] = @ + 1] => served'[k] = served[k] + 1
    BY <1>4
  <2> QED BY <1>1, <2>4, <2>5, <2>6, <2>7
<1>10. KeysIssued'
  <2>1. k \in issued
    BY <1>1 DEF QuotaInv, KeysIssued
  <2>2. \A j \in Key \ issued : ks[j] = keys[j] /\ served'[j] = served[j]
    BY <1>3, <1>5, <2>1
  <2> QED BY <1>1, <2>2, UnmadeStays
<1>11. keyFile' = ks \/ keyFile' \in {keyFile, Keys!NoKeys}
  BY <1>1
<1>12. \A j \in Key :
         /\ ks[j].day <= day /\ Today(ks[j]) <= DayLimit[ks[j].tier]
         /\ ks[j].known => served'[j] <= Today(ks[j]) + Lost'
         /\ keyFile' = keyFile /\ keyFile[j].known =>
              /\ served'[j] <= Today(keyFile[j]) + Lost' + Unsaved(ks[j])
              /\ ks[j].known => ks[j].tier = keyFile[j].tier
  BY <1>7, <1>8, <1>9
<1> QED BY <1>1, <1>2, <1>4, <1>5, <1>10, <1>11, <1>12, SavedQuota

LEMMA KeysQuotaStep == QuotaInv /\ [Keys!KeysNext]_(Keys!keyVars) => QuotaInv'
<1> SUFFICES ASSUME QuotaInv, [Keys!KeysNext]_(Keys!keyVars) PROVE QuotaInv'
  OBVIOUS
<1>1. ASSUME UNCHANGED <<keyFile, keys, gateway, day, losses, served, issued>> PROVE QuotaInv'
  BY <1>1 DEF QuotaInv, KeysShape, KeysIssued, KeysDated, KeysWithin, KeysUp, KeysDown,
              Unsaved, Lost, Today
<1>2. CASE UNCHANGED Keys!keyVars
  BY <1>1, <1>2 DEF Keys!keyVars
<1>3. CASE Keys!RequestAnyone \/ Keys!Tick
  BY <1>1, <1>3 DEF Keys!RequestAnyone, Keys!Tick, Keys!timeVars, Keys!keyHistory
<1>4. CASE Keys!Load \/ Keys!Shutdown \/ Keys!Crash \/ Keys!Midnight
  BY <1>4, LoadQuota, ShutdownQuota, CrashQuota, MidnightQuota
<1>5. CASE \E k \in Key : \/ Keys!RevokeApiKey(k) \/ Keys!Request(k)
                          \/ \E tier \in Tier : Keys!CreateApiKey(k, tier)
  BY <1>5, RevokeQuota, RequestQuota, CreateQuota
<1> QED BY <1>2, <1>3, <1>4, <1>5 DEF Keys!KeysNext

LEMMA QuotaFollows == QuotaInv => Keys!QuotaHeld
<1> SUFFICES ASSUME QuotaInv, NEW k \in Key, keys[k].known
             PROVE  served[k] <= DayLimit[keys[k].tier] + Lost
  BY DEF Keys!QuotaHeld, Lost
<1>1. served[k] <= Today(keys[k]) + Lost
  BY DEF QuotaInv, KeysUp, KeysDown
<1>2. Today(keys[k]) <= DayLimit[keys[k].tier]
  BY DEF QuotaInv, KeysWithin
<1>3. DayLimit[keys[k].tier] \in Nat
  BY KeysFacts DEF QuotaInv, KeysShape, Keys!Entries
<1> QED BY <1>1, <1>2, <1>3, KeyNumbers

(***************************************************************************)
(* The rate.  What the limiter has pruned no longer counts, and the number *)
(* of a request makes it new in its bucket.                                *)
(***************************************************************************)
Ids == Key \cup {Anyone}
LimitOf(i) == MinuteLimit[IF i = Anyone THEN Anyone ELSE keys[i].tier]

Bucket(i) ==
  /\ IsFiniteSet(passed[i]) /\ windows[i] \subseteq passed[i]
  /\ \A r \in passed[i] : r[1] \in Nat /\ r[2] \in 1..Cardinality(passed[i])
  /\ Keys!Recent(passed[i], clock - Window) \subseteq windows[i]
  /\ Cardinality(Keys!Recent(windows[i], clock - Window)) <= LimitOf(i)

\* The instance's own name for the cardinality of a set.
LEMMA KeysCardinality == ASSUME NEW S PROVE Keys!Cardinality(S) = Cardinality(S)
BY DEF Keys!Cardinality, Cardinality

Unused(i) == (~gateway \/ (i \in Key /\ ~keys[i].known)) => passed[i] = {}

RateInv ==
  /\ clock \in Nat
  /\ windows \in [Ids -> SUBSET (Nat \X Nat)] /\ passed \in [Ids -> SUBSET (Nat \X Nat)]
  /\ \A i \in Ids : Bucket(i) /\ Unused(i)

LEMMA LimitNat == ASSUME QuotaInv, NEW i \in Ids PROVE LimitOf(i) \in Nat
BY KeysFacts DEF QuotaInv, KeysShape, Keys!Entries, Ids, LimitOf

LEMMA EmptyBucket ==
  ASSUME NEW i \in Ids, windows[i] = {}, passed[i] = {}, LimitOf(i) \in Nat
  PROVE  Bucket(i) /\ Unused(i)
<1>1. Keys!Recent(windows[i], clock - Window) = {} /\ Keys!Recent(passed[i], clock - Window) = {}
  BY DEF Keys!Recent
<1> QED BY <1>1, FS_EmptySet DEF Bucket, Unused

LEMMA KeysRateInit == Keys!KeysInit => RateInv
<1> SUFFICES ASSUME Keys!KeysInit PROVE RateInv
  OBVIOUS
<1>1. /\ windows = [i \in Ids |-> {}] /\ passed = [i \in Ids |-> {}] /\ clock = 0
  BY DEF Keys!KeysInit, Keys!Ids, Ids
<1>2. \A i \in Ids : Bucket(i) /\ Unused(i)
  BY <1>1, KeysQuotaInit, LimitNat, EmptyBucket
<1> QED BY <1>1, <1>2 DEF RateInv

\* The buckets stay as they are, and so does the tier of who has used them.
LEMMA BucketsStay ==
  ASSUME QuotaInv', RateInv, UNCHANGED <<clock, windows, passed>>,
         \A i \in Ids : passed[i] # {} => LimitOf(i)' = LimitOf(i),
         \A i \in Ids : Unused(i)'
  PROVE  RateInv'
<1> SUFFICES ASSUME NEW i \in Ids PROVE Bucket(i)'
  BY DEF RateInv
<1>1. Bucket(i)
  BY DEF RateInv
<1>2. CASE passed[i] # {}
  BY <1>1, <1>2 DEF Bucket
<1>3. CASE passed[i] = {}
  <2>1. Keys!Recent(windows[i], clock - Window) = {} /\ Keys!Recent(passed[i], clock - Window) = {}
    BY <1>1, <1>3 DEF Bucket, Keys!Recent
  <2>2. LimitOf(i)' \in Nat
    BY KeysFacts DEF QuotaInv, KeysShape, Keys!Entries, Ids, LimitOf
  <2>3. /\ Keys!Recent(windows[i], clock - Window)' = {}
        /\ Keys!Recent(passed[i], clock - Window)' = {}
    BY <2>1 DEF Keys!Recent
  <2>4. Cardinality(Keys!Recent(windows[i], clock - Window))' <= LimitOf(i)'
    BY <2>2, <2>3, FS_EmptySet
  <2> QED BY <1>1, <2>3, <2>4 DEF Bucket
<1> QED BY <1>2, <1>3

\* Between the steps of one process no tier changes and no key goes.
LEMMA TierStays ==
  ASSUME QuotaInv', RateInv, UNCHANGED <<clock, windows, passed, gateway>>,
         \A k \in Key : keys[k].known => keys'[k].known /\ keys'[k].tier = keys[k].tier
  PROVE  RateInv'
<1>1. \A i \in Ids : Unused(i)
  BY DEF RateInv
<1>2. \A i \in Ids : passed[i] # {} => LimitOf(i)' = LimitOf(i)
  BY <1>1 DEF Unused, LimitOf, Ids
<1>3. \A i \in Ids : Unused(i)'
  BY <1>1 DEF Unused
<1> QED BY <1>2, <1>3, BucketsStay

LEMMA BucketsEmpty ==
  ASSUME QuotaInv', RateInv, clock' = clock,
         windows' = [i \in Ids |-> {}], passed' = [i \in Ids |-> {}]
  PROVE  RateInv'
<1>1. ASSUME NEW i \in Ids PROVE Bucket(i)' /\ Unused(i)'
  <2>1. LimitOf(i)' \in Nat
    BY KeysFacts DEF QuotaInv, KeysShape, Keys!Entries, Ids, LimitOf
  <2>2. windows'[i] = {} /\ passed'[i] = {}
    OBVIOUS
  <2>3. Keys!Recent(windows'[i], clock' - Window) = {} /\ Keys!Recent(passed'[i], clock' - Window) = {}
    BY <2>2 DEF Keys!Recent
  <2> QED BY <2>1, <2>2, <2>3, FS_EmptySet DEF Bucket, Unused
<1> QED BY <1>1 DEF RateInv

\* A request is let through only below the limit, and then it is in both.
LEMMA LimitedRate ==
  ASSUME QuotaInv, QuotaInv', RateInv, NEW i \in Ids, NEW tier, tier \in Tier \cup {Anyone},
         gateway, UNCHANGED <<clock, gateway>>,
         MinuteLimit[tier] = LimitOf(i),
         \A j \in Ids : LimitOf(j)' = LimitOf(j),
         \A k \in Key : keys'[k].known = keys[k].known,
         i \in Key => keys[i].known,
         Keys!Limited(i, tier)
  PROVE  RateInv'
<1> DEFINE from == clock - Window
           w == Keys!Recent(windows[i], from)
           r == <<clock, Cardinality(passed[i]) + 1>>
<1>1. /\ IsFiniteSet(passed[i]) /\ windows[i] \subseteq passed[i]
      /\ \A x \in passed[i] : x[1] \in Nat /\ x[2] \in 1..Cardinality(passed[i])
      /\ Keys!Recent(passed[i], from) \subseteq windows[i]
      /\ Cardinality(w) <= LimitOf(i)
  BY DEF RateInv, Bucket
<1>2. Cardinality(passed[i]) \in Nat /\ IsFiniteSet(w) /\ w \subseteq windows[i]
  <2>1. w \subseteq windows[i]
    BY DEF Keys!Recent
  <2> HIDE DEF w
  <2> QED BY <1>1, <2>1, FS_Subset, FS_CardinalityType
<1>3. /\ clock \in Nat /\ Window \in Nat \ {0} /\ LimitOf(i) \in Nat /\ Cardinality(w) \in Nat
      /\ windows \in [Ids -> SUBSET (Nat \X Nat)] /\ passed \in [Ids -> SUBSET (Nat \X Nat)]
  BY <1>2, KeysFacts, LimitNat, FS_CardinalityType DEF RateInv
<1>4. ASSUME NEW j \in Ids, j # i, windows'[j] = windows[j], passed'[j] = passed[j]
      PROVE  Bucket(j)' /\ Unused(j)'
  <2>1. Bucket(j) /\ Unused(j)
    BY DEF RateInv
  <2> QED BY <1>4, <2>1 DEF Bucket, Unused
<1>5. \/ /\ Cardinality(w) >= MinuteLimit[tier]
         /\ windows' = [windows EXCEPT ![i] = w] /\ passed' = passed
      \/ /\ ~(Cardinality(w) >= MinuteLimit[tier])
         /\ windows' = [windows EXCEPT ![i] = w \cup {r}]
         /\ passed' = [passed EXCEPT ![i] = @ \cup {r}]
  BY KeysCardinality DEF Keys!Limited
<1>6. CASE Cardinality(w) >= MinuteLimit[tier]
  <2>1. windows' = [windows EXCEPT ![i] = w] /\ passed' = passed
    BY <1>5, <1>6
  <2>2. windows'[i] = w
    BY <1>3, <2>1
  <2>3. Keys!Recent(w, from) = w
    BY DEF Keys!Recent
  <2>4. Keys!Recent(passed[i], from) \subseteq w
    BY <1>1 DEF Keys!Recent
  <2>5. clock' - Window = from /\ LimitOf(i)' = LimitOf(i)
    OBVIOUS
  <2> HIDE DEF w, from
  <2>6. Bucket(i)'
    BY <1>1, <1>2, <2>1, <2>2, <2>3, <2>4, <2>5 DEF Bucket
  <2>7. Unused(i)'
    BY DEF Unused
  <2>8. windows' \in [Ids -> SUBSET (Nat \X Nat)]
    BY <1>1, <1>2, <1>3, <2>1
  <2>9. \A j \in Ids : Bucket(j)' /\ Unused(j)'
    BY <1>3, <1>4, <2>1, <2>6, <2>7
  <2> QED BY <1>3, <2>1, <2>8, <2>9 DEF RateInv
<1>7. CASE ~(Cardinality(w) >= MinuteLimit[tier])
  <2>1. /\ windows' = [windows EXCEPT ![i] = w \cup {r}]
        /\ passed' = [passed EXCEPT ![i] = passed[i] \cup {r}]
    BY <1>5, <1>7
  <2>2. windows'[i] = w \cup {r} /\ passed'[i] = passed[i] \cup {r}
    BY <1>3, <2>1
  <2>3. r[1] = clock /\ r[2] = Cardinality(passed[i]) + 1 /\ r \in Nat \X Nat
    BY <1>2, <1>3
  <2>4. r \notin passed[i]
    BY <1>1, <1>2, <2>3
  <2>5. r[1] > from
    BY <1>3, <2>3
  <2>6. /\ Keys!Recent(w \cup {r}, from) = w \cup {r}
        /\ Keys!Recent(passed[i] \cup {r}, from) \subseteq w \cup {r}
    BY <1>1, <2>5 DEF Keys!Recent
  <2>7. clock' - Window = from /\ LimitOf(i)' = LimitOf(i)
    OBVIOUS
  <2> HIDE DEF w, r, from
  <2>8. Cardinality(passed'[i]) = Cardinality(passed[i]) + 1 /\ IsFiniteSet(passed'[i])
    BY <1>1, <2>2, <2>4, FS_AddElement
  <2>9. Cardinality(w \cup {r}) = Cardinality(w) + 1
    BY <1>1, <1>2, <2>4, FS_AddElement
  <2>10. Cardinality(w) + 1 <= LimitOf(i)
    BY <1>3, <1>7
  <2>11. \A x \in passed'[i] : x[1] \in Nat /\ x[2] \in 1..Cardinality(passed'[i])
    <3>1. \A x \in passed[i] : x[1] \in Nat /\ x[2] \in 1..Cardinality(passed'[i])
      BY <1>1, <1>2, <2>8
    <3>2. r[1] \in Nat /\ r[2] \in 1..Cardinality(passed'[i])
      BY <1>2, <1>3, <2>3, <2>8
    <3> QED BY <2>2, <3>1, <3>2
  <2>12. windows'[i] \subseteq passed'[i]
    BY <1>1, <1>2, <2>2
  <2>13. Bucket(i)'
    BY <2>2, <2>6, <2>7, <2>8, <2>9, <2>10, <2>11, <2>12 DEF Bucket
  <2>14. Unused(i)'
    BY DEF Unused, Ids
  <2>15. windows' \in [Ids -> SUBSET (Nat \X Nat)] /\ passed' \in [Ids -> SUBSET (Nat \X Nat)]
    BY <1>1, <1>2, <1>3, <2>1, <2>3
  <2>16. \A j \in Ids : Bucket(j)' /\ Unused(j)'
    BY <1>3, <1>4, <2>1, <2>13, <2>14
  <2> QED BY <1>3, <2>15, <2>16 DEF RateInv
<1> QED BY <1>6, <1>7

\* What the limiter prunes is older than what it counts.
LEMMA TickRate == ASSUME QuotaInv, QuotaInv', RateInv, Keys!Tick PROVE RateInv'
<1>1. /\ clock' = clock + 1 /\ passed' = passed /\ UNCHANGED <<keys, gateway>>
      /\ windows' \in {windows, [i \in Ids |-> Keys!Recent(windows[i], clock' - 2 * Window)]}
  BY DEF Keys!Tick, Keys!Ids, Ids
<1>2. /\ clock \in Nat /\ Window \in Nat \ {0}
      /\ windows \in [Ids -> SUBSET (Nat \X Nat)] /\ passed \in [Ids -> SUBSET (Nat \X Nat)]
  BY KeysFacts DEF RateInv
<1>3. windows' \in [Ids -> SUBSET (Nat \X Nat)]
  BY <1>1, <1>2 DEF Keys!Recent
<1>4. ASSUME NEW i \in Ids PROVE Bucket(i)' /\ Unused(i)'
  <2>1. Bucket(i) /\ Unused(i)
    BY DEF RateInv
  <2>2. \A x \in windows[i] : x[1] \in Nat
    BY <2>1 DEF Bucket
  <2>3. windows'[i] \subseteq windows[i]
    BY <1>1, <1>2 DEF Keys!Recent
  <2>4. \A x \in windows[i] : x[1] > clock' - Window => x \in windows'[i]
    BY <1>1, <1>2, <2>2 DEF Keys!Recent
  <2>5. \A x \in passed[i] : x[1] > clock' - Window => x[1] > clock - Window
    BY <1>1, <1>2, <2>1 DEF Bucket
  <2>6. Keys!Recent(passed[i], clock' - Window) \subseteq windows'[i]
    BY <2>1, <2>4, <2>5 DEF Keys!Recent, Bucket
  <2>7. Keys!Recent(windows'[i], clock' - Window) \subseteq Keys!Recent(windows[i], clock - Window)
    BY <2>1, <2>3, <2>5 DEF Keys!Recent, Bucket
  <2>8. IsFiniteSet(Keys!Recent(windows[i], clock - Window))
    <3>1. Keys!Recent(windows[i], clock - Window) \subseteq passed[i] /\ IsFiniteSet(passed[i])
      BY <2>1 DEF Keys!Recent, Bucket
    <3> QED BY <3>1, FS_Subset
  <2>9. /\ Cardinality(Keys!Recent(windows'[i], clock' - Window))
             <= Cardinality(Keys!Recent(windows[i], clock - Window))
        /\ Cardinality(Keys!Recent(windows'[i], clock' - Window)) \in Nat
        /\ Cardinality(Keys!Recent(windows[i], clock - Window)) \in Nat
    BY <2>7, <2>8, FS_Subset, FS_CardinalityType
  <2>10. LimitOf(i)' = LimitOf(i) /\ LimitOf(i) \in Nat
    BY <1>1, LimitNat DEF LimitOf
  <2>11. Cardinality(Keys!Recent(windows'[i], clock' - Window)) <= LimitOf(i)'
    <3>1. Cardinality(Keys!Recent(windows[i], clock - Window)) <= LimitOf(i)
      BY <2>1 DEF Bucket
    <3> QED BY <2>9, <2>10, <3>1
  <2> QED BY <1>1, <2>1, <2>3, <2>6, <2>11 DEF Bucket, Unused
<1> QED BY <1>1, <1>2, <1>3, <1>4 DEF RateInv

LEMMA RequestRate ==
  ASSUME QuotaInv, QuotaInv', RateInv, NEW k \in Key, Keys!Request(k)
  PROVE  RateInv'
<1>1. /\ gateway /\ keys[k].known /\ keys' = [keys EXCEPT ![k] = Keys!Used(keys[k])]
      /\ Keys!InQuota(keys[k]) /\ UNCHANGED <<gateway, clock, day>>
      /\ Keys!Limited(k, Keys!Used(keys[k]).tier) \/ UNCHANGED <<windows, passed>>
  BY DEF Keys!Request, Keys!limiterVars, Keys!timeVars
<1>2. /\ Keys!Used(keys[k]).tier = keys[k].tier /\ Keys!Used(keys[k]).known = keys[k].known
  BY <1>1, UsedEntry
<1>3. \A j \in Key : keys'[j].tier = keys[j].tier /\ keys'[j].known = keys[j].known
  BY <1>1, <1>2 DEF QuotaInv, KeysShape, Keys!Entries
<1>4. CASE UNCHANGED <<windows, passed>>
  BY <1>1, <1>3, <1>4, TierStays
<1>5. CASE Keys!Limited(k, Keys!Used(keys[k]).tier)
  <2>1. \A j \in Ids : LimitOf(j)' = LimitOf(j)
    BY <1>3 DEF LimitOf, Ids
  <2>2. keys[k].tier \in Tier /\ k \in Ids /\ k # Anyone
    BY KeysFacts DEF QuotaInv, KeysShape, Keys!Entries, Ids
  <2>3. MinuteLimit[keys[k].tier] = LimitOf(k)
    BY <2>2 DEF LimitOf
  <2> QED BY <1>1, <1>2, <1>3, <1>5, <2>1, <2>2, <2>3, LimitedRate
<1> QED BY <1>1, <1>4, <1>5

LEMMA AnyoneRate ==
  ASSUME QuotaInv, QuotaInv', RateInv, Keys!RequestAnyone PROVE RateInv'
<1>1. /\ gateway /\ UNCHANGED <<keys, gateway, clock>> /\ Keys!Limited(Anyone, Anyone)
  BY DEF Keys!RequestAnyone, Keys!timeVars
<1>2. \A j \in Ids : LimitOf(j)' = LimitOf(j)
  BY <1>1 DEF LimitOf
<1>3. Anyone \in Ids /\ Anyone \notin Key /\ MinuteLimit[Anyone] = LimitOf(Anyone)
  BY KeysFacts DEF Ids, LimitOf
<1> QED BY <1>1, <1>2, <1>3, LimitedRate

LEMMA KeysRateStep ==
  QuotaInv /\ QuotaInv' /\ RateInv /\ [Keys!KeysNext]_(Keys!keyVars) => RateInv'
<1> SUFFICES ASSUME QuotaInv, QuotaInv', RateInv, [Keys!KeysNext]_(Keys!keyVars) PROVE RateInv'
  OBVIOUS
<1>1. CASE UNCHANGED Keys!keyVars
  BY <1>1, TierStays DEF Keys!keyVars
<1>2. CASE Keys!Load
  <2>1. ~gateway /\ UNCHANGED <<clock, windows, passed>>
    BY <1>2 DEF Keys!Load, Keys!timeVars, Keys!limiterVars
  <2>2. \A i \in Ids : passed[i] = {}
    BY <2>1 DEF RateInv, Unused
  <2>3. \A i \in Ids : Unused(i)'
    BY <2>1, <2>2 DEF Unused
  <2> QED BY <2>1, <2>2, <2>3, BucketsStay
<1>3. CASE Keys!Shutdown \/ Keys!Crash
  BY <1>3, BucketsEmpty DEF Keys!Shutdown, Keys!Crash, Keys!Ends, Keys!timeVars, Keys!Ids, Ids
<1>4. CASE Keys!Midnight
  BY <1>4, TierStays DEF Keys!Midnight, Keys!limiterVars
<1>5. ASSUME NEW k \in Key, Keys!RevokeApiKey(k) PROVE RateInv'
  <2>1. /\ keys' = [keys EXCEPT ![k].active = FALSE]
        /\ UNCHANGED <<clock, windows, passed, gateway>>
    BY <1>5 DEF Keys!RevokeApiKey, Keys!timeVars, Keys!limiterVars
  <2>2. \A j \in Key : keys'[j].tier = keys[j].tier /\ keys'[j].known = keys[j].known
    BY <2>1 DEF QuotaInv, KeysShape, Keys!Entries
  <2> QED BY <2>1, <2>2, TierStays
<1>6. ASSUME NEW k \in Key, NEW tier \in Tier, Keys!CreateApiKey(k, tier) PROVE RateInv'
  <2>1. /\ ~keys[k].known /\ UNCHANGED <<clock, windows, passed, gateway>>
        /\ keys' = [keys EXCEPT ![k] = [tier |-> tier, known |-> TRUE, active |-> TRUE,
                                        daily |-> 0, day |-> day]]
    BY <1>6 DEF Keys!CreateApiKey, QuotaInv, KeysIssued, Keys!timeVars, Keys!limiterVars
  <2>2. \A j \in Key : j # k => keys'[j] = keys[j]
    BY <2>1 DEF QuotaInv, KeysShape, Keys!Entries
  <2> QED BY <2>1, <2>2, TierStays
<1>7. ASSUME NEW k \in Key, Keys!Request(k) PROVE RateInv'
  BY <1>7, RequestRate
<1> QED BY <1>1, <1>2, <1>3, <1>4, <1>5, <1>6, <1>7, TickRate, AnyoneRate DEF Keys!KeysNext

LEMMA RateFollows == QuotaInv /\ RateInv => Keys!RateHeld
<1> SUFFICES ASSUME QuotaInv, RateInv, NEW i \in Ids
             PROVE  Cardinality(Keys!Recent(passed[i], clock - Window)) <= LimitOf(i)
  BY KeysCardinality DEF Keys!RateHeld, Keys!Ids, Ids, LimitOf
<1>1. Bucket(i)
  BY DEF RateInv
<1>2. Keys!Recent(passed[i], clock - Window) = Keys!Recent(windows[i], clock - Window)
  BY <1>1 DEF Bucket, Keys!Recent
<1> QED BY <1>1, <1>2 DEF Bucket

(***************************************************************************)
(* A revoked key is active neither in memory nor in the file.              *)
(***************************************************************************)
RevokedInv == Keys!RevokedStaysOut /\ revoked \subseteq issued

LEMMA KeysRevokedInit == Keys!KeysInit => RevokedInv
BY DEF Keys!KeysInit, RevokedInv, Keys!RevokedStaysOut

LEMMA KeysRevokedStep == QuotaInv /\ RevokedInv /\ [Keys!KeysNext]_(Keys!keyVars) => RevokedInv'
<1> SUFFICES ASSUME QuotaInv, RevokedInv, [Keys!KeysNext]_(Keys!keyVars) PROVE RevokedInv'
  OBVIOUS
<1> USE DEF RevokedInv, Keys!RevokedStaysOut
<1>1. keys \in [Key -> [tier : Tier, known : BOOLEAN, active : BOOLEAN, daily : Nat, day : 0..MaxDay]]
  BY DEF QuotaInv, KeysShape, Keys!Entries
<1>2. \A k \in Key : ~Keys!NoKeys[k].active
  BY DEF Keys!NoKeys, Keys!None
<1>3. CASE UNCHANGED Keys!keyVars
  BY <1>3 DEF Keys!keyVars
<1>4. CASE Keys!Load \/ Keys!Shutdown \/ Keys!Crash
  <2>1. /\ UNCHANGED <<issued, revoked>> /\ revoked \subseteq Key
        /\ keys' \in {keyFile, Keys!NoKeys} /\ keyFile' \in {keyFile, keys, Keys!NoKeys}
    BY <1>4 DEF Keys!Load, Keys!Shutdown, Keys!Crash, Keys!Ends, Keys!SaveFails, Keys!keyHistory,
                QuotaInv, KeysShape
  <2> QED BY <1>2, <2>1
<1>5. CASE Keys!RequestAnyone \/ Keys!Tick \/ Keys!Midnight
  BY <1>5 DEF Keys!RequestAnyone, Keys!Tick, Keys!Midnight, Keys!keyHistory
<1>6. ASSUME NEW k \in Key, Keys!RevokeApiKey(k) PROVE RevokedInv'
  <2>1. /\ keys' = [keys EXCEPT ![k].active = FALSE] /\ issued' = issued /\ revoked \subseteq Key
        /\ \/ keyFile' = keys' /\ revoked' = revoked \cup {k}
           \/ keyFile' \in {keyFile, Keys!NoKeys} /\ revoked' = revoked
    BY <1>6 DEF Keys!RevokeApiKey, Keys!SaveFails, QuotaInv, KeysShape
  <2>2. k \in issued
    BY <1>6 DEF Keys!RevokeApiKey, QuotaInv, KeysIssued
  <2>3. ~keys'[k].active /\ \A j \in revoked : ~keys'[j].active
    BY <1>1, <2>1
  <2> QED BY <1>2, <2>1, <2>2, <2>3
<1>7. ASSUME NEW k \in Key, NEW tier \in Tier, Keys!CreateApiKey(k, tier) PROVE RevokedInv'
  <2>1. /\ k \notin revoked /\ revoked \subseteq issued' /\ revoked' = revoked /\ revoked \subseteq Key
        /\ \A j \in Key : j # k => keys'[j] = keys[j]
        /\ keyFile' \in {keys', keyFile, Keys!NoKeys}
    BY <1>1, <1>7 DEF Keys!CreateApiKey, Keys!SaveFails, QuotaInv, KeysShape
  <2> QED BY <1>2, <2>1
<1>8. ASSUME NEW k \in Key, Keys!Request(k) PROVE RevokedInv'
  <2>1. /\ keys[k].active /\ keys' = [keys EXCEPT ![k] = Keys!Used(keys[k])]
        /\ keyFile' \in {keys', keyFile, Keys!NoKeys} /\ UNCHANGED <<issued, revoked>>
        /\ revoked \subseteq Key
    BY <1>8 DEF Keys!Request, Keys!SaveFails, Keys!keyHistory, QuotaInv, KeysShape
  <2>2. k \notin revoked
    BY <2>1
  <2>3. \A j \in revoked : keys'[j] = keys[j]
    BY <1>1, <2>1, <2>2
  <2> QED BY <1>2, <2>1, <2>3
<1> QED BY <1>3, <1>4, <1>5, <1>6, <1>7, <1>8 DEF Keys!KeysNext

(***************************************************************************)
(* What the buckets hold are the stamps of requests.                       *)
(***************************************************************************)
StampInv ==
  /\ gateway \in BOOLEAN /\ clock \in 0..MaxClock
  /\ windows \in [Ids -> SUBSET Keys!Stamp] /\ passed \in [Ids -> SUBSET Keys!Stamp]

LEMMA KeysStampInit == Keys!KeysInit => StampInv
<1> SUFFICES ASSUME Keys!KeysInit PROVE StampInv
  OBVIOUS
<1>1. windows = [i \in Ids |-> {}] /\ passed = [i \in Ids |-> {}]
  BY DEF Keys!KeysInit, Keys!Ids, Ids
<1>2. /\ windows \in [Ids -> SUBSET Keys!Stamp]
      /\ passed \in [Ids -> SUBSET Keys!Stamp]
  <2>1. {} \in SUBSET Keys!Stamp
    OBVIOUS
  <2> QED BY <1>1, <2>1
<1>3. gateway \in BOOLEAN
  BY DEF Keys!KeysInit
<1>4. clock \in 0..MaxClock
  BY KeysFacts DEF Keys!KeysInit
<1> QED BY <1>2, <1>3, <1>4 DEF StampInv

LEMMA LimitedStamps ==
  ASSUME RateInv, StampInv, NEW i \in Ids, NEW tier, Keys!Limited(i, tier),
         UNCHANGED <<gateway, clock>>
  PROVE  StampInv'
<1> DEFINE w == Keys!Recent(windows[i], clock - Window)
           r == <<clock, Cardinality(passed[i]) + 1>>
<1>1. IsFiniteSet(passed[i])
  BY DEF RateInv, Bucket
<1>2. Cardinality(passed[i]) \in Nat
  BY <1>1, FS_CardinalityType
<1>3. r \in Keys!Stamp
  BY <1>2 DEF Keys!Stamp, StampInv
<1>4. w \subseteq Keys!Stamp
  BY DEF Keys!Recent, StampInv
<1>5. \/ windows' = [windows EXCEPT ![i] = w] /\ passed' = passed
      \/ /\ windows' = [windows EXCEPT ![i] = w \cup {r}]
         /\ passed' = [passed EXCEPT ![i] = @ \cup {r}]
  BY KeysCardinality DEF Keys!Limited
<1> HIDE DEF w, r
<1> QED BY <1>3, <1>4, <1>5 DEF StampInv

LEMMA KeysStampStep == RateInv /\ StampInv /\ [Keys!KeysNext]_(Keys!keyVars) => StampInv'
<1> SUFFICES ASSUME RateInv, StampInv, [Keys!KeysNext]_(Keys!keyVars) PROVE StampInv'
  OBVIOUS
<1> USE DEF Keys!timeVars, Keys!limiterVars
<1>1. CASE UNCHANGED Keys!keyVars
  BY <1>1 DEF Keys!keyVars, StampInv
<1>2. CASE Keys!Load \/ Keys!Shutdown \/ Keys!Crash \/ Keys!Midnight
  BY <1>2 DEF Keys!Load, Keys!Shutdown, Keys!Crash, Keys!Ends, Keys!Midnight, StampInv, Keys!Ids, Ids
<1>3. CASE Keys!RequestAnyone
  BY <1>3, LimitedStamps DEF Keys!RequestAnyone, Ids
<1>4. CASE Keys!Tick
  <2>1. clock' \in 0..MaxClock
    BY <1>4, KeysFacts DEF Keys!Tick, StampInv
  <2>2. /\ windows' \in {windows, [i \in Ids |-> Keys!Recent(windows[i], clock' - 2 * Window)]}
        /\ UNCHANGED <<gateway, passed>>
    BY <1>4 DEF Keys!Tick, Keys!Ids, Ids
  <2>3. \A i \in Ids : Keys!Recent(windows[i], clock' - 2 * Window) \subseteq Keys!Stamp
    BY DEF StampInv, Keys!Recent
  <2> QED BY <2>1, <2>2, <2>3 DEF StampInv
<1>5. ASSUME NEW k \in Key, Keys!RevokeApiKey(k) PROVE StampInv'
  BY <1>5 DEF Keys!RevokeApiKey, StampInv
<1>6. ASSUME NEW k \in Key, NEW tier \in Tier, Keys!CreateApiKey(k, tier) PROVE StampInv'
  BY <1>6 DEF Keys!CreateApiKey, StampInv
<1>7. ASSUME NEW k \in Key, Keys!Request(k) PROVE StampInv'
  <2>1. UNCHANGED <<gateway, clock>>
    BY <1>7 DEF Keys!Request
  <2>2. Keys!Limited(k, Keys!Used(keys[k]).tier) \/ UNCHANGED <<windows, passed>>
    BY <1>7 DEF Keys!Request
  <2>3. k \in Ids
    BY DEF Ids
  <2> QED BY <2>1, <2>2, <2>3, LimitedStamps DEF StampInv
<1> QED BY <1>1, <1>2, <1>3, <1>4, <1>5, <1>6, <1>7 DEF Keys!KeysNext

LEMMA KeysTyped == QuotaInv /\ StampInv /\ RevokedInv => Keys!KeysTypeOK
BY DEF QuotaInv, KeysShape, StampInv, RevokedInv, Keys!KeysTypeOK, Keys!Ids, Ids

\* The count of a revoked key goes no further, and the limiter lets no more of it through.
Unserved == \A k \in revoked :
  k \in revoked' /\ served'[k] \in {served[k], 0} /\ passed'[k] \subseteq passed[k]

LEMMA LimitedPasses ==
  ASSUME StampInv, NEW i \in Ids, NEW tier, Keys!Limited(i, tier), NEW k \in Ids \ {i}
  PROVE  passed'[k] = passed[k]
BY DEF StampInv, Keys!Limited

LEMMA RevokedUnserved ==
  ASSUME QuotaInv, RevokedInv, StampInv, [Keys!KeysNext]_(Keys!keyVars)
  PROVE  Unserved
<1> SUFFICES ASSUME NEW k \in revoked
             PROVE  k \in revoked' /\ served'[k] \in {served[k], 0} /\ passed'[k] \subseteq passed[k]
  BY DEF Unserved
<1>1. k \in Key /\ k \in Ids /\ k # Anyone /\ ~keys[k].active
  BY KeysFacts DEF RevokedInv, Keys!RevokedStaysOut, Ids, QuotaInv, KeysShape
<1>2. served \in [Key -> Nat] /\ passed \in [Ids -> SUBSET Keys!Stamp]
  BY DEF QuotaInv, KeysShape, StampInv
<1> USE DEF Keys!timeVars, Keys!limiterVars, Keys!keyHistory
<1>3. CASE UNCHANGED Keys!keyVars \/ Keys!Load \/ Keys!Tick
  BY <1>3 DEF Keys!keyVars, Keys!Load, Keys!Tick
<1>4. CASE Keys!Shutdown \/ Keys!Crash
  <2>1. passed' = [i \in Ids |-> {}] /\ served' = served /\ revoked' = revoked
    BY <1>4 DEF Keys!Shutdown, Keys!Crash, Keys!Ends, Keys!Ids, Ids
  <2> QED BY <1>1, <2>1
<1>5. CASE Keys!Midnight
  BY <1>1, <1>5 DEF Keys!Midnight
<1>6. CASE Keys!RequestAnyone
  BY <1>1, <1>6, LimitedPasses DEF Keys!RequestAnyone, Ids
<1>7. CASE \E j \in Key : Keys!RevokeApiKey(j)
  BY <1>7 DEF Keys!RevokeApiKey
<1>8. CASE \E j \in Key, tier \in Tier : Keys!CreateApiKey(j, tier)
  BY <1>8 DEF Keys!CreateApiKey
<1>9. ASSUME NEW j \in Key, Keys!Request(j)
      PROVE  k \in revoked' /\ served'[k] \in {served[k], 0} /\ passed'[k] \subseteq passed[k]
  <2>1. j # k /\ revoked' = revoked
    BY <1>1, <1>9 DEF Keys!Request
  <2>2. CASE UNCHANGED <<passed, served>>
    BY <2>1, <2>2
  <2>3. CASE Keys!Limited(j, Keys!Used(keys[j]).tier) /\ served' = [served EXCEPT ![j] = @ + 1]
    <3>1. passed'[k] = passed[k]
      BY <1>1, <2>1, <2>3, LimitedPasses DEF Ids
    <3>2. served'[k] = served[k]
      BY <1>1, <1>2, <2>1, <2>3
    <3> QED BY <2>1, <3>1, <3>2
  <2>4. \/ UNCHANGED <<passed, served>>
        \/ Keys!Limited(j, Keys!Used(keys[j]).tier) /\ served' = [served EXCEPT ![j] = @ + 1]
    BY <1>9 DEF Keys!Request
  <2> QED BY <2>2, <2>3, <2>4
<1> QED BY <1>3, <1>4, <1>5, <1>6, <1>7, <1>8, <1>9 DEF Keys!KeysNext

\* validateApiKey(): from the answer of a revocation on, which is given when it is saved,
\* no request of the key is served or passes the rate limiter, in this process or a later
\* one, whichever saves fail after it, leaving the file as it was or unreadable.
THEOREM KeysRevokedUnserved == Keys!KeysSpec => [][Unserved]_(Keys!keyVars)
<1> DEFINE Whole == QuotaInv /\ RateInv /\ RevokedInv /\ StampInv
<1>1. Keys!KeysInit => Whole
  BY KeysQuotaInit, KeysRateInit, KeysRevokedInit, KeysStampInit
<1>2. Whole /\ [Keys!KeysNext]_(Keys!keyVars) => Whole' /\ [Unserved]_(Keys!keyVars)
  BY KeysQuotaStep, KeysRateStep, KeysRevokedStep, KeysStampStep, RevokedUnserved
<1> HIDE DEF Whole
<1> QED BY <1>1, <1>2, PTL DEF Keys!KeysSpec

(***************************************************************************)
(* The sessions.  Each handler's session is its sender's, and while a      *)
(* question waits for its answer it is in that session, unless the cap has *)
(* been reached.                                                           *)
(***************************************************************************)
\* The answers of a list of messages come after their questions, and once.
InOrder(messages) ==
  /\ \A i \in 1..Len(messages) : messages[i].by = "assistant" =>
       \/ \E j \in 1..i - 1 : messages[j] = Sessions!Says(messages[i].of)
       \/ Len(messages) = MaxMessages
  /\ \A i, j \in 1..Len(messages) :
       messages[i].by = "assistant" /\ messages[j].by = "assistant" /\ messages[j].of = messages[i].of
         => j = i

\* The question m is in a list of messages, or the cap may have dropped it.
Asked(messages, m) ==
  (\E j \in 1..Len(messages) : messages[j] = Sessions!Says(m)) \/ Len(messages) = MaxMessages

AnsweredIn(messages, m) ==
  \E j \in 1..Len(messages) : messages[j].by = "assistant" /\ messages[j].of = m

SessionRecord == [peer : Peer, messages : Seq(Sessions!Entry)]

SessionTypes ==
  /\ sessions \in Seq(SessionRecord)
  /\ \A s \in 1..Len(sessions) : Len(sessions[s].messages) <= MaxMessages
  /\ current \in [Peer -> 0..Len(sessions)] /\ expired \subseteq 1..Len(sessions)
  /\ handler \in [Message -> {"new", "running", "done"}]
  /\ inSession \in [Message -> 0..Len(sessions)]
  /\ credited \subseteq Message \X Message

OwnedInv ==
  /\ \A p \in Peer : current[p] # 0 => sessions[current[p]].peer = p
  /\ \A m \in Message : inSession[m] # 0 => sessions[inSession[m]].peer = From[m] \/ m \in ById
  /\ \A m \in Message : handler[m] = "running" => inSession[m] # 0

MessagesInv ==
  \A s \in 1..Len(sessions) :
    /\ InOrder(sessions[s].messages)
    /\ \A i \in 1..Len(sessions[s].messages) :
         /\ inSession[sessions[s].messages[i].of] = s
         /\ \/ From[sessions[s].messages[i].of] = sessions[s].peer
            \/ sessions[s].messages[i].of \in ById
         /\ handler[sessions[s].messages[i].of] # "new"
         /\ sessions[s].messages[i].by = "assistant" => handler[sessions[s].messages[i].of] = "done"

RunningInv ==
  \A m \in Message : handler[m] = "running" => Asked(sessions[inSession[m]].messages, m)

CreditedInv ==
  \A c \in credited :
    handler[c[1]] # "new" /\ handler[c[2]] # "new" /\ inSession[c[1]] = inSession[c[2]]

SessionsInv == SessionTypes /\ OwnedInv /\ MessagesInv /\ RunningInv /\ CreditedInv

LEMMA SessionFacts == From \in [Message -> Peer] /\ ById \subseteq Message /\ MaxMessages \in Nat \ {0}
BY ServicesAssumption DEF ServicesAssumption, Sessions!SessionsAssumption

LEMMA SessionsStarts == Sessions!SessionsInit => SessionsInv
BY SessionFacts DEF Sessions!SessionsInit, SessionsInv, SessionTypes, OwnedInv, MessagesInv, RunningInv, CreditedInv

\* What addMessage() leaves: the entry last, after the old ones from the k-th on, and
\* none is dropped before there are MaxMessages.
LEMMA AddedShape ==
  ASSUME NEW messages \in Seq(Sessions!Entry), Len(messages) <= MaxMessages, NEW e \in Sessions!Entry
  PROVE  LET r == Sessions!Added(messages, e) IN
         /\ r \in Seq(Sessions!Entry) /\ Len(r) \in 1..MaxMessages /\ r[Len(r)] = e
         /\ \E k \in 0..1 :
              /\ Len(r) + k = Len(messages) + 1 /\ (k = 1 => Len(r) = MaxMessages)
              /\ \A i \in 1..Len(r) - 1 : i + k \in 1..Len(messages) /\ r[i] = messages[i + k]
<1> DEFINE all == Append(messages, e)
           n == Len(all)
           r == Sessions!Added(messages, e)
<1> USE SessionFacts
<1>1. /\ all \in Seq(Sessions!Entry) /\ n = Len(messages) + 1 /\ n \in Nat /\ all[n] = e
      /\ \A i \in 1..Len(messages) : all[i] = messages[i]
  OBVIOUS
<1>2. CASE n > MaxMessages
  <2>1. n = MaxMessages + 1 /\ r = SubSeq(all, 2, n)
    <3>1. n = MaxMessages + 1
      BY <1>1, <1>2
    <3>2. r = SubSeq(all, n - MaxMessages + 1, n)
      BY <1>2 DEF Sessions!Added
    <3>3. n - MaxMessages + 1 = 2
      BY <3>1
    <3> QED BY <3>1, <3>2, <3>3
  <2> HIDE DEF r, all
  <2>2. /\ r \in Seq(Sessions!Entry) /\ Len(r) = n - 1
        /\ \A i \in 1..(n - 1) : r[i] = all[i + 1]
    BY <1>1, <2>1
  <2>3. r[Len(r)] = e
    BY <1>1, <2>1, <2>2
  <2>4. /\ Len(r) + 1 = Len(messages) + 1 /\ Len(r) = MaxMessages
        /\ \A i \in 1..Len(r) - 1 : i + 1 \in 1..Len(messages) /\ r[i] = messages[i + 1]
    BY <1>1, <2>1, <2>2
  <2> QED BY <2>2, <2>3, <2>4 DEF r
<1>3. CASE ~(n > MaxMessages)
  <2>1. r = SubSeq(all, 1, n)
    BY <1>3 DEF Sessions!Added
  <2> HIDE DEF r, all
  <2>2. /\ r \in Seq(Sessions!Entry) /\ Len(r) = n
        /\ \A i \in 1..n : r[i] = all[i]
    BY <1>1, <2>1
  <2>3. /\ Len(r) + 0 = Len(messages) + 1 /\ Len(r) \in 1..MaxMessages /\ r[Len(r)] = e
        /\ \A i \in 1..Len(r) - 1 : i + 0 \in 1..Len(messages) /\ r[i] = messages[i + 0]
    BY <1>1, <1>3, <2>2
  <2> QED BY <2>2, <2>3 DEF r
<1> QED BY <1>2, <1>3

\* A message is added to a list in order: a question, or the answer to one asked.
LEMMA AddedInOrder ==
  ASSUME NEW messages \in Seq(Sessions!Entry), Len(messages) <= MaxMessages, NEW e \in Sessions!Entry,
         InOrder(messages),
         e.by = "assistant" => ~AnsweredIn(messages, e.of) /\ Asked(messages, e.of)
  PROVE  LET r == Sessions!Added(messages, e) IN
         /\ r \in Seq(Sessions!Entry) /\ Len(r) <= MaxMessages /\ InOrder(r)
         /\ \E i \in 1..Len(r) : r[i] = e
         /\ \A i \in 1..Len(r) : r[i] = e \/ \E j \in 1..Len(messages) : r[i] = messages[j]
         /\ \A m : Asked(messages, m) => Asked(r, m)
<1> DEFINE r == Sessions!Added(messages, e)
<1> HIDE DEF r
<1> USE SessionFacts
<1>1. /\ r \in Seq(Sessions!Entry) /\ Len(r) \in 1..MaxMessages /\ r[Len(r)] = e
      /\ \E k \in 0..1 :
           /\ Len(r) + k = Len(messages) + 1 /\ (k = 1 => Len(r) = MaxMessages)
           /\ \A i \in 1..Len(r) - 1 : i + k \in 1..Len(messages) /\ r[i] = messages[i + k]
  BY AddedShape DEF r
<1>2. PICK k \in 0..1 :
           /\ Len(r) + k = Len(messages) + 1 /\ (k = 1 => Len(r) = MaxMessages)
           /\ \A i \in 1..Len(r) - 1 : i + k \in 1..Len(messages) /\ r[i] = messages[i + k]
  BY <1>1
<1>3. Len(r) \in Nat /\ Len(messages) \in Nat /\ k \in Int
  BY <1>1
<1>4. \A i \in 1..Len(r) : i = Len(r) \/ i \in 1..Len(r) - 1
  BY <1>3
<1>5. \A i \in 1..Len(r) : r[i] = e \/ \E j \in 1..Len(messages) : r[i] = messages[j]
  BY <1>1, <1>2, <1>4
<1>6. ASSUME NEW m, Asked(messages, m) PROVE Asked(r, m)
  <2>1. CASE Len(r) = MaxMessages
    BY <2>1 DEF Asked
  <2>2. CASE Len(r) # MaxMessages
    <3>1. k = 0 /\ Len(messages) # MaxMessages
      BY <1>1, <1>2, <1>3, <2>2
    <3>2. PICK j \in 1..Len(messages) : messages[j] = Sessions!Says(m)
      BY <1>6, <3>1 DEF Asked
    <3>3. j \in 1..Len(r) - 1 /\ j \in 1..Len(r) /\ j + k = j
      BY <1>2, <1>3, <3>1
    <3>4. r[j] = messages[j]
      BY <1>2, <3>3
    <3> QED BY <3>2, <3>3, <3>4 DEF Asked
  <2> QED BY <2>1, <2>2
<1>7. ASSUME NEW i \in 1..Len(r), r[i].by = "assistant"
      PROVE  \/ \E j \in 1..i - 1 : r[j] = Sessions!Says(r[i].of)
             \/ Len(r) = MaxMessages
  <2> SUFFICES ASSUME Len(r) # MaxMessages
               PROVE  \E j \in 1..i - 1 : r[j] = Sessions!Says(r[i].of)
    OBVIOUS
  <2>1. k = 0 /\ Len(messages) # MaxMessages /\ Len(messages) = Len(r) - 1
    BY <1>1, <1>2, <1>3
  <2>2. \A j \in 1..Len(messages) : j \in 1..Len(r) - 1 /\ j + k = j /\ r[j] = messages[j]
    <3>1. \A j \in 1..Len(messages) : j \in 1..Len(r) - 1 /\ j + k = j
      BY <1>3, <2>1
    <3>2. \A j \in 1..Len(r) - 1 : r[j] = messages[j + k]
      BY <1>2
    <3> QED BY <3>1, <3>2
  <2>3. CASE i = Len(r)
    <3>1. r[i] = e
      BY <1>1, <2>3
    <3>2. PICK j \in 1..Len(messages) : messages[j] = Sessions!Says(e.of)
      BY <1>7, <2>1, <3>1 DEF Asked
    <3>3. j \in 1..i - 1
      BY <2>1, <2>3
    <3> QED BY <2>2, <3>1, <3>2, <3>3
  <2>4. CASE i # Len(r)
    <3>1. i \in 1..Len(messages) /\ r[i] = messages[i]
      BY <1>3, <2>1, <2>2, <2>4
    <3>2. PICK j \in 1..i - 1 : messages[j] = Sessions!Says(messages[i].of)
      BY <1>7, <2>1, <3>1 DEF InOrder
    <3>3. j \in 1..Len(messages)
      BY <1>3, <3>1
    <3> QED BY <2>2, <3>1, <3>2, <3>3
  <2> QED BY <2>3, <2>4
<1>8. ASSUME NEW i \in 1..Len(r), NEW j \in 1..Len(r),
             r[i].by = "assistant", r[j].by = "assistant", r[j].of = r[i].of
      PROVE  j = i
  <2>1. CASE i = Len(r) /\ j # Len(r)
    <3>1. j + k \in 1..Len(messages) /\ r[j] = messages[j + k] /\ r[i] = e
      BY <1>1, <1>2, <1>4, <2>1
    <3> QED BY <1>8, <3>1 DEF AnsweredIn
  <2>2. CASE j = Len(r) /\ i # Len(r)
    <3>1. i + k \in 1..Len(messages) /\ r[i] = messages[i + k] /\ r[j] = e
      BY <1>1, <1>2, <1>4, <2>2
    <3> QED BY <1>8, <3>1 DEF AnsweredIn
  <2>3. CASE i # Len(r) /\ j # Len(r)
    <3>1. /\ i + k \in 1..Len(messages) /\ r[i] = messages[i + k]
          /\ j + k \in 1..Len(messages) /\ r[j] = messages[j + k]
      BY <1>2, <1>4, <2>3
    <3>2. i + k = j + k
      BY <1>8, <3>1 DEF InOrder
    <3> QED BY <1>3, <3>2
  <2> QED BY <2>1, <2>2, <2>3
<1>9. InOrder(r)
  BY <1>7, <1>8 DEF InOrder
<1>10. Len(r) \in 1..Len(r) /\ r[Len(r)] = e
  BY <1>1
<1> QED BY <1>1, <1>5, <1>6, <1>9, <1>10 DEF r

\* The messages of a session, or of a new one.
LEMMA OldMessages ==
  ASSUME SessionsInv, NEW s \in 1..(Len(sessions) + 1)
  PROVE  /\ Sessions!MessagesOf(s) \in Seq(Sessions!Entry)
         /\ Len(Sessions!MessagesOf(s)) <= MaxMessages /\ InOrder(Sessions!MessagesOf(s))
         /\ s \in 1..Len(sessions) => Sessions!MessagesOf(s) = sessions[s].messages
         /\ s \notin 1..Len(sessions) => Sessions!MessagesOf(s) = <<>>
<1> USE SessionFacts DEF SessionsInv, SessionTypes
<1>1. CASE s \in 1..Len(sessions)
  <2>1. Sessions!MessagesOf(s) = sessions[s].messages /\ sessions[s] \in SessionRecord
    BY <1>1 DEF Sessions!MessagesOf
  <2>2. sessions[s].messages \in Seq(Sessions!Entry)
    BY <2>1 DEF SessionRecord
  <2> QED BY <1>1, <2>1, <2>2 DEF MessagesInv
<1>2. CASE s \notin 1..Len(sessions)
  <2>1. Sessions!MessagesOf(s) = <<>>
    BY <1>2 DEF Sessions!MessagesOf
  <2>2. Len(<<>>) = 0 /\ <<>> \in Seq(Sessions!Entry)
    OBVIOUS
  <2> QED BY <1>2, <2>1, <2>2 DEF InOrder
<1> QED BY <1>1, <1>2

LEMMA EntryReplaced ==
  ASSUME NEW S, NEW q \in Seq(S), NEW i \in 1..Len(q), NEW x \in S
  PROVE  LET r == [q EXCEPT ![i] = x] IN
         /\ r \in Seq(S) /\ Len(r) = Len(q) /\ r[i] = x
         /\ \A j \in 1..Len(q) : j # i => r[j] = q[j]
OBVIOUS

LEMMA ExtendShape ==
  ASSUME SessionsInv, NEW s \in 1..(Len(sessions) + 1), NEW p \in Peer,
         NEW messages \in Seq(Sessions!Entry), Len(messages) <= MaxMessages,
         Sessions!Extend(s, p, messages)
  PROVE  /\ sessions' \in Seq(SessionRecord) /\ Len(sessions') >= Len(sessions)
         /\ s \in 1..Len(sessions') /\ 1..Len(sessions) \subseteq 1..Len(sessions')
         /\ s \notin 1..Len(sessions) => sessions'[s].peer = p
         /\ sessions'[s].messages = messages
         /\ \A t \in 1..Len(sessions') : t # s => t \in 1..Len(sessions) /\ sessions'[t] = sessions[t]
         /\ expired' \subseteq 1..Len(sessions')
         /\ \A t \in 1..Len(sessions) : sessions'[t].peer = sessions[t].peer
<1> USE SessionFacts DEF SessionsInv, SessionTypes
<1>1. Len(sessions) \in Nat /\ s \in Nat
  OBVIOUS
<1>2. CASE s \in 1..Len(sessions)
  <2>1. sessions' = [sessions EXCEPT ![s].messages = messages] /\ expired' = expired \ {s}
    BY <1>2 DEF Sessions!Extend
  <2>2. sessions[s] \in SessionRecord
    BY <1>2
  <2>3. [sessions[s] EXCEPT !.messages = messages] \in SessionRecord
    BY <2>2 DEF SessionRecord
  <2>4. sessions' = [sessions EXCEPT ![s] = [sessions[s] EXCEPT !.messages = messages]]
    BY <2>1
  <2>5. /\ sessions' \in Seq(SessionRecord) /\ Len(sessions') = Len(sessions)
        /\ sessions'[s] = [sessions[s] EXCEPT !.messages = messages]
        /\ \A t \in 1..Len(sessions) : t # s => sessions'[t] = sessions[t]
    <3> DEFINE x == [sessions[s] EXCEPT !.messages = messages]
    <3>1. sessions \in Seq(SessionRecord) /\ x \in SessionRecord
      BY <2>3
    <3>2. sessions' = [sessions EXCEPT ![s] = x]
      BY <2>4
    <3> HIDE DEF x
    <3>3. /\ sessions' \in Seq(SessionRecord) /\ Len(sessions') = Len(sessions)
          /\ sessions'[s] = x /\ \A t \in 1..Len(sessions) : t # s => sessions'[t] = sessions[t]
      BY <1>2, <3>1, <3>2, EntryReplaced
    <3> QED BY <3>3 DEF x
  <2>6. sessions'[s].peer = sessions[s].peer /\ sessions'[s].messages = messages
    BY <2>2, <2>5 DEF SessionRecord
  <2> QED BY <1>1, <1>2, <2>1, <2>5, <2>6
<1>3. CASE s \notin 1..Len(sessions)
  <2> DEFINE new == [peer |-> p, messages |-> messages]
  <2>1. s = Len(sessions) + 1 /\ ~(s <= Len(sessions))
    BY <1>1, <1>3
  <2>2. sessions' = Append(sessions, new) /\ expired' = expired \ {s}
    BY <2>1 DEF Sessions!Extend
  <2>3. new \in SessionRecord /\ new.peer = p /\ new.messages = messages
    BY DEF SessionRecord
  <2> HIDE DEF new
  <2>4. /\ sessions' \in Seq(SessionRecord) /\ Len(sessions') = Len(sessions) + 1
        /\ sessions'[s] = new
        /\ \A t \in 1..Len(sessions) : sessions'[t] = sessions[t]
    BY <2>1, <2>2, <2>3
  <2>5. \A t \in 1..Len(sessions') : t # s => t \in 1..Len(sessions)
    BY <1>1, <2>1, <2>4
  <2>6. /\ s \in 1..Len(sessions') /\ 1..Len(sessions) \subseteq 1..Len(sessions')
        /\ Len(sessions') >= Len(sessions)
    BY <1>1, <2>1, <2>4
  <2>7. expired' \subseteq 1..Len(sessions')
    BY <2>2, <2>6
  <2> QED BY <2>3, <2>4, <2>5, <2>6, <2>7
<1> QED BY <1>2, <1>3

\* A handler's message is in a session, in one of its two forms.
LEMMA ExtendKeeps ==
  ASSUME SessionsInv, NEW m \in Message, NEW s \in 1..(Len(sessions) + 1),
         NEW messages \in Seq(Sessions!Entry), Len(messages) <= MaxMessages,
         s \in 1..Len(sessions) => sessions[s].peer = From[m] \/ m \in ById,
         Sessions!Extend(s, From[m], messages),
         NEW to \in {"running", "done"}, handler' = [handler EXCEPT ![m] = to],
         inSession' = [inSession EXCEPT ![m] = s],
         \/ current' = current
         \/ s \notin 1..Len(sessions) /\ current' = [current EXCEPT ![From[m]] = s],
         handler[m] = "new" \/ inSession[m] = s,
         InOrder(messages),
         \A i \in 1..Len(messages) :
           \/ \E j \in 1..Len(Sessions!MessagesOf(s)) : messages[i] = Sessions!MessagesOf(s)[j]
           \/ messages[i].of = m /\ (messages[i].by = "assistant" => to = "done"),
         to = "running" => handler[m] = "new" /\ Asked(messages, m),
         \A o : Asked(Sessions!MessagesOf(s), o) => Asked(messages, o),
         credited' \subseteq Message \X Message,
         CreditedInv'
  PROVE  SessionsInv'
<1> USE SessionFacts DEF SessionsInv
<1>1. /\ sessions' \in Seq(SessionRecord) /\ Len(sessions') >= Len(sessions)
      /\ s \in 1..Len(sessions') /\ 1..Len(sessions) \subseteq 1..Len(sessions')
      /\ s \notin 1..Len(sessions) => sessions'[s].peer = From[m]
      /\ sessions'[s].messages = messages
      /\ sessions'[s].peer = From[m] \/ m \in ById
      /\ \A t \in 1..Len(sessions') : t # s => t \in 1..Len(sessions) /\ sessions'[t] = sessions[t]
      /\ expired' \subseteq 1..Len(sessions')
      /\ \A t \in 1..Len(sessions) : sessions'[t].peer = sessions[t].peer
  <2>1. From[m] \in Peer
    OBVIOUS
  <2> QED BY <2>1, ExtendShape
<1>2. /\ handler' \in [Message -> {"new", "running", "done"}] /\ handler'[m] = to
      /\ \A o \in Message : o # m => handler'[o] = handler[o]
  BY DEF SessionTypes
<1>3. 0..Len(sessions) \subseteq 0..Len(sessions') /\ s \in 0..Len(sessions')
  BY <1>1 DEF SessionTypes
<1>4. /\ inSession' \in [Message -> 0..Len(sessions')] /\ inSession'[m] = s
      /\ \A o \in Message : o # m => inSession'[o] = inSession[o]
  BY <1>3 DEF SessionTypes
<1>5. /\ current' \in [Peer -> 0..Len(sessions')]
      /\ \A p \in Peer : current'[p] = current[p] \/ (p = From[m] /\ current'[p] = s /\ s \notin 1..Len(sessions))
  <2>1. current \in [Peer -> 0..Len(sessions')]
    BY <1>3 DEF SessionTypes
  <2>2. CASE current' = current
    BY <2>1, <2>2
  <2>3. CASE s \notin 1..Len(sessions) /\ current' = [current EXCEPT ![From[m]] = s]
    BY <1>3, <2>1, <2>3
  <2> QED BY <2>2, <2>3
<1>6. SessionTypes'
  <2>1. \A t \in 1..Len(sessions') : Len(sessions'[t].messages) <= MaxMessages
    BY <1>1 DEF SessionTypes
  <2> QED BY <1>1, <1>2, <1>4, <1>5, <2>1 DEF SessionTypes
<1>7. OwnedInv'
  <2>1. \A p \in Peer : current[p] # 0 => current[p] \in 1..Len(sessions)
    BY DEF SessionTypes
  <2>2. \A o \in Message : inSession[o] # 0 => inSession[o] \in 1..Len(sessions)
    BY DEF SessionTypes
  <2>3. s # 0
    BY <1>1
  <2>4. \A p \in Peer : current'[p] # 0 => sessions'[current'[p]].peer = p
    BY <1>1, <1>5, <2>1 DEF OwnedInv
  <2>5. \A o \in Message : inSession'[o] # 0 => sessions'[inSession'[o]].peer = From[o] \/ o \in ById
    BY <1>1, <1>4, <2>2 DEF OwnedInv
  <2>6. \A o \in Message : handler'[o] = "running" => inSession'[o] # 0
    BY <1>2, <1>4, <2>3 DEF OwnedInv
  <2> QED BY <2>4, <2>5, <2>6 DEF OwnedInv
<1>8. MessagesInv'
  <2>1. ASSUME NEW t \in 1..Len(sessions')
        PROVE  /\ InOrder(sessions'[t].messages)
               /\ \A i \in 1..Len(sessions'[t].messages) :
                    /\ inSession'[sessions'[t].messages[i].of] = t
                    /\ \/ From[sessions'[t].messages[i].of] = sessions'[t].peer
                       \/ sessions'[t].messages[i].of \in ById
                    /\ handler'[sessions'[t].messages[i].of] # "new"
                    /\ sessions'[t].messages[i].by = "assistant" =>
                         handler'[sessions'[t].messages[i].of] = "done"
    <3>1. \A u \in 1..Len(sessions) : \A i \in 1..Len(Sessions!MessagesOf(u)) :
            /\ Sessions!MessagesOf(u)[i].of \in Message
            /\ inSession[Sessions!MessagesOf(u)[i].of] = u
            /\ \/ From[Sessions!MessagesOf(u)[i].of] = sessions[u].peer
               \/ Sessions!MessagesOf(u)[i].of \in ById
            /\ handler'[Sessions!MessagesOf(u)[i].of] # "new"
            /\ Sessions!MessagesOf(u)[i].of = m => handler[m] # "new"
            /\ Sessions!MessagesOf(u)[i].by = "assistant" => handler[Sessions!MessagesOf(u)[i].of] = "done"
      <4> SUFFICES ASSUME NEW u \in 1..Len(sessions), NEW i \in 1..Len(Sessions!MessagesOf(u))
                   PROVE  /\ Sessions!MessagesOf(u)[i].of \in Message
                          /\ inSession[Sessions!MessagesOf(u)[i].of] = u
                          /\ \/ From[Sessions!MessagesOf(u)[i].of] = sessions[u].peer
                             \/ Sessions!MessagesOf(u)[i].of \in ById
                          /\ handler'[Sessions!MessagesOf(u)[i].of] # "new"
                          /\ Sessions!MessagesOf(u)[i].of = m => handler[m] # "new"
                          /\ Sessions!MessagesOf(u)[i].by = "assistant" => handler[Sessions!MessagesOf(u)[i].of] = "done"
        OBVIOUS
      <4>1. u \in 1..(Len(sessions) + 1)
        BY DEF SessionTypes
      <4>2. Sessions!MessagesOf(u) = sessions[u].messages
        BY <4>1, OldMessages
      <4>3. Sessions!MessagesOf(u) \in Seq(Sessions!Entry)
        BY <4>1, OldMessages
      <4>4. Sessions!MessagesOf(u)[i] \in Sessions!Entry
        BY <4>3
      <4>5. Sessions!MessagesOf(u)[i].of \in Message
        BY <4>4 DEF Sessions!Entry
      <4> QED BY <1>2, <4>2, <4>5 DEF MessagesInv
    <3>2. CASE t = s
      <4>1. ASSUME NEW i \in 1..Len(messages)
            PROVE  /\ From[messages[i].of] = sessions'[s].peer \/ messages[i].of \in ById
                   /\ handler'[messages[i].of] # "new" /\ inSession'[messages[i].of] = s
                   /\ messages[i].by = "assistant" => handler'[messages[i].of] = "done"
        <5>1. CASE messages[i].of = m /\ (messages[i].by = "assistant" => to = "done")
          BY <1>1, <1>2, <1>4, <5>1
        <5>2. CASE \E j \in 1..Len(Sessions!MessagesOf(s)) : messages[i] = Sessions!MessagesOf(s)[j]
          <6>1. PICK j \in 1..Len(Sessions!MessagesOf(s)) : messages[i] = Sessions!MessagesOf(s)[j]
            BY <5>2
          <6>2. s \in 1..Len(sessions)
            <7>1. s \notin 1..Len(sessions) => Len(Sessions!MessagesOf(s)) = 0
              BY OldMessages
            <7>2. 1..0 = {}
              OBVIOUS
            <7> QED BY <7>1, <7>2
          <6>10. messages[i].of = m => handler[m] # "new"
            BY ONLY <3>1, <6>1, <6>2
          <6>3. messages[i].of = m => to = "done"
            BY ONLY <6>10, to \in {"running", "done"}, to = "running" => handler[m] = "new"
          <6>4. messages[i].of = m \/ handler'[messages[i].of] = handler[messages[i].of]
            BY <1>2, <3>1, <6>1, <6>2
          <6>5. messages[i].of = m \/ inSession'[messages[i].of] = inSession[messages[i].of]
            BY <1>4, <3>1, <6>1, <6>2
          <6> DEFINE o == messages[i].of
          <6>7. o \in Message /\ (From[o] = sessions'[s].peer \/ o \in ById) /\ handler'[o] # "new"
            BY <1>1, <3>1, <6>1, <6>2
          <6>8. inSession[o] = s /\ (messages[i].by = "assistant" => handler[o] = "done")
            BY <3>1, <6>1, <6>2
          <6> HIDE DEF o
          <6>9. o = m => handler'[o] = to /\ inSession'[o] = s
            BY <1>2, <1>4
          <6> QED BY <6>3, <6>4, <6>5, <6>7, <6>8, <6>9 DEF o
        <5> QED BY <5>1, <5>2
      <4> QED BY <1>1, <3>2, <4>1
    <3>3. CASE t # s
      <4>1. t \in 1..Len(sessions) /\ sessions'[t] = sessions[t]
        BY <1>1, <3>3
      <4>2. Sessions!MessagesOf(t) = sessions[t].messages
        <5>1. t \in 1..(Len(sessions) + 1)
          BY <4>1 DEF SessionTypes
        <5> QED BY <4>1, <5>1, OldMessages
      <4>3. ASSUME NEW i \in 1..Len(sessions[t].messages)
            PROVE  sessions[t].messages[i].of # m
        BY <3>1, <3>3, <4>1, <4>2, <4>3
      <4> QED BY <1>2, <1>4, <3>1, <4>1, <4>2, <4>3 DEF MessagesInv
    <3> QED BY <3>2, <3>3
  <2> QED BY <2>1 DEF MessagesInv
<1>9. RunningInv'
  <2>1. ASSUME NEW o \in Message, handler'[o] = "running"
        PROVE  Asked(sessions'[inSession'[o]].messages, o)
    <3>1. CASE o = m
      BY <1>1, <1>2, <1>4, <2>1, <3>1
    <3>2. CASE o # m
      <4>1. handler[o] = "running" /\ inSession'[o] = inSession[o] /\ inSession[o] \in 1..Len(sessions)
        BY <1>2, <1>4, <2>1, <3>2 DEF OwnedInv, SessionTypes
      <4>2. Asked(sessions[inSession[o]].messages, o)
        BY <4>1 DEF RunningInv
      <4>3. CASE inSession[o] = s
        <5>1. Sessions!MessagesOf(s) = sessions[s].messages
          BY <4>1, <4>3, OldMessages
        <5> QED BY <1>1, <4>1, <4>2, <4>3, <5>1
      <4>4. CASE inSession[o] # s
        <5>1. sessions'[inSession[o]] = sessions[inSession[o]]
          BY <1>1, <4>1, <4>4
        <5> QED BY <4>1, <4>2, <5>1
      <4> QED BY <4>3, <4>4
    <3> QED BY <3>1, <3>2
  <2> QED BY <2>1 DEF RunningInv
<1> QED BY <1>6, <1>7, <1>8, <1>9

LEMMA SessionForSender ==
  ASSUME SessionsInv, NEW m \in Message, NEW s \in Sessions!SessionFor(m), Sessions!Joins(m, s)
  PROVE  /\ s \in 1..(Len(sessions) + 1)
         /\ s \in 1..Len(sessions) => sessions[s].peer = From[m] \/ m \in ById
         /\ inSession' = [inSession EXCEPT ![m] = s]
         /\ \/ current' = current
            \/ s \notin 1..Len(sessions) /\ current' = [current EXCEPT ![From[m]] = s]
<1>1. From[m] \in Peer /\ current \in [Peer -> 0..Len(sessions)] /\ Len(sessions) \in Nat
  BY SessionFacts DEF SessionsInv, SessionTypes
<1>2. \/ s = Len(sessions) + 1
      \/ s = current[From[m]] /\ s # 0
      \/ m \in ById /\ \E p \in Peer : s = current[p] /\ s # 0
  BY DEF Sessions!SessionFor, Sessions!Live
<1>3. /\ s \in 1..(Len(sessions) + 1)
      /\ s \in 1..Len(sessions) => (s = current[From[m]] /\ s # 0) \/ m \in ById
  BY <1>1, <1>2
<1>4. s \in 1..Len(sessions) => sessions[s].peer = From[m] \/ m \in ById
  BY <1>1, <1>3 DEF SessionsInv, OwnedInv
<1> QED BY <1>1, <1>3, <1>4 DEF Sessions!Joins

LEMMA EntriesTyped ==
  ASSUME NEW m \in Message, NEW bySkill \in BOOLEAN
  PROVE  /\ Sessions!Says(m) \in Sessions!Entry /\ Sessions!Says(m).by # "assistant"
         /\ Sessions!Says(m).of = m
         /\ Sessions!Replies(m, bySkill) \in Sessions!Entry /\ Sessions!Replies(m, bySkill).of = m
         /\ Sessions!Replies(m, bySkill).by = "assistant"
BY DEF Sessions!Says, Sessions!Replies, Sessions!Entry

\* Who has not been answered has no answer in any session.
LEMMA NotYetAnswered ==
  ASSUME SessionsInv, NEW m \in Message, handler[m] # "done", NEW s \in 1..(Len(sessions) + 1)
  PROVE  ~AnsweredIn(Sessions!MessagesOf(s), m)
<1>1. CASE s \in 1..Len(sessions)
  <2>1. Sessions!MessagesOf(s) = sessions[s].messages
    BY <1>1, OldMessages
  <2> QED BY <1>1, <2>1 DEF AnsweredIn, SessionsInv, MessagesInv
<1>2. CASE s \notin 1..Len(sessions)
  <2>1. Len(Sessions!MessagesOf(s)) = 0 /\ 1..0 = {}
    BY <1>2, OldMessages
  <2> QED BY <2>1 DEF AnsweredIn
<1> QED BY <1>1, <1>2

\* A step of the handler of m: the feedback recorded before stays for the same session.
LEMMA CreditedStays ==
  ASSUME SessionsInv, NEW m \in Message, NEW s, NEW to \in {"running", "done"}, handler[m] = "new" \/ inSession[m] = s,
         handler' = [handler EXCEPT ![m] = to], inSession' = [inSession EXCEPT ![m] = s]
  PROVE  \A c \in credited :
           handler'[c[1]] # "new" /\ handler'[c[2]] # "new" /\ inSession'[c[1]] = inSession'[c[2]]
<1> SUFFICES ASSUME NEW c \in credited
             PROVE  handler'[c[1]] # "new" /\ handler'[c[2]] # "new" /\ inSession'[c[1]] = inSession'[c[2]]
  OBVIOUS
<1> USE DEF SessionsInv, SessionTypes
<1>1. c[1] \in Message /\ c[2] \in Message
  OBVIOUS
<1>2. handler[c[1]] # "new" /\ handler[c[2]] # "new" /\ inSession[c[1]] = inSession[c[2]]
  BY DEF CreditedInv
<1>3. \A o \in Message : handler[o] # "new" => handler'[o] # "new" /\ inSession'[o] = inSession[o]
  OBVIOUS
<1> QED BY <1>1, <1>2, <1>3

LEMMA ReceiveKeeps == ASSUME SessionsInv, NEW m \in Message, Sessions!Receive(m) PROVE SessionsInv'
<1>1. PICK s \in Sessions!SessionFor(m) :
        /\ Sessions!Extend(s, From[m], Sessions!Added(Sessions!MessagesOf(s), Sessions!Says(m)))
        /\ Sessions!Joins(m, s)
  BY DEF Sessions!Receive
<1>2. handler[m] = "new" /\ handler' = [handler EXCEPT ![m] = "running"] /\ credited' = credited
  BY DEF Sessions!Receive
<1>3. /\ s \in 1..(Len(sessions) + 1)
      /\ s \in 1..Len(sessions) => sessions[s].peer = From[m] \/ m \in ById
      /\ inSession' = [inSession EXCEPT ![m] = s]
      /\ \/ current' = current
         \/ s \notin 1..Len(sessions) /\ current' = [current EXCEPT ![From[m]] = s]
  BY <1>1, SessionForSender
<1> DEFINE old == Sessions!MessagesOf(s)
           r == Sessions!Added(old, Sessions!Says(m))
<1>4. old \in Seq(Sessions!Entry) /\ Len(old) <= MaxMessages /\ InOrder(old)
  BY <1>3, OldMessages
<1> HIDE DEF old
<1>5. /\ r \in Seq(Sessions!Entry) /\ Len(r) <= MaxMessages /\ InOrder(r)
      /\ \E i \in 1..Len(r) : r[i] = Sessions!Says(m)
      /\ \A i \in 1..Len(r) : r[i] = Sessions!Says(m) \/ \E j \in 1..Len(old) : r[i] = old[j]
      /\ \A o : Asked(old, o) => Asked(r, o)
  BY <1>4, EntriesTyped, AddedInOrder
<1> HIDE DEF r
<1>6. Asked(r, m)
  BY <1>5 DEF Asked
<1>7. \A i \in 1..Len(r) : \/ \E j \in 1..Len(old) : r[i] = old[j]
                           \/ r[i].of = m /\ (r[i].by = "assistant" => "running" = "done")
  <2>1. Sessions!Says(m).of = m /\ Sessions!Says(m).by # "assistant"
    BY EntriesTyped
  <2> QED BY ONLY <1>5, <2>1
<1>8. credited' \subseteq Message \X Message /\ CreditedInv'
  <2>1. \A c \in credited :
          handler'[c[1]] # "new" /\ handler'[c[2]] # "new" /\ inSession'[c[1]] = inSession'[c[2]]
    BY <1>2, <1>3, CreditedStays
  <2> QED BY <1>2, <2>1 DEF SessionsInv, SessionTypes, CreditedInv
<1>9. Sessions!Extend(s, From[m], r)
  BY <1>1 DEF r, old
<1> QED BY <1>1, <1>2, <1>3, <1>5, <1>6, <1>7, <1>8, <1>9, ExtendKeeps DEF old

LEMMA FeedbackKeeps == ASSUME SessionsInv, NEW m \in Message, Sessions!Feedback(m) PROVE SessionsInv'
<1>1. PICK s \in Sessions!SessionFor(m) :
        /\ s <= Len(sessions)
        /\ \E about \in Sessions!LastSkill(Sessions!Added(Sessions!MessagesOf(s), Sessions!Says(m))) :
             credited' = credited \cup {<<m, about>>}
        /\ Sessions!Extend(s, From[m], Sessions!Added(Sessions!Added(Sessions!MessagesOf(s),
                             Sessions!Says(m)), Sessions!Replies(m, FALSE)))
        /\ Sessions!Joins(m, s)
  BY DEF Sessions!Feedback
<1>2. handler[m] = "new" /\ handler' = [handler EXCEPT ![m] = "done"]
  BY DEF Sessions!Feedback
<1>3. /\ s \in 1..(Len(sessions) + 1) /\ s \in 1..Len(sessions)
      /\ sessions[s].peer = From[m] \/ m \in ById
      /\ inSession' = [inSession EXCEPT ![m] = s] /\ current' = current
  BY <1>1, SessionForSender DEF SessionsInv, SessionTypes
<1> DEFINE old == Sessions!MessagesOf(s)
           q == Sessions!Added(old, Sessions!Says(m))
           r == Sessions!Added(q, Sessions!Replies(m, FALSE))
<1>4. old \in Seq(Sessions!Entry) /\ Len(old) <= MaxMessages /\ InOrder(old) /\ old = sessions[s].messages
  BY <1>3, OldMessages
<1>5. ~AnsweredIn(old, m)
  BY <1>2, <1>3, NotYetAnswered
<1>6. \A i \in 1..Len(old) :
        old[i].of \in Message /\ inSession[old[i].of] = s /\ handler[old[i].of] # "new"
  <2>1. \A i \in 1..Len(old) : old[i] \in Sessions!Entry
    BY <1>4
  <2> QED BY <1>3, <1>4, <2>1 DEF SessionsInv, MessagesInv, Sessions!Entry
<1>a. /\ \E about \in Sessions!LastSkill(q) : credited' = credited \cup {<<m, about>>}
      /\ Sessions!Extend(s, From[m], r)
  BY <1>1
<1> HIDE DEF old
<1>7. /\ q \in Seq(Sessions!Entry) /\ Len(q) <= MaxMessages /\ InOrder(q)
      /\ \E i \in 1..Len(q) : q[i] = Sessions!Says(m)
      /\ \A i \in 1..Len(q) : q[i] = Sessions!Says(m) \/ \E j \in 1..Len(old) : q[i] = old[j]
      /\ \A o : Asked(old, o) => Asked(q, o)
  BY <1>4, EntriesTyped, AddedInOrder
<1> HIDE DEF q
<1>8. Asked(q, m) /\ ~AnsweredIn(q, m)
  <2>1. Asked(q, m)
    BY <1>7 DEF Asked
  <2>2. SUFFICES ASSUME NEW j \in 1..Len(q), q[j].by = "assistant", q[j].of = m
                 PROVE  FALSE
    BY <2>1 DEF AnsweredIn
  <2>3. q[j] # Sessions!Says(m)
    BY <2>2, EntriesTyped
  <2>4. PICK i \in 1..Len(old) : q[j] = old[i]
    BY <1>7, <2>3
  <2> QED BY <1>5, <2>2, <2>4 DEF AnsweredIn
<1>9. /\ r \in Seq(Sessions!Entry) /\ Len(r) <= MaxMessages /\ InOrder(r)
      /\ \A i \in 1..Len(r) : r[i] = Sessions!Replies(m, FALSE) \/ \E j \in 1..Len(q) : r[i] = q[j]
      /\ \A o : Asked(q, o) => Asked(r, o)
  <2> DEFINE e == Sessions!Replies(m, FALSE)
  <2>1. e \in Sessions!Entry /\ e.of = m
    BY EntriesTyped
  <2>2. r = Sessions!Added(q, e)
    OBVIOUS
  <2> HIDE DEF e, r
  <2>3. ~AnsweredIn(q, e.of) /\ Asked(q, e.of)
    BY <1>8, <2>1
  <2> DEFINE x == Sessions!Added(q, e)
  <2>4. /\ x \in Seq(Sessions!Entry) /\ Len(x) <= MaxMessages /\ InOrder(x)
        /\ \A i \in 1..Len(x) : x[i] = e \/ \E j \in 1..Len(q) : x[i] = q[j]
        /\ \A o : Asked(q, o) => Asked(x, o)
    <3>1. q \in Seq(Sessions!Entry) /\ Len(q) <= MaxMessages /\ InOrder(q)
      BY <1>7
    <3> QED BY <2>1, <2>3, <3>1, AddedInOrder
  <2>5. r = x
    BY <2>2
  <2> HIDE DEF x
  <2> QED BY <2>4, <2>5 DEF e
<1> HIDE DEF r
<1>10. \A i \in 1..Len(r) : \/ \E j \in 1..Len(old) : r[i] = old[j]
                            \/ r[i].of = m /\ (r[i].by = "assistant" => "done" = "done")
  <2> TAKE i \in 1..Len(r)
  <2>1. Sessions!Says(m).of = m /\ Sessions!Replies(m, FALSE).of = m
    BY EntriesTyped
  <2>2. CASE r[i] = Sessions!Replies(m, FALSE)
    BY <2>1, <2>2
  <2>3. CASE \E j \in 1..Len(q) : r[i] = q[j]
    BY <1>7, <2>1, <2>3
  <2> QED BY <1>9, <2>2, <2>3
<1>11. credited' \subseteq Message \X Message /\ CreditedInv'
  <2>1. PICK about \in Sessions!LastSkill(q) : credited' = credited \cup {<<m, about>>}
    BY <1>a
  <2>2. \E i \in 1..Len(q) : about = q[i].of
    BY DEF Sessions!LastSkill
  <2>3. about \in Message /\ (about = m \/ (inSession[about] = s /\ handler[about] # "new"))
    <3>1. PICK i \in 1..Len(q) : about = q[i].of
      BY <2>2
    <3>2. CASE q[i] = Sessions!Says(m)
      <4>1. Sessions!Says(m).of = m
        BY EntriesTyped
      <4> QED BY <3>1, <3>2, <4>1
    <3>3. CASE \E j \in 1..Len(old) : q[i] = old[j]
      BY <1>6, <3>1, <3>3
    <3> QED BY <1>7, <3>2, <3>3
  <2>4. \A o \in {m, about} : handler'[o] # "new" /\ inSession'[o] = s
    BY <1>2, <1>3, <2>3 DEF SessionsInv, SessionTypes
  <2>5. \A c \in credited :
          handler'[c[1]] # "new" /\ handler'[c[2]] # "new" /\ inSession'[c[1]] = inSession'[c[2]]
    BY <1>2, <1>3, CreditedStays
  <2> QED BY <2>1, <2>3, <2>4, <2>5 DEF SessionsInv, SessionTypes, CreditedInv
<1> QED BY <1>1, <1>2, <1>3, <1>7, <1>9, <1>10, <1>11, <1>a, ExtendKeeps DEF old

LEMMA AnswerKeeps == ASSUME SessionsInv, NEW m \in Message, Sessions!Answer(m) PROVE SessionsInv'
<1> DEFINE s == inSession[m]
           old == Sessions!MessagesOf(s)
<1>1. PICK skl \in BOOLEAN :
        Sessions!Extend(s, From[m], Sessions!Added(old, Sessions!Replies(m, skl)))
  BY DEF Sessions!Answer
<1>2. /\ handler[m] = "running" /\ handler' = [handler EXCEPT ![m] = "done"]
      /\ UNCHANGED <<current, inSession, credited>>
  BY DEF Sessions!Answer
<1>3. s \in 1..(Len(sessions) + 1) /\ s \in 1..Len(sessions)
      /\ (sessions[s].peer = From[m] \/ m \in ById)
  BY <1>2 DEF SessionsInv, SessionTypes, OwnedInv
<1>4. inSession' = [inSession EXCEPT ![m] = s]
  BY <1>2 DEF SessionsInv, SessionTypes
<1> DEFINE r == Sessions!Added(old, Sessions!Replies(m, skl))
<1> HIDE DEF s
<1>5. old \in Seq(Sessions!Entry) /\ Len(old) <= MaxMessages /\ InOrder(old) /\ old = sessions[s].messages
  BY <1>3, OldMessages
<1>6. ~AnsweredIn(old, m)
  BY <1>2, <1>3, NotYetAnswered
<1>7. Asked(old, m)
  BY <1>2, <1>5 DEF SessionsInv, RunningInv, s
<1>8. Sessions!Extend(s, From[m], r)
  BY <1>1
<1> HIDE DEF old
<1>9. /\ r \in Seq(Sessions!Entry) /\ Len(r) <= MaxMessages /\ InOrder(r)
      /\ \A i \in 1..Len(r) : r[i] = Sessions!Replies(m, skl) \/ \E j \in 1..Len(old) : r[i] = old[j]
      /\ \A o : Asked(old, o) => Asked(r, o)
  <2> DEFINE e == Sessions!Replies(m, skl)
  <2>1. e \in Sessions!Entry /\ e.of = m
    BY EntriesTyped
  <2>2. r = Sessions!Added(old, e)
    OBVIOUS
  <2> HIDE DEF e, r
  <2>3. ~AnsweredIn(old, e.of) /\ Asked(old, e.of)
    BY <1>6, <1>7, <2>1
  <2> DEFINE x == Sessions!Added(old, e)
  <2>4. /\ x \in Seq(Sessions!Entry) /\ Len(x) <= MaxMessages /\ InOrder(x)
        /\ \A i \in 1..Len(x) : x[i] = e \/ \E j \in 1..Len(old) : x[i] = old[j]
        /\ \A o : Asked(old, o) => Asked(x, o)
    <3>1. old \in Seq(Sessions!Entry) /\ Len(old) <= MaxMessages /\ InOrder(old)
      BY <1>5
    <3> QED BY <2>1, <2>3, <3>1, AddedInOrder
  <2>5. r = x
    BY <2>2
  <2> HIDE DEF x
  <2> QED BY <2>4, <2>5 DEF e
<1> HIDE DEF r
<1>10. \A i \in 1..Len(r) : \/ \E j \in 1..Len(old) : r[i] = old[j]
                            \/ r[i].of = m /\ (r[i].by = "assistant" => "done" = "done")
  BY <1>9, EntriesTyped
<1>11. credited' \subseteq Message \X Message /\ CreditedInv'
  <2>1. \A c \in credited :
          handler'[c[1]] # "new" /\ handler'[c[2]] # "new" /\ inSession'[c[1]] = inSession'[c[2]]
    BY <1>2, <1>4, CreditedStays DEF s
  <2> QED BY <1>2, <2>1 DEF SessionsInv, SessionTypes, CreditedInv
<1>12. inSession[m] = s
  BY DEF s
<1>13. current' = current
  BY <1>2
<1>14. "done" \in {"running", "done"} /\ "done" # "running"
  OBVIOUS
<1>15. /\ \A i \in 1..Len(r) : \/ \E j \in 1..Len(Sessions!MessagesOf(s)) : r[i] = Sessions!MessagesOf(s)[j]
                               \/ r[i].of = m /\ (r[i].by = "assistant" => "done" = "done")
       /\ \A o : Asked(Sessions!MessagesOf(s), o) => Asked(r, o)
  BY <1>9, <1>10 DEF old
<1> QED BY <1>2, <1>3, <1>4, <1>8, <1>9, <1>11, <1>12, <1>13, <1>14, <1>15, ExtendKeeps

LEMMA SessionsKeeps == SessionsInv /\ [Sessions!SessionsNext]_(Sessions!sessionVars) => SessionsInv'
<1> SUFFICES ASSUME SessionsInv, [Sessions!SessionsNext]_(Sessions!sessionVars) PROVE SessionsInv'
  OBVIOUS
<1>1. CASE UNCHANGED Sessions!sessionVars
  <2>1. UNCHANGED <<sessions, current, expired, handler, inSession, credited>>
    BY <1>1 DEF Sessions!sessionVars
  <2>2. SessionTypes' /\ OwnedInv' /\ MessagesInv' /\ RunningInv' /\ CreditedInv'
    BY <2>1 DEF SessionsInv, SessionTypes, OwnedInv, MessagesInv, RunningInv, CreditedInv
  <2> QED BY <2>2 DEF SessionsInv
<1>2. ASSUME NEW m \in Message, Sessions!Unanswered(m) PROVE SessionsInv'
  <2>1. /\ handler[m] = "running" /\ handler' = [handler EXCEPT ![m] = "done"]
        /\ UNCHANGED <<sessions, current, expired, inSession, credited>>
    BY <1>2 DEF Sessions!Unanswered
  <2>2. /\ handler' \in [Message -> {"new", "running", "done"}] /\ handler'[m] = "done"
        /\ \A o \in Message : o # m => handler'[o] = handler[o]
    BY <2>1 DEF SessionsInv, SessionTypes
  <2>3. SessionTypes' /\ OwnedInv' /\ RunningInv' /\ CreditedInv'
    BY <2>1, <2>2 DEF SessionsInv, SessionTypes, OwnedInv, RunningInv, CreditedInv
  <2>4. \A t \in 1..Len(sessions) : \A i \in 1..Len(sessions[t].messages) : sessions[t].messages[i].of \in Message
    <3> SUFFICES ASSUME NEW t \in 1..Len(sessions), NEW i \in 1..Len(sessions[t].messages)
                 PROVE  sessions[t].messages[i].of \in Message
      OBVIOUS
    <3>1. sessions[t] \in SessionRecord
      BY DEF SessionsInv, SessionTypes
    <3>2. sessions[t].messages \in Seq(Sessions!Entry)
      BY <3>1 DEF SessionRecord
    <3>3. sessions[t].messages[i] \in Sessions!Entry
      BY <3>2
    <3> QED BY <3>3 DEF Sessions!Entry
  <2>5. MessagesInv'
    BY <2>1, <2>2, <2>4 DEF SessionsInv, MessagesInv
  <2> QED BY <2>3, <2>5 DEF SessionsInv
<1>3. ASSUME NEW s \in 1..Len(sessions), Sessions!Expire(s) PROVE SessionsInv'
  <2>1. expired' = expired \cup {s} /\ UNCHANGED <<sessions, current, handler, inSession, credited>>
    BY <1>3 DEF Sessions!Expire
  <2>2. SessionTypes' /\ OwnedInv' /\ MessagesInv' /\ RunningInv' /\ CreditedInv'
    BY <2>1 DEF SessionsInv, SessionTypes, OwnedInv, MessagesInv, RunningInv, CreditedInv
  <2> QED BY <2>2 DEF SessionsInv
<1>4. ASSUME NEW p \in Peer, Sessions!Prune(p) PROVE SessionsInv'
  <2>1. /\ current' = [current EXCEPT ![p] = 0]
        /\ UNCHANGED <<sessions, expired, handler, inSession, credited>>
    BY <1>4 DEF Sessions!Prune
  <2>2. /\ current' \in [Peer -> 0..Len(sessions)]
        /\ \A o \in Peer : current'[o] = 0 \/ current'[o] = current[o]
    BY <2>1 DEF SessionsInv, SessionTypes
  <2>3. SessionTypes' /\ OwnedInv' /\ MessagesInv' /\ RunningInv' /\ CreditedInv'
    BY <2>1, <2>2 DEF SessionsInv, SessionTypes, OwnedInv, MessagesInv, RunningInv, CreditedInv
  <2> QED BY <2>3 DEF SessionsInv
<1> QED BY <1>1, <1>2, <1>3, <1>4, FeedbackKeeps, ReceiveKeeps, AnswerKeeps DEF Sessions!SessionsNext

LEMMA SessionsFollows == SessionsInv => Sessions!AnswersInContext /\ Sessions!SessionsTypeOK
<1> SUFFICES ASSUME SessionsInv PROVE Sessions!AnswersInContext /\ Sessions!SessionsTypeOK
  OBVIOUS
<1>1. Sessions!AnswersInContext
  BY DEF SessionsInv, MessagesInv, CreditedInv, InOrder, Sessions!AnswersInContext
<1>2. \A s \in 1..Len(sessions) : /\ sessions[s].peer \in Peer /\ sessions[s].messages \in Seq(Sessions!Entry)
                                  /\ Len(sessions[s].messages) <= MaxMessages
  <2> TAKE s \in 1..Len(sessions)
  <2>1. sessions[s] \in SessionRecord /\ Len(sessions[s].messages) <= MaxMessages
    BY DEF SessionsInv, SessionTypes
  <2> QED BY <2>1 DEF SessionRecord
<1> QED BY <1>1, <1>2 DEF SessionsInv, SessionTypes, Sessions!SessionsTypeOK

(***************************************************************************)
(* Pairing.  A pending code is the newest that was sent to its peer.       *)
(***************************************************************************)
PairingInv ==
  /\ Pairing!PairingTypeOK
  /\ \A p \in PeerId : pendingCode[p] # 0 =>
       /\ pendingCode[p] \in 1..codes
       /\ sentTo[pendingCode[p]][1] = p
       /\ \A c \in 1..codes : c > pendingCode[p] => sentTo[c][1] # p
  /\ Pairing!AllowedEarned

LEMMA PairingStarts == Pairing!PairingInit => PairingInv
BY ServicesAssumption DEF ServicesAssumption, Pairing!PairingAssumption, Pairing!PairingInit,
   PairingInv, Pairing!PairingTypeOK, Pairing!AllowedEarned, Pairing!NoVerdict

LEMMA DirectMessagePairing ==
  ASSUME PairingInv, NEW p \in PeerId, NEW ch \in Chat, NEW code \in 0..codes,
         Pairing!DirectMessage(p, ch, code)
  PROVE  PairingInv'
<1> USE DEF PairingInv, Pairing!PairingTypeOK
<1>0. MaxCodes \in Nat
  BY ServicesAssumption DEF ServicesAssumption, Pairing!PairingAssumption
<1>1. CASE Pairing!Paired(p, ch)
  <2>1. /\ verdict' = [result |-> "allow", peer |-> p, chat |-> ch, code |-> 0]
        /\ UNCHANGED <<peers, pendingCode, dueCodes, codes, sentTo>>
    BY <1>1 DEF Pairing!DirectMessage
  <2>2. Pairing!AllowedEarned'
    BY <1>1, <2>1 DEF Pairing!AllowedEarned, Pairing!Paired
  <2> QED BY <2>1, <2>2
<1>2. CASE ~Pairing!Paired(p, ch) /\ Pairing!Valid(p, code)
  <2>1. /\ peers' = peers \cup {<<p, Pairing!Unknown>>}
        /\ pendingCode' = [pendingCode EXCEPT ![p] = 0]
        /\ verdict' = [result |-> "allow", peer |-> p, chat |-> ch, code |-> code]
        /\ UNCHANGED <<dueCodes, codes, sentTo>>
    BY <1>2 DEF Pairing!DirectMessage
  <2>2. code # 0 /\ code = pendingCode[p] /\ code \notin dueCodes
    BY <1>2 DEF Pairing!Valid
  <2>3. Pairing!AllowedEarned'
    BY <2>1, <2>2 DEF Pairing!AllowedEarned
  <2>4. Pairing!PairingTypeOK'
    BY <1>0, <2>1 DEF Pairing!Channels, Pairing!Unknown
  <2> QED BY <2>1, <2>3, <2>4
<1>3. CASE ~Pairing!Paired(p, ch) /\ ~Pairing!Valid(p, code)
  <2>1. /\ codes < MaxCodes /\ codes' = codes + 1
        /\ pendingCode' = [pendingCode EXCEPT ![p] = codes + 1]
        /\ sentTo' = [c \in 1..codes + 1 |-> IF c = codes + 1 THEN <<p, ch>> ELSE sentTo[c]]
        /\ verdict' = [result |-> "pairing_code_sent", peer |-> p, chat |-> ch, code |-> 0]
        /\ UNCHANGED <<peers, dueCodes>>
    BY <1>3 DEF Pairing!DirectMessage, Pairing!Challenge
  <2>2. /\ codes \in Nat /\ DOMAIN sentTo' = 1..codes'
        /\ \A c \in 1..codes : sentTo'[c] = sentTo[c]
        /\ sentTo'[codes + 1] = <<p, ch>>
    BY <1>0, <2>1
  <2>3. \A c \in 1..codes' : sentTo'[c] \in PeerId \X Chat
    BY <2>1, <2>2
  <2>4. Pairing!AllowedEarned' /\ verdict'.result = "pairing_code_sent"
    BY <2>1 DEF Pairing!AllowedEarned
  <2>5. dueCodes' \subseteq 1..codes' /\ codes' \in 0..MaxCodes /\ peers' \subseteq PeerId \X Pairing!Channels
    BY <1>0, <2>1, <2>2
  <2>6. pendingCode' \in [PeerId -> 0..MaxCodes]
    BY <1>0, <2>1, <2>2
  <2>7. ASSUME NEW q \in PeerId, pendingCode'[q] # 0
        PROVE  /\ pendingCode'[q] \in 1..codes' /\ sentTo'[pendingCode'[q]][1] = q
               /\ \A c \in 1..codes' : c > pendingCode'[q] => sentTo'[c][1] # q
    <3>1. CASE q = p
      BY <2>1, <2>2, <3>1
    <3>2. CASE q # p
      <4>1. pendingCode'[q] = pendingCode[q]
        BY <2>1, <3>2
      <4>2. /\ pendingCode[q] \in 1..codes /\ sentTo[pendingCode[q]][1] = q
            /\ \A c \in 1..codes : c > pendingCode[q] => sentTo[c][1] # q
        BY <2>7, <4>1
      <4>3. \A c \in 1..codes' : c \in 1..codes \/ c = codes + 1
        BY <2>1, <2>2
      <4> QED BY <2>1, <2>2, <3>2, <4>1, <4>2, <4>3
    <3> QED BY <3>1, <3>2
  <2> QED BY <2>2, <2>3, <2>4, <2>5, <2>6, <2>7
<1> QED BY <1>1, <1>2, <1>3

LEMMA PairingKeeps == PairingInv /\ [Pairing!PairingNext]_(Pairing!pairingVars) => PairingInv'
<1> SUFFICES ASSUME PairingInv, [Pairing!PairingNext]_(Pairing!pairingVars) PROVE PairingInv'
  OBVIOUS
<1> USE DEF PairingInv, Pairing!PairingTypeOK, Pairing!AllowedEarned, Pairing!NoVerdict
<1>1. CASE UNCHANGED Pairing!pairingVars
  BY <1>1 DEF Pairing!pairingVars, Pairing!Paired
<1>2. ASSUME NEW p \in PeerId, NEW ch \in Chat, Pairing!Approve(p, ch) PROVE PairingInv'
  BY <1>2 DEF Pairing!Approve, Pairing!Channels
<1>3. ASSUME NEW p \in PeerId, NEW ch \in Chat, Pairing!Revoke(p, ch) PROVE PairingInv'
  BY <1>3 DEF Pairing!Revoke
<1>4. ASSUME NEW c \in 1..codes, Pairing!CodeExpires(c) PROVE PairingInv'
  BY <1>4 DEF Pairing!CodeExpires
<1> QED BY <1>1, <1>2, <1>3, <1>4, DirectMessagePairing DEF Pairing!PairingNext

LEMMA PairingFollows == PairingInv => Pairing!AllowedEarned
BY DEF PairingInv

(***************************************************************************)
(* The start of the gateway.  One caller runs the control plane's start(); *)
(* every channel builds an engine of its own, the HTTP gateway takes the   *)
(* last of them.                                                           *)
(***************************************************************************)
StartTypes ==
  /\ channels \subseteq Chan /\ WebChat \in channels
  /\ plane \in {"none", "starting", "started", "failed"} /\ agents \in 0..AgentCount
  /\ planeCall \in [Caller -> {"none", "starting", "answered", "failed"}]
  /\ agentsAt \in [Caller -> 0..AgentCount]
  /\ service \in {"plane", "channels", "http", "up", "failed", "ended"}
  /\ boot \in [Start!Users -> {"off", "syncing", "loading", "indexing", "built", "running", "failed"}]
  /\ engines \in Nat
  /\ engineOf \in [Start!Users -> 0..engines] /\ sawEngine \in [Start!Users -> 0..engines]

PlaneInv ==
  /\ \A c \in Caller : planeCall[c] = "starting" => plane = "starting"
  /\ \A c \in Caller : plane = "none" => planeCall[c] = "none"
  /\ \A c, d \in Caller : planeCall[c] = "starting" /\ planeCall[d] = "starting" => c = d
  /\ plane = "starting" => \E c \in Caller : planeCall[c] = "starting"
  /\ plane = "failed" => \E c \in Caller : planeCall[c] = "failed"
  /\ plane = "started" =>
       /\ agents = AgentCount
       /\ \E c \in Caller : planeCall[c] = "answered" /\ agentsAt[c] = AgentCount

BootInv ==
  /\ service = "plane" => engines = 0 /\ \A u \in Start!Users : boot[u] = "off"
  /\ service = "channels" => boot[Http] = "off"
  /\ boot[Http] \in {"off", "built", "running"}
  /\ \A u \in Chan \ channels : boot[u] = "off"
  /\ service \in {"http", "up"} =>
       /\ \A u \in channels : boot[u] = "running"
       /\ boot[Http] \in {"built", "running"} /\ engineOf[Http] = engines

EngineOfInv ==
  /\ \A u \in channels : boot[u] \in {"off", "syncing", "loading", "indexing"} => engineOf[u] = 0
  /\ \A u \in channels : boot[u] \in {"built", "running"} => engineOf[u] # 0
  /\ \A u, v \in channels : engineOf[u] = engineOf[v] /\ engineOf[u] # 0 => u = v

\* The engines are those of the channels that have one.
EngineCount == engines = Cardinality({u \in channels : engineOf[u] # 0})

StartInv == StartTypes /\ PlaneInv /\ BootInv /\ EngineOfInv /\ EngineCount

LEMMA StartFacts ==
  /\ Kind \in [Chan -> {"listens", "connects", "polls"}]
  /\ IsFiniteSet(Chan) /\ WebChat \in Chan /\ Http \notin Chan /\ Service \in Caller
  /\ AgentCount \in Nat \ {0} /\ Start!Users = Chan \cup {Http}
  /\ \A S : Start!Cardinality(S) = Cardinality(S)
<1>1. Start!StartAssumption
  BY ServicesAssumption DEF ServicesAssumption
<1>2. IsFiniteSet(Chan)
  BY <1>1 DEF Start!StartAssumption, Start!IsFiniteSet, IsFiniteSet
<1>3. \A S : Start!Cardinality(S) = Cardinality(S)
  BY DEF Start!Cardinality, Cardinality, Start!IsFiniteSet, IsFiniteSet
<1> QED BY <1>1, <1>2, <1>3 DEF Start!StartAssumption, Start!Users

LEMMA StartStarts == Start!StartInit => StartInv
<1> SUFFICES ASSUME Start!StartInit PROVE StartInv
  OBVIOUS
<1>1. {u \in channels : engineOf[u] # 0} = {}
  BY StartFacts DEF Start!StartInit
<1>2. EngineCount
  BY <1>1, FS_EmptySet DEF EngineCount, Start!StartInit
<1>3. StartTypes
  BY StartFacts DEF Start!StartInit, StartTypes
<1>4. PlaneInv /\ BootInv /\ EngineOfInv
  BY StartFacts DEF Start!StartInit, PlaneInv, BootInv, EngineOfInv
<1> QED BY <1>2, <1>3, <1>4 DEF StartInv

\* The steps of the control plane leave the engines alone.
LEMMA PlaneStep ==
  ASSUME StartInv, StartTypes', PlaneInv',
         UNCHANGED <<channels, boot, engines, engineOf, sawEngine>>,
         service' = service \/ service' = "failed"
  PROVE  StartInv'
<1>1. BootInv'
  BY DEF StartInv, BootInv, StartTypes
<1>2. EngineOfInv' /\ EngineCount'
  BY DEF StartInv, EngineOfInv, EngineCount
<1> QED BY <1>1, <1>2 DEF StartInv

LEMMA AnsweredShape ==
  ASSUME StartInv, NEW c \in Caller, Start!Answered(c), agents' \in 0..AgentCount
  PROVE  /\ planeCall' \in [Caller -> {"none", "starting", "answered", "failed"}]
         /\ planeCall'[c] = "answered" /\ \A d \in Caller \ {c} : planeCall'[d] = planeCall[d]
         /\ agentsAt' \in [Caller -> 0..AgentCount]
         /\ agentsAt'[c] = agents' /\ \A d \in Caller \ {c} : agentsAt'[d] = agentsAt[d]
BY DEF Start!Answered, StartInv, StartTypes

LEMMA PlaneKeeps ==
  ASSUME StartInv,
         \/ \E c \in Caller : Start!GetPlane(c) \/ Start!PlaneStarts(c) \/ Start!PlaneFails(c)
         \/ Start!AddAgent
  PROVE  StartInv'
<1> USE StartFacts
<1>1. ASSUME NEW c \in Caller, Start!GetPlane(c) PROVE StartInv'
  <2>1. planeCall[c] = "none" /\ UNCHANGED <<channels, service, boot, engines, engineOf, sawEngine>>
    BY <1>1 DEF Start!GetPlane, Start!planeOnly
  <2>2. CASE plane = "none"
    <3>1. /\ plane' = "starting" /\ planeCall' = [planeCall EXCEPT ![c] = "starting"]
          /\ UNCHANGED <<agents, agentsAt>>
      BY <1>1, <2>2 DEF Start!GetPlane
    <3>2. StartTypes'
      BY <2>1, <3>1 DEF StartInv, StartTypes
    <3>3. planeCall'[c] = "starting" /\ \A d \in Caller \ {c} : planeCall'[d] = "none"
      BY <2>2, <3>1 DEF StartInv, StartTypes, PlaneInv
    <3>4. PlaneInv'
      BY <3>1, <3>3 DEF PlaneInv
    <3> QED BY <2>1, <3>2, <3>4, PlaneStep
  <2>3. CASE plane # "none"
    <3>1. UNCHANGED <<plane, agents>> /\ Start!Answered(c)
      BY <1>1, <2>3 DEF Start!GetPlane
    <3>2. /\ planeCall' \in [Caller -> {"none", "starting", "answered", "failed"}]
          /\ planeCall'[c] = "answered" /\ \A d \in Caller \ {c} : planeCall'[d] = planeCall[d]
          /\ agentsAt' \in [Caller -> 0..AgentCount]
          /\ \A d \in Caller \ {c} : agentsAt'[d] = agentsAt[d]
      BY <3>1, AnsweredShape DEF StartInv, StartTypes
    <3>3. StartTypes'
      BY <2>1, <3>1, <3>2 DEF StartInv, StartTypes
    <3>4. PlaneInv'
      <4>1. \A d \in Caller : planeCall[d] # "none" =>
              planeCall'[d] = planeCall[d] /\ agentsAt'[d] = agentsAt[d]
        BY <2>1, <3>2
      <4>2. \A d \in Caller : planeCall'[d] = "starting" => planeCall[d] = "starting"
        BY <3>2
      <4> QED BY <2>3, <3>1, <4>1, <4>2 DEF StartInv, PlaneInv
    <3> QED BY <2>1, <3>3, <3>4, PlaneStep
  <2> QED BY <2>2, <2>3
<1>2. ASSUME NEW c \in Caller, Start!PlaneStarts(c) PROVE StartInv'
  <2>1. /\ planeCall[c] = "starting" /\ plane' = "started" /\ agents = AgentCount /\ agents' = agents
        /\ Start!Answered(c) /\ UNCHANGED <<channels, service, boot, engines, engineOf, sawEngine>>
    BY <1>2 DEF Start!PlaneStarts, Start!planeOnly
  <2>2. /\ planeCall' \in [Caller -> {"none", "starting", "answered", "failed"}]
        /\ planeCall'[c] = "answered" /\ \A d \in Caller \ {c} : planeCall'[d] = planeCall[d]
        /\ agentsAt' \in [Caller -> 0..AgentCount] /\ agentsAt'[c] = AgentCount
        /\ \A d \in Caller \ {c} : agentsAt'[d] = agentsAt[d]
    BY <2>1, AnsweredShape DEF StartInv, StartTypes
  <2>3. StartTypes'
    BY <2>1, <2>2 DEF StartInv, StartTypes
  <2>4. \A d \in Caller : planeCall'[d] # "starting"
    BY <2>1, <2>2 DEF StartInv, PlaneInv
  <2>5. PlaneInv'
    BY <2>1, <2>2, <2>4 DEF PlaneInv
  <2> QED BY <2>1, <2>3, <2>5, PlaneStep
<1>3. ASSUME NEW c \in Caller, Start!PlaneFails(c) PROVE StartInv'
  <2>1. /\ planeCall[c] = "starting" /\ plane' = "failed"
        /\ planeCall' = [planeCall EXCEPT ![c] = "failed"]
        /\ service' = service \/ service' = "failed"
        /\ UNCHANGED <<channels, agents, agentsAt, boot, engines, engineOf, sawEngine>>
    BY <1>3 DEF Start!PlaneFails
  <2>2. /\ planeCall' \in [Caller -> {"none", "starting", "answered", "failed"}]
        /\ planeCall'[c] = "failed" /\ \A d \in Caller \ {c} : planeCall'[d] = planeCall[d]
    BY <2>1 DEF StartInv, StartTypes
  <2>3. StartTypes'
    BY <2>1, <2>2 DEF StartInv, StartTypes
  <2>4. \A d \in Caller : planeCall'[d] # "starting"
    BY <2>1, <2>2 DEF StartInv, PlaneInv
  <2>5. PlaneInv'
    BY <2>1, <2>2, <2>4 DEF PlaneInv
  <2> QED BY <2>1, <2>3, <2>5, PlaneStep
<1>4. CASE Start!AddAgent
  <2>1. /\ plane = "starting" /\ agents < AgentCount /\ agents' = agents + 1
        /\ UNCHANGED <<plane, planeCall, agentsAt, channels, service, boot, engines, engineOf, sawEngine>>
    BY <1>4 DEF Start!AddAgent, Start!planeOnly
  <2>2. agents' \in 0..AgentCount
    BY <2>1 DEF StartInv, StartTypes
  <2>3. StartTypes'
    BY <2>1, <2>2 DEF StartInv, StartTypes
  <2>4. PlaneInv'
    BY <2>1 DEF StartInv, PlaneInv
  <2> QED BY <2>1, <2>3, <2>4, PlaneStep
<1> QED BY <1>1, <1>2, <1>3, <1>4

\* The steps of the engines and channels leave the control plane alone.
LEMMA BootStepKeepsPlane ==
  ASSUME StartInv, UNCHANGED <<channels, plane, agents, planeCall, agentsAt>>
  PROVE  PlaneInv'
BY DEF StartInv, PlaneInv

\* One user's start goes on, and no engine is built.
LEMMA OneBoots ==
  ASSUME StartInv, NEW u \in Start!Users, NEW to, boot' = [boot EXCEPT ![u] = to],
         to \in {"syncing", "loading", "indexing", "built", "running", "failed"},
         UNCHANGED <<engines, engineOf, sawEngine, channels, plane, agents, planeCall, agentsAt>>,
         service' \in {"plane", "channels", "http", "up", "failed", "ended"},
         boot[u] # "off",
         u = Http => to = "running",
         to \in {"syncing", "loading", "indexing"} => boot[u] \in {"syncing", "loading", "indexing"},
         to \in {"built", "running"} => boot[u] \in {"built", "running"},
         \/ service' \in {"failed", "ended"}
         \/ service' = service /\ (service \in {"http", "up"} => to = "running")
         \/ service' = "up" /\ service = "http" /\ to = "running"
  PROVE  StartInv'
<1> USE StartFacts
<1>1. /\ boot'[u] = to /\ \A v \in Start!Users \ {u} : boot'[v] = boot[v]
      /\ boot' \in [Start!Users -> {"off", "syncing", "loading", "indexing", "built", "running", "failed"}]
  BY DEF StartInv, StartTypes
<1>2. StartTypes'
  BY <1>1 DEF StartInv, StartTypes
<1>3. PlaneInv'
  BY BootStepKeepsPlane
<1>4. u \in channels \cup {Http}
  BY DEF StartInv, BootInv
<1>5. BootInv'
  <2>1. service' # "plane"
    BY DEF StartInv, BootInv
  <2>2. service' = "channels" => boot'[Http] = "off"
    BY <1>1 DEF StartInv, BootInv
  <2>3. boot'[Http] \in {"off", "built", "running"}
    BY <1>1 DEF StartInv, BootInv
  <2>4. \A v \in Chan \ channels : boot'[v] = "off"
    BY <1>1, <1>4 DEF StartInv, BootInv
  <2>5. service' \in {"http", "up"} =>
          /\ \A v \in channels : boot'[v] = "running"
          /\ boot'[Http] \in {"built", "running"} /\ engineOf[Http] = engines
    BY <1>1 DEF StartInv, BootInv, StartTypes
  <2> QED BY <2>1, <2>2, <2>3, <2>4, <2>5 DEF BootInv
<1>6. EngineOfInv'
  <2>1. channels \subseteq Start!Users
    BY DEF StartInv, StartTypes
  <2> QED BY <1>1, <2>1 DEF StartInv, EngineOfInv
<1>7. EngineCount'
  BY DEF StartInv, EngineCount
<1> QED BY <1>2, <1>3, <1>5, <1>6, <1>7 DEF StartInv

LEMMA PublishKeeps ==
  ASSUME StartInv, NEW u \in Start!Users, Start!Publish(u) PROVE StartInv'
<1> USE StartFacts
<1>1. /\ boot[u] = "indexing" /\ boot' = [boot EXCEPT ![u] = "built"]
      /\ engines' = engines + 1 /\ engineOf' = [engineOf EXCEPT ![u] = engines + 1]
      /\ UNCHANGED <<service, sawEngine, channels, plane, agents, planeCall, agentsAt>>
  BY DEF Start!Publish, Start!bootOnly
<1>2. u \in channels /\ u # Http /\ channels \subseteq Start!Users /\ Http \in Start!Users
  BY <1>1 DEF StartInv, StartTypes, BootInv
<1>3. /\ boot'[u] = "built" /\ \A v \in Start!Users \ {u} : boot'[v] = boot[v]
      /\ boot' \in [Start!Users -> {"off", "syncing", "loading", "indexing", "built", "running", "failed"}]
  BY <1>1 DEF StartInv, StartTypes
<1>4. /\ engines' \in Nat /\ engines' > engines
      /\ engineOf' \in [Start!Users -> 0..engines'] /\ sawEngine' \in [Start!Users -> 0..engines']
      /\ engineOf'[u] = engines + 1 /\ engineOf'[u] # 0
      /\ \A v \in Start!Users \ {u} : engineOf'[v] = engineOf[v]
      /\ \A v \in Start!Users : engineOf[v] # engines + 1
  <2>1. \A v \in Start!Users : engineOf[v] \in 0..engines /\ sawEngine[v] \in 0..engines
    BY DEF StartInv, StartTypes
  <2>2. engines \in Nat
    BY DEF StartInv, StartTypes
  <2>3. 0..engines \subseteq 0..(engines + 1) /\ engines + 1 \in 0..(engines + 1)
    BY <2>2
  <2>4. engineOf' \in [Start!Users -> 0..(engines + 1)]
    BY <1>1, <2>3 DEF StartInv, StartTypes
  <2>5. sawEngine' \in [Start!Users -> 0..(engines + 1)]
    BY <1>1, <2>3 DEF StartInv, StartTypes
  <2> QED BY <1>1, <2>1, <2>2, <2>4, <2>5 DEF StartInv, StartTypes
<1>5. StartTypes'
  BY <1>1, <1>3, <1>4 DEF StartInv, StartTypes
<1>6. PlaneInv'
  BY <1>1, BootStepKeepsPlane
<1>7. BootInv'
  <2>1. service \notin {"plane", "http", "up"}
    BY <1>1, <1>2 DEF StartInv, BootInv
  <2>2. boot'[Http] = boot[Http] /\ \A v \in Chan \ channels : boot'[v] = boot[v]
    BY <1>2, <1>3
  <2> QED BY <1>1, <2>1, <2>2 DEF StartInv, BootInv
<1>8. EngineOfInv'
  BY <1>1, <1>2, <1>3, <1>4 DEF StartInv, EngineOfInv
<1>9. EngineCount'
  <2> DEFINE E == {v \in channels : engineOf[v] # 0}
  <2>1. {v \in channels : engineOf'[v] # 0} = E \cup {u}
    BY <1>2, <1>4
  <2>2. u \notin E
    BY <1>1, <1>2 DEF StartInv, EngineOfInv
  <2>3. IsFiniteSet(E)
    <3>1. E \subseteq Chan
      BY DEF StartInv, StartTypes
    <3> QED BY <3>1, FS_Subset
  <2>4. Cardinality(E \cup {u}) = Cardinality(E) + 1
    BY <2>2, <2>3, FS_AddElement
  <2>5. engines = Cardinality(E)
    BY DEF StartInv, EngineCount
  <2> HIDE DEF E
  <2> QED BY <1>1, <2>1, <2>4, <2>5 DEF EngineCount
<1> QED BY <1>5, <1>6, <1>7, <1>8, <1>9 DEF StartInv

LEMMA StartChannelsKeeps == ASSUME StartInv, Start!StartChannels PROVE StartInv'
<1> USE StartFacts
<1>1. service = "plane" /\ engines = 0 /\ \A u \in Start!Users : boot[u] = "off"
  BY DEF Start!StartChannels, StartInv, BootInv
<1>2. /\ service' = "channels"
      /\ boot' = [u \in Start!Users |-> IF u \in channels THEN "syncing" ELSE boot[u]]
      /\ engineOf' = [u \in Start!Users |-> IF u \in channels THEN 0 ELSE engineOf[u]]
      /\ sawEngine' = [u \in Start!Users |-> IF u \in channels THEN 0 ELSE sawEngine[u]]
      /\ UNCHANGED <<engines, channels, plane, agents, planeCall, agentsAt>>
  BY <1>1 DEF Start!StartChannels, Start!Asks, Start!bootOnly
<1>3. channels \subseteq Start!Users /\ Http \in Start!Users \ channels
  BY DEF StartInv, StartTypes
<1>4. StartTypes'
  BY <1>1, <1>2 DEF StartInv, StartTypes
<1>5. PlaneInv'
  BY <1>2, BootStepKeepsPlane
<1>6. BootInv'
  BY <1>1, <1>2, <1>3 DEF StartInv, BootInv
<1>7. \A u \in channels : engineOf'[u] = 0 /\ boot'[u] = "syncing"
  BY <1>2, <1>3
<1>8. EngineOfInv'
  BY <1>2, <1>7 DEF EngineOfInv
<1>9. {u \in channels : engineOf'[u] # 0} = {}
  BY <1>7
<1>10. EngineCount'
  BY <1>1, <1>2, <1>9, FS_EmptySet DEF EngineCount
<1> QED BY <1>4, <1>5, <1>6, <1>8, <1>10 DEF StartInv

LEMMA StartHttpKeeps == ASSUME StartInv, Start!StartHttp PROVE StartInv'
<1> USE StartFacts
<1>1. service = "channels" /\ \A u \in channels : boot[u] = "running"
  BY DEF Start!StartHttp
<1>2. channels \subseteq Start!Users /\ Http \in Start!Users \ channels /\ WebChat \in channels
  BY DEF StartInv, StartTypes
<1>3. engines # 0 /\ engines \in Nat
  <2>1. engineOf[WebChat] # 0 /\ engineOf[WebChat] \in 0..engines
    BY <1>1, <1>2 DEF StartInv, EngineOfInv, StartTypes
  <2> QED BY <2>1 DEF StartInv, StartTypes
<1>4. /\ service' = "http"
      /\ boot' = [u \in Start!Users |-> IF u \in {Http} THEN "built" ELSE boot[u]]
      /\ engineOf' = [u \in Start!Users |-> IF u \in {Http} THEN engines ELSE engineOf[u]]
      /\ sawEngine' = [u \in Start!Users |-> IF u \in {Http} THEN engines ELSE sawEngine[u]]
      /\ UNCHANGED <<engines, channels, plane, agents, planeCall, agentsAt>>
  <2>1. service' = "http" /\ Start!Asks({Http})
    BY DEF Start!StartHttp
  <2>2. \A u : u \notin {Http} <=> ~(u \in {Http})
    OBVIOUS
  <2> QED BY <1>3, <2>1 DEF Start!Asks, Start!bootOnly
<1>5. StartTypes'
  BY <1>3, <1>4 DEF StartInv, StartTypes
<1>6. PlaneInv'
  BY <1>4, BootStepKeepsPlane
<1>7. \A u \in Chan : boot'[u] = boot[u] /\ engineOf'[u] = engineOf[u]
  BY <1>4
<1>8. boot'[Http] = "built" /\ engineOf'[Http] = engines
  BY <1>2, <1>4
<1>9. channels \subseteq Chan
  BY DEF StartInv, StartTypes
<1>10. BootInv'
  BY <1>1, <1>4, <1>7, <1>8, <1>9 DEF StartInv, BootInv
<1>11. EngineOfInv'
  BY <1>4, <1>7, <1>9 DEF StartInv, EngineOfInv
<1>12. {u \in channels : engineOf'[u] # 0} = {u \in channels : engineOf[u] # 0}
  BY <1>7, <1>9
<1>13. EngineCount'
  BY <1>4, <1>12 DEF StartInv, EngineCount
<1> QED BY <1>5, <1>6, <1>10, <1>11, <1>13 DEF StartInv

LEMMA StartKeeps == StartInv /\ [Start!StartNext]_(Start!startVars) => StartInv'
<1> SUFFICES ASSUME StartInv, [Start!StartNext]_(Start!startVars) PROVE StartInv'
  OBVIOUS
<1> USE StartFacts
<1>0. /\ \A u \in channels : u \in Start!Users /\ u # Http /\ u \in Chan
      /\ Http \in Start!Users /\ \A u \in Start!Users : boot[u] # "off" => u \in channels \/ u = Http
      /\ service \in {"plane", "channels", "http", "up", "failed", "ended"}
      /\ \A u \in channels : service \in {"http", "up"} => boot[u] = "running"
      /\ boot[Http] \in {"off", "built", "running"}
  BY DEF StartInv, StartTypes, BootInv
<1>1. CASE UNCHANGED Start!startVars
  <2>1. UNCHANGED <<channels, plane, agents, planeCall, agentsAt, service, boot, engines, engineOf,
               sawEngine>>
    BY <1>1 DEF Start!startVars
  <2>2. StartTypes' /\ PlaneInv'
    BY <2>1 DEF StartInv, StartTypes, PlaneInv
  <2> QED BY <2>1, <2>2, PlaneStep
<1>2. ASSUME NEW u \in Start!Users, Start!BootStep(u) PROVE StartInv'
  <2>1. /\ boot[u] \in {"syncing", "loading"}
        /\ boot' = [boot EXCEPT ![u] = IF boot[u] = "syncing" THEN "loading" ELSE "indexing"]
        /\ UNCHANGED <<service, engines, engineOf, sawEngine, channels, plane, agents, planeCall, agentsAt>>
    BY <1>2 DEF Start!BootStep, Start!bootOnly
  <2>2. u # Http /\ service \notin {"http", "up"}
    BY <1>0, <2>1
  <2> DEFINE to == IF boot[u] = "syncing" THEN "loading" ELSE "indexing"
  <2>3. to \in {"loading", "indexing"} /\ boot' = [boot EXCEPT ![u] = to]
    BY <2>1
  <2> HIDE DEF to
  <2> QED BY <1>0, <2>1, <2>2, <2>3, OneBoots
<1>3. ASSUME NEW u \in Start!Users, Start!StartFails(u) PROVE StartInv'
  <2>1. /\ u \in channels /\ boot[u] \in {"loading", "indexing", "built"}
        /\ boot' = [boot EXCEPT ![u] = "failed"] /\ service' = "failed"
        /\ UNCHANGED <<engines, engineOf, sawEngine, channels, plane, agents, planeCall, agentsAt>>
    BY <1>3 DEF Start!StartFails, Start!bootOnly
  <2> QED BY <1>0, <2>1, OneBoots
<1>4. ASSUME NEW u \in Start!Users, Start!ProcessEnds(u) PROVE StartInv'
  <2>1. /\ service' = "ended"
        /\ UNCHANGED <<boot, engines, engineOf, sawEngine, channels, plane, agents, planeCall, agentsAt>>
    BY <1>4 DEF Start!ProcessEnds, Start!bootOnly
  <2>2. StartTypes' /\ PlaneInv'
    BY <2>1 DEF StartInv, StartTypes, PlaneInv
  <2>3. BootInv' /\ EngineOfInv' /\ EngineCount'
    BY <2>1 DEF StartInv, BootInv, EngineOfInv, EngineCount
  <2> QED BY <2>2, <2>3 DEF StartInv
<1>5. ASSUME NEW u \in Start!Users, Start!ChannelRuns(u) PROVE StartInv'
  <2>1. /\ u \in Chan /\ boot[u] = "built" /\ boot' = [boot EXCEPT ![u] = "running"]
        /\ UNCHANGED <<service, engines, engineOf, sawEngine, channels, plane, agents, planeCall, agentsAt>>
    BY <1>5 DEF Start!ChannelRuns, Start!bootOnly
  <2> QED BY <1>0, <2>1, OneBoots
<1>6. CASE Start!HttpListens
  <2>1. /\ service = "http" /\ boot[Http] = "built" /\ service' = "up"
        /\ boot' = [boot EXCEPT ![Http] = "running"]
        /\ UNCHANGED <<engines, engineOf, sawEngine, channels, plane, agents, planeCall, agentsAt>>
    BY <1>6 DEF Start!HttpListens, Start!bootOnly
  <2> QED BY <1>0, <2>1, OneBoots
<1> QED BY <1>1, <1>2, <1>3, <1>4, <1>5, <1>6, PlaneKeeps, PublishKeeps, StartChannelsKeeps,
           StartHttpKeeps DEF Start!StartNext

LEMMA StartFollows == StartInv => Start!StartWhole /\ Start!StartTypeOK
<1> SUFFICES ASSUME StartInv PROVE Start!StartWhole /\ Start!StartTypeOK
  OBVIOUS
<1> USE StartFacts
<1>1. ASSUME NEW c \in Caller, planeCall[c] = "answered", agentsAt[c] < AgentCount
      PROVE  \E d \in Caller \ {c} : \/ planeCall[d] \in {"starting", "failed"}
                                     \/ planeCall[d] = "answered" /\ agentsAt[d] = AgentCount
  <2>1. plane \in {"starting", "failed", "started"}
    BY <1>1 DEF StartInv, PlaneInv, StartTypes
  <2>2. agentsAt[c] # AgentCount
    BY <1>1 DEF StartInv, StartTypes
  <2> QED BY <1>1, <2>1, <2>2 DEF StartInv, PlaneInv
<1>2. service = "up" =>
       /\ \A u \in channels : boot[u] = "running" /\ engineOf[u] # 0
       /\ \A u, v \in channels : engineOf[u] = engineOf[v] => u = v
       /\ engineOf[Http] = engines
  BY DEF StartInv, BootInv, EngineOfInv
<1>3. Start!StartWhole
  BY <1>1, <1>2 DEF Start!StartWhole, StartInv, PlaneInv
<1>4. engines \in 0..Cardinality(Start!Users)
  <2> DEFINE E == {u \in channels : engineOf[u] # 0}
  <2>1. E \subseteq Start!Users
    BY DEF StartInv, StartTypes
  <2>2. IsFiniteSet(Start!Users)
    BY FS_AddElement
  <2>3. Cardinality(E) <= Cardinality(Start!Users) /\ Cardinality(Start!Users) \in Nat
    BY <2>1, <2>2, FS_Subset, FS_CardinalityType
  <2>4. engines = Cardinality(E) /\ engines \in Nat
    BY DEF StartInv, EngineCount, StartTypes
  <2> HIDE DEF E
  <2> QED BY <2>3, <2>4
<1>5. Start!StartTypeOK
  <2>1. engines \in 0..Start!Cardinality(Start!Users)
    BY <1>4
  <2> QED BY <2>1 DEF Start!StartTypeOK, StartInv, StartTypes
<1> QED BY <1>3, <1>5

(***************************************************************************)
(* The parts together.                                                     *)
(***************************************************************************)
EgressInv == SlotInv /\ GrantInv
KeysInv == QuotaInv /\ RateInv /\ RevokedInv /\ StampInv

\* What holds of the part that moves, if it is one of these.
HostInvs ==
  /\ part = "egress" => EgressInv
  /\ part = "launch" => LaunchInv
  /\ part = "engine" => EngineInv
  /\ part = "guest" => GuestInv /\ StrikesInv
  /\ part = "topology" => TopologyInv
  /\ part = "probe" => ProbeInv
  /\ part = "keys" => KeysInv
  /\ part = "sessions" => SessionsInv
  /\ part = "pairing" => PairingInv
  /\ part = "start" => StartInv

LEMMA HostStarts == Init => HostInvs
<1> SUFFICES ASSUME Init PROVE HostInvs
  OBVIOUS
<1>1. EgressInv
  BY InitSlots, InitGrants DEF Init, EgressInv
<1>2. KeysInv
  BY KeysQuotaInit, KeysRateInit, KeysRevokedInit, KeysStampInit DEF Init, KeysInv
<1>3. LaunchInv /\ EngineInv /\ TopologyInv /\ ProbeInv
  BY LaunchStarts, EngineStarts, TopologyStarts, ProbeStarts DEF Init
<1>4. GuestInv /\ StrikesInv
  BY GuestStarts, StrikesStart DEF Init
<1>5. SessionsInv /\ PairingInv /\ StartInv
  BY SessionsStarts, PairingStarts, StartStarts DEF Init
<1> QED BY <1>1, <1>2, <1>3, <1>4, <1>5 DEF HostInvs

\* Each part keeps its own invariant, whether it steps or stands still.
LEMMA HostParts ==
  /\ EgressInv /\ [Egress!ProxyNext]_(Egress!proxyVars) => EgressInv'
  /\ GuestInv /\ StrikesInv /\ [Guest!GuestNext]_(Guest!vmVars) => GuestInv' /\ StrikesInv'
  /\ KeysInv /\ [Keys!KeysNext]_(Keys!keyVars) => KeysInv'
<1>1. EgressInv /\ [Egress!ProxyNext]_(Egress!proxyVars) => EgressInv'
  BY StepSlots, StepGrants DEF EgressInv
<1>2. GuestInv /\ StrikesInv /\ [Guest!GuestNext]_(Guest!vmVars) => GuestInv' /\ StrikesInv'
  BY GuestKeeps, StrikesKeep
<1>3. KeysInv /\ [Keys!KeysNext]_(Keys!keyVars) => KeysInv'
  BY KeysQuotaStep, KeysRateStep, KeysRevokedStep, KeysStampStep DEF KeysInv
<1> QED BY <1>1, <1>2, <1>3

LEMMA HostStill == HostInvs /\ UNCHANGED vars => HostInvs'
<1> SUFFICES ASSUME HostInvs, UNCHANGED vars PROVE HostInvs'
  OBVIOUS
<1>1. UNCHANGED <<part, proxyVars, launchVars, engineVars, vmVars, topologyVars, probeVars,
                  keyVars, sessionVars, pairingVars, startVars>>
  BY DEF vars
<1>2. part = "egress" => EgressInv'
  BY <1>1, HostParts DEF HostInvs, proxyVars, Egress!proxyVars
<1>3. part = "launch" => LaunchInv'
  BY <1>1, LaunchKeeps DEF HostInvs, launchVars, Launch!launchVars
<1>4. part = "engine" => EngineInv'
  BY <1>1, EngineKeeps DEF HostInvs, engineVars, Engine!engineVars
<1>5. part = "guest" => GuestInv' /\ StrikesInv'
  BY <1>1, HostParts DEF HostInvs, vmVars, Guest!vmVars
<1>6. part = "topology" => TopologyInv'
  BY <1>1, TopologyKeeps DEF HostInvs, topologyVars, Topology!topologyVars
<1>7. part = "probe" => ProbeInv'
  BY <1>1, ProbeKeeps DEF HostInvs, probeVars, Probe!probeVars
<1>8. part = "keys" => KeysInv'
  BY <1>1, HostParts DEF HostInvs, keyVars, Keys!keyVars
<1>9. part = "sessions" => SessionsInv'
  BY <1>1, SessionsKeeps DEF HostInvs, sessionVars, Sessions!sessionVars
<1>10. part = "pairing" => PairingInv'
  BY <1>1, PairingKeeps DEF HostInvs, pairingVars, Pairing!pairingVars
<1>11. part = "start" => StartInv'
  BY <1>1, StartKeeps DEF HostInvs, startVars, Start!startVars
<1>12. part' = part
  BY <1>1
<1> QED BY <1>2, <1>3, <1>4, <1>5, <1>6, <1>7, <1>8, <1>9, <1>10, <1>11, <1>12 DEF HostInvs

\* The part that moves stays the one that moves.
LEMMA PartStays == ASSUME NEW p, Moves(p) PROVE part = p /\ part' = p
BY DEF Moves

LEMMA HostKeep == HostInvs /\ [Next]_vars => HostInvs'
<1> SUFFICES ASSUME HostInvs, [Next]_vars PROVE HostInvs'
  OBVIOUS
<1>1. CASE EgressStep
  <2>1. part = "egress" /\ part' = "egress" /\ EgressInv'
    BY <1>1, PartStays, HostParts DEF EgressStep, HostInvs
  <2> QED BY <2>1 DEF HostInvs
<1>2. CASE LaunchStep
  <2>1. part = "launch" /\ part' = "launch" /\ LaunchInv'
    BY <1>2, PartStays, LaunchKeeps DEF LaunchStep, HostInvs
  <2> QED BY <2>1 DEF HostInvs
<1>3. CASE EngineStep
  <2>1. part = "engine" /\ part' = "engine" /\ EngineInv'
    BY <1>3, PartStays, EngineKeeps DEF EngineStep, HostInvs
  <2> QED BY <2>1 DEF HostInvs
<1>4. CASE GuestStep
  <2>1. part = "guest" /\ part' = "guest" /\ GuestInv' /\ StrikesInv'
    BY <1>4, PartStays, HostParts DEF GuestStep, HostInvs
  <2> QED BY <2>1 DEF HostInvs
<1>5. CASE TopologyStep
  <2>1. part = "topology" /\ part' = "topology" /\ TopologyInv'
    BY <1>5, PartStays, TopologyKeeps DEF TopologyStep, HostInvs
  <2> QED BY <2>1 DEF HostInvs
<1>6. CASE ProbeStep
  <2>1. part = "probe" /\ part' = "probe" /\ ProbeInv'
    BY <1>6, PartStays, ProbeKeeps DEF ProbeStep, HostInvs
  <2> QED BY <2>1 DEF HostInvs
<1>7. CASE KeysStep
  <2>1. part = "keys" /\ part' = "keys" /\ KeysInv'
    BY <1>7, PartStays, HostParts DEF KeysStep, HostInvs
  <2> QED BY <2>1 DEF HostInvs
<1>8. CASE SessionsStep
  <2>1. part = "sessions" /\ part' = "sessions" /\ SessionsInv'
    BY <1>8, PartStays, SessionsKeeps DEF SessionsStep, HostInvs
  <2> QED BY <2>1 DEF HostInvs
<1>9. CASE PairingStep
  <2>1. part = "pairing" /\ part' = "pairing" /\ PairingInv'
    BY <1>9, PartStays, PairingKeeps DEF PairingStep, HostInvs
  <2> QED BY <2>1 DEF HostInvs
<1>10. CASE StartStep
  <2>1. part = "start" /\ part' = "start" /\ StartInv'
    BY <1>10, PartStays, StartKeeps DEF StartStep, HostInvs
  <2> QED BY <2>1 DEF HostInvs
<1>11. CASE ExecStep \/ PlannerStep \/ ChainStep \/ RoutesStep
  <2>1. part' \in {"execution", "plan", "chain", "routing"}
    BY <1>11, PartStays DEF ExecStep, PlannerStep, ChainStep, RoutesStep
  <2> QED BY <2>1 DEF HostInvs
<1>12. CASE CacheStep \/ RatingsStep \/ EvolutionStep \/ InstallStep
  <2>1. part' \in {"cache", "ratings", "evolution", "install"}
    BY <1>12, PartStays DEF CacheStep, RatingsStep, EvolutionStep, InstallStep
  <2> QED BY <2>1 DEF HostInvs
<1>13. CASE UNCHANGED vars
  BY <1>13, HostStill
<1> QED BY <1>1, <1>2, <1>3, <1>4, <1>5, <1>6, <1>7, <1>8, <1>9, <1>10, <1>11, <1>12,
    <1>13 DEF Next
=============================================================================
