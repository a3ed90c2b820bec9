-------------------------- MODULE BackendSelection --------------------------
(***************************************************************************)
(* How a session of the runner gets its backend: selectBackend() probes    *)
(* the candidates one after another and takes the strongest, the runtime   *)
(* profile of the skill is checked against it, and the backend prepares.   *)
(*                                                                         *)
(* Sessions of different skills run concurrently on the same backend       *)
(* objects.  The level of the os backend is what its last probe found,     *)
(* whoever asked for it, so it may change between any two awaits of a      *)
(* session; and the topology one session created is cached for the others. *)
(***************************************************************************)
EXTENDS Naturals, Sequences

CONSTANTS
  Session,    \* sessions of one runner
  Available,  \* the backends of the runner, by kind, in the factory's order
  Profiles    \* the trusted profiles of the configuration, by their identity blocks

Block == {"dockerImage", "osRuntime", "darwinRuntime", "vmRuntime"}

ASSUME AvailableAssumption == Available \in Seq({"docker", "os", "vm"})
ASSUME ProfilesAssumption == Profiles \subseteq SUBSET Block

VARIABLES
  wanted,      \* config: defaultBackend; "none" stands for a kind without backend
  floor,       \* config: minIsolationLevel
  profile,     \* the trusted profile that covers the skill of each session
  capable,     \* os: the last probe found every capability of full isolation
  carrier,     \* os: a topology is cached
  cleaned,     \* os: cleanup() has been called; a later call does nothing
  pc,          \* where each session is
  pending,     \* backends selectBackend() has yet to probe, by their place in Available
  candidates,  \* backends it admitted so far, by their place too
  chosen       \* <<>>, or the backend it returned

config == <<wanted, floor, profile>>
os     == <<capable, carrier, cleaned>>
search == <<pending, candidates, chosen>>
vars   == <<config, os, pc, search>>

Kind  == {"docker", "os", "vm"}
Stage == {"select", "check", "topology", "launch", "prepare", "building", "ready",
          "abort", "refused", "over"}

TypeOK ==
  /\ wanted     \in Kind \cup {"auto", "none"}
  /\ floor      \in {"none", "remote-unverified", "restricted", "full"}
  /\ profile    \in [Session -> Profiles]
  /\ capable    \in BOOLEAN
  /\ carrier    \in BOOLEAN
  /\ cleaned    \in BOOLEAN
  /\ pc         \in [Session -> Stage]
  /\ pending    \in [Session -> SUBSET DOMAIN Available]
  /\ candidates \in [Session -> SUBSET DOMAIN Available]
  /\ chosen     \in [Session -> {<<>>} \cup {<<k>> : k \in Kind}]

----------------------------------------------------------------------------
(***************************************************************************)
(* The decisions.                                                          *)
(***************************************************************************)
Rank ==
  [level \in {"none", "remote-unverified", "restricted", "full"} |->
     CASE level = "none" -> 0
       [] level = "remote-unverified" -> 1
       [] level = "restricted" -> 2
       [] level = "full" -> 3]

\* The isolation level of a backend when the last os probe found c.
Level(k, c) == IF k = "os" /\ ~c THEN "restricted" ELSE "full"

\* The backends the configuration allows at all.
Allowed == {i \in DOMAIN Available : wanted \in {"auto", Available[i]}}

ExplicitRestrictedOs == wanted = "os" /\ floor = "restricted"

\* A candidate: its probe passed, and its level then is high enough.
Admitted(k, ok, c) ==
  /\ ok
  /\ Rank[Level(k, c)] >= Rank[floor]
  /\ Level(k, c) = "restricted" => ExplicitRestrictedOs

\* Slips: all candidates are returned; the first is taken without the sort.
AllOf(cands, c)   == [i \in cands |-> Available[i]]
FirstOf(cands, c) ==
  IF cands = {} THEN <<>>
  ELSE <<Available[CHOOSE i \in cands : \A j \in cands : i <= j]>>

\* The sort is by level and stable: what comes before the others.
Power(i, c) == Rank[Level(Available[i], c)]
Precedes(i, j, c) == Power(i, c) > Power(j, c) \/ (Power(i, c) = Power(j, c) /\ i <= j)

\* The first of the strongest candidates, if any.
StrongestOf(cands, c) ==
  IF cands = {} THEN <<>>
  ELSE <<Available[CHOOSE i \in cands : \A j \in cands : Precedes(i, j, c)]>>

\* resolveRuntimeProfile() copies the blocks it knows of.
Resolved(s) == profile[s] \ {"vmRuntime"}

OsBlock == IF capable THEN "osRuntime" ELSE "darwinRuntime"

\* Slip: the check knows os only.
MatchesOs(s, k) == k = "os" => OsBlock \in Resolved(s)

\* assertRuntimeProfileMatchesBackend(): a block per kind; none for vm.
Matches(s, k) ==
  /\ k = "docker" => "dockerImage" \in Resolved(s)
  /\ k = "os"     => OsBlock \in Resolved(s)

\* prepareTopology() of os hands out the topology it has, or looks at the probe.
Cached(k) == k = "os" /\ carrier
TopologyAllowed(k) == k = "os" => carrier \/ capable

\* The block each backend demands of the profile.
Fits(s, k) ==
  /\ k = "docker" => "dockerImage" \in Resolved(s)
  /\ k = "os"     => "osRuntime" \in Resolved(s)
  /\ k = "vm"     => "vmRuntime" \in Resolved(s)

\* Slip: prepare() of os trusts that the probe has been looked at before.
ReadyUnchecked(s, k) == Fits(s, k) /\ (k = "os" => carrier)

\* What prepare() demands of the profile and, for os, of the probe before its first
\* await.
ReadyFor(s, k) == Fits(s, k) /\ (k = "os" => carrier /\ capable)

----------------------------------------------------------------------------
Init ==
  /\ wanted \in Kind \cup {"auto", "none"} /\ profile \in [Session -> Profiles]
  /\ floor \in {"none", "remote-unverified", "restricted", "full"}
  /\ capable = FALSE /\ carrier = FALSE /\ cleaned = FALSE
  /\ pc         = [s \in Session |-> "select"]
  /\ pending    = [s \in Session |-> Allowed]
  /\ candidates = [s \in Session |-> {}]
  /\ chosen     = [s \in Session |-> <<>>]

Goto(s, stage) == pc' = [pc EXCEPT ![s] = stage]

\* The end of the loop and of selectBackend(), with no await after the last
\* probe: the strongest candidate, or a refusal.
Choose(s, cands) ==
  /\ chosen' = [chosen EXCEPT ![s] = StrongestOf(cands, capable')]
  /\ Goto(s, IF cands = {} THEN "refused" ELSE "check")

NothingToProbe(s) ==
  /\ pc[s] = "select" /\ pending[s] = {}
  /\ UNCHANGED <<config, os, pending, candidates>>
  /\ Choose(s, {})

\* One probe ends.  It is true of os only with full capabilities; a probe
\* that throws excludes the backend and may leave the level as it was.
Probe(s) ==
  /\ pc[s] = "select"
  /\ \E i \in pending[s], ok \in BOOLEAN, c \in BOOLEAN :
       /\ \A j \in pending[s] : i <= j
       /\ IF Available[i] = "os" THEN (ok => c) /\ (~ok => ~c \/ c = capable) ELSE c = capable
       /\ capable'    = c
       /\ candidates' = IF Admitted(Available[i], ok, c)
                        THEN [candidates EXCEPT ![s] = @ \cup {i}] ELSE candidates
       /\ pending'    = [pending EXCEPT ![s] = @ \ {i}]
  /\ IF pending'[s] = {} THEN Choose(s, candidates'[s]) ELSE UNCHANGED <<pc, chosen>>
  /\ UNCHANGED <<config, carrier, cleaned>>

\* The profile check and the first statements of prepareTopology().
Check(s) ==
  /\ pc[s] = "check"
  /\ LET k == chosen[s][1] IN
     Goto(s, IF ~Matches(s, k) \/ ~TopologyAllowed(k) THEN "abort"
             ELSE IF Cached(k) THEN "launch" ELSE "topology")
  /\ UNCHANGED <<config, os, search>>

\* A topology is created; os keeps it for the sessions to come.
Topology(s) ==
  /\ pc[s] = "topology"
  /\ \/ Goto(s, "launch") /\ carrier' = (carrier \/ chosen[s] = <<"os">>)
     \/ Goto(s, "abort")  /\ UNCHANGED carrier
  /\ UNCHANGED <<config, capable, cleaned, search>>

\* The secrets, the session's directory, the proxy and the verification.
Launch(s) ==
  /\ pc[s] = "launch"
  /\ Goto(s, "prepare") \/ Goto(s, "abort")
  /\ UNCHANGED <<config, os, search>>

\* prepare() up to its first await: what it demands.
Prepare(s) ==
  /\ pc[s] = "prepare"
  /\ Goto(s, IF ReadyFor(s, chosen[s][1]) THEN "building" ELSE "abort")
  /\ UNCHANGED <<config, os, search>>

\* The rest of prepare(): for os the firewall rule, the root, the cgroup.  It does not
\* look at the probe again; when it fails, os forgets its topology.
Build(s) ==
  /\ pc[s] = "building"
  /\ \/ Goto(s, "ready") /\ UNCHANGED carrier
     \/ Goto(s, "abort") /\ carrier' \in {carrier, carrier /\ chosen[s] # <<"os">>}
  /\ UNCHANGED <<config, capable, cleaned, search>>

\* The session ends with cleanup(): only the first call on os forgets its
\* topology.
End(s) ==
  /\ pc[s] \in {"abort", "ready"}
  /\ Goto(s, IF pc[s] = "abort" THEN "refused" ELSE "over")
  /\ IF chosen[s] = <<"os">>
     THEN cleaned' = TRUE /\ carrier' = (carrier /\ cleaned)
     ELSE UNCHANGED <<cleaned, carrier>>
  /\ UNCHANGED <<config, capable, search>>

Next == \E s \in Session :
          \/ NothingToProbe(s) \/ Probe(s) \/ Check(s) \/ Topology(s) \/ Launch(s)
          \/ Prepare(s) \/ Build(s) \/ End(s)

Spec == Init /\ [][Next]_vars

----------------------------------------------------------------------------
(***************************************************************************)
(* Correctness.                                                            *)
(***************************************************************************)

\* Fail closed: whatever other sessions' probes have found since its selection, a
\* session gets no rule, root or cgroup, and so is never ready, but on a backend of the
\* wanted kind whose level, when prepare() begins, is no weaker than the floor.  (Once
\* prepare() has begun, a level that falls is not noticed any more.)
ReadyIsStrong ==
  [][\A s \in Session :
       /\ pc'[s] = "building" /\ pc[s] # "building" =>
            /\ wanted \in {"auto", chosen[s][1]}
            /\ Rank[Level(chosen[s][1], capable)] >= Rank[floor]
       /\ pc'[s] = "ready" /\ pc[s] # "ready" => pc[s] = "building"]_vars

\* No silent degradation.  A candidate is admitted on the level its own probe found and
\* returned on the level of the last await, when another session's probe may have
\* lowered it.  A backend that would not be admitted any more is returned only if none
\* of the other candidates would.
FittestChosen ==
  [][\A s \in Session : chosen'[s] # chosen[s] =>
       \E i \in candidates'[s] :
         /\ chosen'[s] = <<Available[i]>>
         /\ \/ Admitted(Available[i], TRUE, capable')
            \/ \A j \in candidates'[s] : ~Admitted(Available[j], TRUE, capable')]_vars

\* The fail-fast check, whatever the probes and topologies of other sessions did in
\* between: a docker topology is only for a profile with an image, an os topology is
\* only created for one with a Linux runtime.  Who finds an os topology of another
\* session may have passed the check on a lowered probe with a darwin runtime only, and
\* gets a proxy; but nobody gets past the beginning of prepare() without the block his
\* backend needs.
MismatchBeforeTopology ==
  /\ carrier => \E s \in Session : "osRuntime" \in profile[s]
  /\ \A s \in Session :
       /\ chosen[s] = <<"docker">> /\ pc[s] \in {"topology", "launch", "prepare"} =>
            "dockerImage" \in profile[s]
       /\ chosen[s] = <<"os">> /\ pc[s] = "topology" => "osRuntime" \in profile[s]
       /\ pc[s] \in {"building", "ready"} => Fits(s, chosen[s][1])

\* "A mismatched config never creates topology or starts a proxy"
\* (sandbox.md).  For vm it always does: its block is lost on the way.
VmPrepares ==
  \A s \in Session : pc[s] = "prepare" /\ chosen[s] = <<"vm">> => ReadyFor(s, "vm")
=============================================================================
