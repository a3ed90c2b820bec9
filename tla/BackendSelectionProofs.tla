------------------------ MODULE BackendSelectionProofs ------------------------
EXTENDS BackendSelection, WellFoundedInduction, TLAPS

\* A session past its selection has a backend, of the wanted kind; the profile has the
\* block for the topology it is about to create, and from prepare() on the one its
\* backend needs.
Inductive ==
  /\ TypeOK
  /\ carrier => \E s \in Session : "osRuntime" \in profile[s]
  /\ \A s \in Session :
       /\ pending[s] \cup candidates[s] \subseteq Allowed
       /\ pc[s] = "select" => chosen[s] = <<>>
       /\ pc[s] \in {"check", "topology", "launch", "prepare", "building", "ready"} =>
            chosen[s] # <<>>
       /\ \A k \in Kind : chosen[s] = <<k>> => wanted \in {"auto", k}
       /\ chosen[s] = <<"docker">> /\ pc[s] \in {"topology", "launch", "prepare"} =>
            "dockerImage" \in profile[s]
       /\ chosen[s] = <<"os">> /\ pc[s] = "topology" => "osRuntime" \in profile[s]
       /\ pc[s] \in {"building", "ready"} => Fits(s, chosen[s][1])

LEMMA RankKnown ==
  /\ Rank["none"] = 0 /\ Rank["remote-unverified"] = 1
  /\ Rank["restricted"] = 2 /\ Rank["full"] = 3
BY DEF Rank

LEMMA Kinds == \A i \in DOMAIN Available : Available[i] \in Kind
BY AvailableAssumption DEF Kind

LEMMA PowerKnown == ASSUME NEW i \in DOMAIN Available, NEW c PROVE Power(i, c) \in {2, 3}
BY RankKnown DEF Power, Level

\* A set of places that is not empty has a first one.
LEMMA FirstOfPlaces ==
  ASSUME NEW P \in SUBSET DOMAIN Available, P # {}
  PROVE  \E i \in P : \A j \in P : i <= j
<1>1. P \subseteq Nat
  BY AvailableAssumption
<1>2. PICK i \in P : \A j \in P : ~(<<j, i>> \in OpToRel(<, Nat))
  BY <1>1, WFMin, NatLessThanWellFounded
<1>3. \A j \in P : ~(j < i)
  BY <1>1, <1>2 DEF OpToRel
<1> QED BY <1>1, <1>3

\* The strongest candidate exists and is one of them.
LEMMA StrongestIs ==
  ASSUME NEW cands \in SUBSET DOMAIN Available, cands # {}, NEW c
  PROVE  \E i \in cands : /\ StrongestOf(cands, c) = <<Available[i]>>
                          /\ \A j \in cands : Precedes(i, j, c)
<1> DEFINE top == {i \in cands : Power(i, c) = 3}
<1>1. \E i \in cands : \A j \in cands : Precedes(i, j, c)
  <2>1. CASE top # {}
    <3>1. PICK i \in top : \A j \in top : i <= j
      BY <2>1, FirstOfPlaces
    <3> QED BY <3>1, PowerKnown DEF Precedes
  <2>2. CASE top = {}
    <3>1. PICK i \in cands : \A j \in cands : i <= j
      BY FirstOfPlaces
    <3> QED BY <2>2, <3>1, PowerKnown DEF Precedes
  <2> QED BY <2>1, <2>2
<1> QED BY <1>1 DEF StrongestOf

LEMMA ChooseKeeps ==
  ASSUME Inductive, NEW s \in Session, NEW cands \in SUBSET Allowed, Choose(s, cands),
         UNCHANGED config
  PROVE  /\ chosen' \in [Session -> {<<>>} \cup {<<k>> : k \in Kind}]
         /\ pc' \in [Session -> Stage]
         /\ pc'[s] \in {"refused", "check"}
         /\ pc'[s] = "check" => chosen'[s] # <<>>
         /\ \A k \in Kind : chosen'[s] = <<k>> => wanted' \in {"auto", k}
         /\ \A t \in Session \ {s} : pc'[t] = pc[t] /\ chosen'[t] = chosen[t]
<1> DEFINE pick == StrongestOf(cands, capable')
<1>1. cands \in SUBSET DOMAIN Available
  BY DEF Allowed
<1>2. CASE cands = {}
  <2>1. pick = <<>>
    BY <1>2 DEF StrongestOf
  <2>2. chosen' = [chosen EXCEPT ![s] = <<>>] /\ pc' = [pc EXCEPT ![s] = "refused"]
    BY <1>2, <2>1 DEF Choose, Goto
  <2>3. \A k \in Kind : <<>> # <<k>>
    OBVIOUS
  <2> QED BY <2>2, <2>3 DEF Inductive, TypeOK, Stage
<1>3. CASE cands # {}
  <2>1. PICK i \in cands : pick = <<Available[i]>>
    BY <1>1, <1>3, StrongestIs
  <2>2. Available[i] \in Kind /\ wanted \in {"auto", Available[i]}
    BY <1>1, <2>1, Kinds DEF Allowed
  <2>3. wanted' = wanted
    BY DEF config
  <2> HIDE DEF pick
  <2>4. chosen' = [chosen EXCEPT ![s] = pick] /\ pc' = [pc EXCEPT ![s] = "check"]
    BY <1>3 DEF Choose, Goto, pick
  <2> QED BY <2>1, <2>2, <2>3, <2>4 DEF Inductive, TypeOK, Stage
<1> QED BY <1>2, <1>3

LEMMA NothingInductive ==
  ASSUME Inductive, NEW s \in Session, NothingToProbe(s)
  PROVE  Inductive'
BY ChooseKeeps DEF NothingToProbe, Inductive, TypeOK, config, os, Allowed, Fits, Resolved

LEMMA ProbeInductive ==
  ASSUME Inductive, NEW s \in Session, Probe(s)
  PROVE  Inductive'
<1>1. PICK i \in pending[s], ok \in BOOLEAN, c \in BOOLEAN :
        /\ capable' = c
        /\ candidates' = IF Admitted(Available[i], ok, c)
                         THEN [candidates EXCEPT ![s] = @ \cup {i}] ELSE candidates
        /\ pending' = [pending EXCEPT ![s] = @ \ {i}]
  BY DEF Probe
<1>2. UNCHANGED <<config, carrier, cleaned>> /\ UNCHANGED <<wanted, floor, profile>>
  BY DEF Probe, config
<1>3. Allowed' = Allowed /\ Allowed \subseteq DOMAIN Available
  BY <1>2 DEF Allowed
<1>4. \A t \in Session : pending'[t] \cup candidates'[t] \subseteq Allowed'
  BY <1>1, <1>3 DEF Inductive, TypeOK
<1>5. /\ candidates' \in [Session -> SUBSET DOMAIN Available]
      /\ pending' \in [Session -> SUBSET DOMAIN Available]
      /\ capable' \in BOOLEAN
  BY <1>1, <1>3, <1>4 DEF Inductive, TypeOK
<1>6. candidates'[s] \in SUBSET Allowed
  BY <1>3, <1>4
<1>7. CASE pending'[s] = {}
  <2>1. Choose(s, candidates'[s])
    BY <1>7 DEF Probe
  <2> QED BY <1>2, <1>4, <1>5, <1>6, <2>1, ChooseKeeps DEF Inductive, TypeOK, Fits, Resolved
<1>8. CASE pending'[s] # {}
  <2>1. UNCHANGED <<pc, chosen>>
    BY <1>8 DEF Probe
  <2> QED BY <1>2, <1>4, <1>5, <2>1 DEF Inductive, TypeOK, Fits, Resolved
<1> QED BY <1>7, <1>8

\* A step that moves one session, past its selection, on.
LEMMA MovesOn ==
  ASSUME Inductive, NEW s \in Session, NEW to \in Stage \ {"select"},
         pc' = [pc EXCEPT ![s] = to], carrier' \in BOOLEAN, cleaned' \in BOOLEAN,
         UNCHANGED <<wanted, floor, profile, capable, pending, candidates, chosen>>,
         carrier' => \E t \in Session : "osRuntime" \in profile[t],
         to \in {"check", "topology", "launch", "prepare", "building", "ready"} =>
           chosen[s] # <<>>,
         chosen[s] = <<"docker">> /\ to \in {"topology", "launch", "prepare"} =>
           "dockerImage" \in profile[s],
         chosen[s] = <<"os">> /\ to = "topology" => "osRuntime" \in profile[s],
         to \in {"building", "ready"} => Fits(s, chosen[s][1])
  PROVE  Inductive'
<1>1. Allowed' = Allowed
  BY DEF Allowed
<1>2. /\ pc' \in [Session -> Stage] /\ pc'[s] = to
      /\ \A t \in Session \ {s} : pc'[t] = pc[t]
  BY DEF Inductive, TypeOK
<1>3. TypeOK'
  BY <1>2 DEF Inductive, TypeOK
<1>4. \A t \in Session : Fits(t, chosen[t][1])' <=> Fits(t, chosen[t][1])
  BY DEF Fits, Resolved
<1>5. ASSUME NEW t \in Session
      PROVE  /\ pending'[t] \cup candidates'[t] \subseteq Allowed'
             /\ pc'[t] = "select" => chosen'[t] = <<>>
             /\ pc'[t] \in {"check", "topology", "launch", "prepare", "building", "ready"} =>
                  chosen'[t] # <<>>
             /\ \A k \in Kind : chosen'[t] = <<k>> => wanted' \in {"auto", k}
             /\ chosen'[t] = <<"docker">> /\ pc'[t] \in {"topology", "launch", "prepare"} =>
                  "dockerImage" \in profile'[t]
             /\ chosen'[t] = <<"os">> /\ pc'[t] = "topology" => "osRuntime" \in profile'[t]
             /\ pc'[t] \in {"building", "ready"} => Fits(t, chosen[t][1])'
  <2>1. CASE t = s
    BY <1>1, <1>2, <1>4, <2>1 DEF Inductive
  <2>2. CASE t # s
    BY <1>1, <1>2, <1>4, <2>2 DEF Inductive
  <2> QED BY <2>1, <2>2
<1> QED BY <1>3, <1>5 DEF Inductive

\* The backend of a session on its way.
LEMMA HasBackend ==
  ASSUME Inductive, NEW s \in Session, chosen[s] # <<>>
  PROVE  chosen[s][1] \in Kind /\ chosen[s] = <<chosen[s][1]>>
BY DEF Inductive, TypeOK

LEMMA CheckInductive ==
  ASSUME Inductive, NEW s \in Session, Check(s)
  PROVE  Inductive'
<1> DEFINE k == chosen[s][1]
<1>1. /\ UNCHANGED <<wanted, floor, profile, capable, carrier, cleaned, pending, candidates, chosen>>
      /\ pc[s] = "check" /\ chosen[s] # <<>> /\ carrier \in BOOLEAN /\ cleaned \in BOOLEAN
  BY DEF Check, config, os, search, Inductive, TypeOK
<1>2. PICK to \in {"abort", "launch", "topology"} :
        /\ pc' = [pc EXCEPT ![s] = to]
        /\ to # "abort" => Matches(s, k) /\ TopologyAllowed(k)
        /\ to = "topology" => ~Cached(k)
  BY DEF Check, Goto
<1>3. k \in Kind /\ chosen[s] = <<k>>
  BY <1>1, HasBackend
<1>4. to # "abort" /\ k = "docker" => "dockerImage" \in profile[s]
  BY <1>2 DEF Matches, Resolved
<1>5. to = "topology" /\ k = "os" => "osRuntime" \in profile[s]
  BY <1>2 DEF Matches, Resolved, TopologyAllowed, Cached, OsBlock
<1> HIDE DEF k
<1>6. to \in Stage \ {"select"} /\ to \notin {"building", "ready"}
  BY DEF Stage
<1>7. /\ chosen[s] = <<"docker">> /\ to \in {"topology", "launch", "prepare"} => "dockerImage" \in profile[s]
      /\ chosen[s] = <<"os">> /\ to = "topology" => "osRuntime" \in profile[s]
  BY <1>3, <1>4, <1>5
<1>8. carrier' => \E t \in Session : "osRuntime" \in profile[t]
  BY <1>1 DEF Inductive
<1>9. carrier' \in BOOLEAN /\ cleaned' \in BOOLEAN /\ (to # "abort" => chosen[s] # <<>>)
  BY <1>1
<1> QED BY <1>1, <1>2, <1>6, <1>7, <1>8, <1>9, MovesOn

LEMMA TopologyInductive ==
  ASSUME Inductive, NEW s \in Session, Topology(s)
  PROVE  Inductive'
<1>1. /\ UNCHANGED <<wanted, floor, profile, capable, cleaned, pending, candidates, chosen>>
      /\ pc[s] = "topology" /\ chosen[s] # <<>> /\ cleaned' \in BOOLEAN
  BY DEF Topology, config, search, Inductive, TypeOK
<1>2. PICK to \in {"launch", "abort"} : pc' = [pc EXCEPT ![s] = to]
  BY DEF Topology, Goto
<1>3. carrier' \in BOOLEAN /\ (carrier' => carrier \/ chosen[s] = <<"os">>)
  <2>1. carrier \in BOOLEAN
    BY DEF Inductive, TypeOK
  <2>2. carrier' = carrier \/ carrier' = (carrier \/ chosen[s] = <<"os">>)
    BY Zenon DEF Topology
  <2>3. CASE carrier' = carrier
    BY <2>1, <2>3
  <2>4. CASE carrier' = (carrier \/ chosen[s] = <<"os">>)
    BY Zenon, <2>4
  <2> QED BY <2>2, <2>3, <2>4
<1>4. carrier' => \E t \in Session : "osRuntime" \in profile[t]
  BY <1>1, <1>3 DEF Inductive
<1>5. chosen[s] = <<"docker">> => "dockerImage" \in profile[s]
  BY <1>1 DEF Inductive
<1>6. to \in Stage \ {"select"} /\ to \notin {"building", "ready"}
  BY DEF Stage
<1> QED BY <1>1, <1>2, <1>3, <1>4, <1>5, <1>6, MovesOn

LEMMA LaunchInductive ==
  ASSUME Inductive, NEW s \in Session, Launch(s) \/ Prepare(s)
  PROVE  Inductive'
<1>1. /\ UNCHANGED <<wanted, floor, profile, capable, carrier, cleaned, pending, candidates, chosen>>
      /\ pc[s] \in {"launch", "prepare"} /\ chosen[s] # <<>>
      /\ carrier' \in BOOLEAN /\ cleaned' \in BOOLEAN
  BY DEF Launch, Prepare, config, os, search, Inductive, TypeOK
<1>2. PICK to \in {"prepare", "building", "abort"} :
        /\ pc' = [pc EXCEPT ![s] = to]
        /\ to = "building" => Fits(s, chosen[s][1])
  BY DEF Launch, Prepare, Goto, ReadyFor
<1>3. carrier' => \E t \in Session : "osRuntime" \in profile[t]
  BY <1>1 DEF Inductive
<1>4. chosen[s] = <<"docker">> => "dockerImage" \in profile[s]
  BY <1>1 DEF Inductive
<1>5. to \in Stage \ {"select"} /\ to \notin {"topology", "ready"}
  BY DEF Stage
<1> QED BY <1>1, <1>2, <1>3, <1>4, <1>5, MovesOn

LEMMA EndsInductive ==
  ASSUME Inductive, NEW s \in Session, Build(s) \/ End(s)
  PROVE  Inductive'
<1>1. UNCHANGED <<wanted, floor, profile, capable, pending, candidates, chosen>>
  BY DEF Build, End, config, search
<1>2. PICK to \in {"ready", "abort", "refused", "over"} :
        pc' = [pc EXCEPT ![s] = to] /\ (to = "ready" => pc[s] = "building")
  BY DEF Build, End, Goto
<1>3. carrier' \in BOOLEAN /\ cleaned' \in BOOLEAN /\ (carrier' => carrier)
  BY DEF Build, End, Inductive, TypeOK
<1>4. carrier' => \E t \in Session : "osRuntime" \in profile[t]
  BY <1>3 DEF Inductive
<1>5. to = "ready" => chosen[s] # <<>> /\ Fits(s, chosen[s][1])
  BY <1>2 DEF Inductive
<1>6. to \in Stage \ {"select"} /\ to \notin {"topology", "launch", "prepare", "building", "check"}
  BY DEF Stage
<1> QED BY <1>1, <1>2, <1>3, <1>4, <1>5, <1>6, MovesOn

LEMMA InitInductive == Init => Inductive
<1> SUFFICES ASSUME Init PROVE Inductive
  OBVIOUS
<1>1. Allowed \in SUBSET DOMAIN Available
  BY DEF Allowed
<1>2. TypeOK
  BY <1>1 DEF Init, TypeOK, Stage
<1>3. \A k \in Kind : <<>> # <<k>>
  OBVIOUS
<1> QED BY <1>2, <1>3 DEF Init, Inductive

LEMMA StepInductive == Inductive /\ [Next]_vars => Inductive'
<1> SUFFICES ASSUME Inductive, [Next]_vars PROVE Inductive'
  OBVIOUS
<1>1. CASE UNCHANGED vars
  BY <1>1 DEF vars, config, os, search, Inductive, TypeOK, Allowed, Fits, Resolved
<1>2. CASE Next
  BY <1>2, NothingInductive, ProbeInductive, CheckInductive, TopologyInductive, LaunchInductive,
     EndsInductive DEF Next
<1> QED BY <1>1, <1>2

\* The invariant behind the others.
THEOREM SelectionInductive == Spec => []Inductive
BY InitInductive, StepInductive, PTL DEF Spec

\* TypeOK, about the state selectBackend() and its callers leave at each await.
THEOREM SelectionTypeOK == Spec => []TypeOK
<1>1. Inductive => TypeOK
  BY DEF Inductive
<1> QED BY <1>1, SelectionInductive, PTL

\* MismatchBeforeTopology, about assertRuntimeProfileMatchesBackend(), prepareTopology()
\* and validatePrepareOptions(): for sessions of any profiles and any list of backends.
THEOREM SelectionMismatch == Spec => []MismatchBeforeTopology
<1>1. Inductive => MismatchBeforeTopology
  BY DEF Inductive, MismatchBeforeTopology
<1> QED BY <1>1, SelectionInductive, PTL

\* ReadyIsStrong, about what prepare() lets through: whatever other sessions probed
\* since the selection, the backend is of the wanted kind and, when prepare() begins,
\* at least as strong as the floor.
THEOREM SelectionReadyIsStrong == Spec => ReadyIsStrong
<1> DEFINE Strong(s) == /\ wanted \in {"auto", chosen[s][1]}
                        /\ Rank[Level(chosen[s][1], capable)] >= Rank[floor]
           A == \A s \in Session :
                  /\ pc'[s] = "building" /\ pc[s] # "building" => Strong(s)
                  /\ pc'[s] = "ready" /\ pc[s] # "ready" => pc[s] = "building"
<1>1. Inductive /\ [Next]_vars => [A]_vars
  <2> SUFFICES ASSUME Inductive, Next, NEW s \in Session
               PROVE  /\ pc'[s] = "building" /\ pc[s] # "building" => Strong(s)
                      /\ pc'[s] = "ready" /\ pc[s] # "ready" => pc[s] = "building"
    OBVIOUS
  <2>1. PICK t \in Session : \/ NothingToProbe(t) \/ Probe(t) \/ Check(t) \/ Topology(t)
                             \/ Launch(t) \/ Prepare(t) \/ Build(t) \/ End(t)
    BY DEF Next
  <2>2. pc'[s] = "building" /\ pc[s] # "building" => Prepare(t) /\ t = s
    BY <2>1 DEF NothingToProbe, Probe, Choose, Check, Topology, Launch, Prepare, Build, End, Goto,
                Inductive, TypeOK
  <2>3. pc'[s] = "ready" /\ pc[s] # "ready" => pc[s] = "building"
    BY <2>1 DEF NothingToProbe, Probe, Choose, Check, Topology, Launch, Prepare, Build, End, Goto,
                Inductive, TypeOK
  <2>4. ASSUME pc'[s] = "building", pc[s] # "building" PROVE Strong(s)
    <3>1. pc[s] = "prepare" /\ ReadyFor(s, chosen[s][1])
      BY <2>2, <2>4 DEF Prepare, Goto, Inductive, TypeOK
    <3>2. chosen[s] # <<>> /\ chosen[s][1] \in Kind /\ chosen[s] = <<chosen[s][1]>>
      BY <3>1, HasBackend DEF Inductive
    <3>3. wanted \in {"auto", chosen[s][1]}
      BY <3>2 DEF Inductive
    <3>4. Level(chosen[s][1], capable) = "full"
      BY <3>1 DEF ReadyFor, Level
    <3>5. Rank[floor] <= 3 /\ Rank["full"] = 3 /\ Rank[floor] \in Nat
      BY RankKnown DEF Inductive, TypeOK
    <3>6. Rank[Level(chosen[s][1], capable)] >= Rank[floor]
      BY <3>4, <3>5
    <3> QED BY <3>3, <3>6
  <2> QED BY <2>3, <2>4
<1> QED BY <1>1, SelectionInductive, PTL DEF Spec, ReadyIsStrong

\* FittestChosen, about the gap between the admission of a candidate and the sort at the
\* end of selectBackend().
THEOREM SelectionFittestChosen == Spec => FittestChosen
<1> DEFINE Fit(s, i) ==
             /\ chosen'[s] = <<Available[i]>>
             /\ \/ Admitted(Available[i], TRUE, capable')
                \/ \A j \in candidates'[s] : ~Admitted(Available[j], TRUE, capable')
           A == \A s \in Session : chosen'[s] # chosen[s] => \E i \in candidates'[s] : Fit(s, i)
<1>1. Inductive /\ [Next]_vars => [A]_vars
  <2> SUFFICES ASSUME Inductive, Next, NEW s \in Session, chosen'[s] # chosen[s]
               PROVE  \E i \in candidates'[s] : Fit(s, i)
    OBVIOUS
  <2>1. PICK t \in Session : \/ NothingToProbe(t) \/ Probe(t) \/ Check(t) \/ Topology(t)
                             \/ Launch(t) \/ Prepare(t) \/ Build(t) \/ End(t)
    BY DEF Next
  <2>2. Inductive'
    BY StepInductive
  <2>3. ~(Check(t) \/ Topology(t) \/ Launch(t) \/ Prepare(t) \/ Build(t) \/ End(t))
    BY DEF Check, Topology, Launch, Prepare, Build, End, search
  <2>4. PICK cands : /\ pc[t] = "select" /\ Choose(t, cands)
                     /\ cands = {} \/ cands = candidates'[t]
    <3>1. CASE NothingToProbe(t)
      BY <3>1 DEF NothingToProbe
    <3>2. CASE Probe(t)
      <4>1. pending'[t] = {}
        BY <3>2 DEF Probe
      <4> QED BY <3>2, <4>1 DEF Probe
    <3> QED BY <2>1, <2>3, <3>1, <3>2
  <2>5. t = s
    BY <2>4 DEF Choose, Inductive, TypeOK
  <2>6. pc[s] = "select" /\ Choose(s, cands) /\ (cands = {} \/ cands = candidates'[s])
    BY <2>4, <2>5
  <2>7. chosen'[s] = StrongestOf(cands, capable') /\ chosen[s] = <<>>
    BY <2>6 DEF Choose, Inductive, TypeOK
  <2>8. cands # {} /\ cands = candidates'[s]
    BY <2>6, <2>7 DEF StrongestOf
  <2>9. cands \in SUBSET DOMAIN Available /\ floor \in {"none", "remote-unverified", "restricted", "full"}
    BY <2>2, <2>8 DEF Inductive, TypeOK
  <2>10. PICK i \in cands : /\ StrongestOf(cands, capable') = <<Available[i]>>
                           /\ \A j \in cands : Precedes(i, j, capable')
    BY <2>8, <2>9, StrongestIs
  <2>11. ASSUME NEW j \in cands, Admitted(Available[j], TRUE, capable')
         PROVE  Admitted(Available[i], TRUE, capable')
    <3>1. Power(j, capable') <= Power(i, capable')
      BY <2>9, <2>10, PowerKnown DEF Precedes
    <3>2. Rank[floor] \in 0..3
      BY <2>9, RankKnown
    <3>3. Rank[Level(Available[i], capable')] >= Rank[floor]
      BY <2>9, <2>11, <3>1, <3>2, PowerKnown DEF Admitted, Power
    <3>4. Level(Available[i], capable') = "restricted" => Level(Available[j], capable') = "restricted"
      BY <3>1, RankKnown DEF Power, Level
    <3> QED BY <2>11, <3>3, <3>4 DEF Admitted
  <2> QED BY <2>7, <2>8, <2>10, <2>11
<1> QED BY <1>1, SelectionInductive, PTL DEF Spec, FittestChosen
=============================================================================
