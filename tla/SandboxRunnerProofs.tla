------------------------ MODULE SandboxRunnerProofs ------------------------
EXTENDS SandboxRunner, TLAPS

LEMMA GotoType ==
  ASSUME NEW s \in Session, NEW l \in Label, pc \in [Session -> Label], Goto(s, l)
  PROVE  pc' \in [Session -> Label]
  BY DEF Goto

LEMMA Labels ==
  /\ "select" \in Label /\ "topology" \in Label /\ "create" \in Label /\ "openDir" \in Label
  /\ "launch" \in Label /\ "verify" \in Label /\ "prepare" \in Label /\ "exec" \in Label
  /\ "wait" \in Label /\ "open" \in Label /\ "procClose" \in Label
  /\ "cleanup" \in Label /\ "teardown" \in Label /\ "closeProxy" \in Label
  /\ "removeDir" \in Label /\ "report" \in Label
  /\ "abortCleanup" \in Label /\ "abortTeardown" \in Label /\ "abortProxy" \in Label
  /\ "abortDir" \in Label /\ "done" \in Label /\ "new" \in Label
  BY DEF Label, SettingUp, Executing, Closing, Aborting

LEMMA UnchangedTypes ==
  /\ SetupTypes /\ UNCHANGED setupVars => SetupTypes'
  /\ EndTypes /\ UNCHANGED endVars => EndTypes'
  /\ ReportTypes /\ UNCHANGED reportVars => ReportTypes'
  /\ ObjectTypes /\ UNCHANGED objectVars => ObjectTypes'
  /\ WorldTypes /\ UNCHANGED worldVars => WorldTypes'
<1>1. SetupTypes /\ UNCHANGED setupVars => SetupTypes'
  BY DEF SetupTypes, setupVars
<1>2. EndTypes /\ UNCHANGED endVars => EndTypes'
  BY DEF EndTypes, endVars
<1>3. ReportTypes /\ UNCHANGED reportVars => ReportTypes'
  BY DEF ReportTypes, reportVars
<1>4. ObjectTypes /\ UNCHANGED objectVars => ObjectTypes'
  BY DEF ObjectTypes, objectVars
<1>5. WorldTypes /\ UNCHANGED worldVars => WorldTypes'
  BY DEF WorldTypes, worldVars
<1> QED BY <1>1, <1>2, <1>3, <1>4, <1>5

LEMMA Claims == {Claim("none"), Claim("full"), Claim("unset")} \subseteq Output
  BY DEF Level, Claim, Output

LEMMA TeardownTypes ==
  ASSUME WorldTypes, NEW o, NEW t \in Teardown(o), ApplyTeardown(o, t), UNCHANGED <<under, killing>>
  PROVE  WorldTypes'
  BY DEF WorldTypes, Teardown, ApplyTeardown

LEMMA SetupType ==
  ASSUME TypeOK, Phases, NEW s \in Session, Setup(s)
  PROVE  TypeOK'
<1> USE DEF TypeOK
<1>1. CASE BuildSnapshot(s)
  <2>1. pc' \in [Session -> Label]
    BY <1>1, GotoType, Labels DEF BuildSnapshot, Refuse
  <2>2. ReportTypes'
    BY <1>1, Claims DEF BuildSnapshot, Refuse, ReportTypes
  <2> QED BY <1>1, <2>1, <2>2, UnchangedTypes DEF BuildSnapshot
<1>2. CASE SelectBackend(s)
  <2>1. pc' \in [Session -> Label]
    BY <1>2, GotoType, Labels DEF SelectBackend, Refuse
  <2>2. ReportTypes'
    BY <1>2, Claims DEF SelectBackend, Refuse, ReportTypes
  <2>3. SetupTypes'
    BY <1>2 DEF SelectBackend, SetupTypes
  <2> QED BY <1>2, <2>1, <2>2, <2>3, UnchangedTypes DEF SelectBackend
<1>3. CASE BeginTopology(s)
  <2>1. pc' \in [Session -> Label]
    BY <1>3, GotoType, Labels DEF BeginTopology
  <2> QED BY <1>3, <2>1, UnchangedTypes DEF BeginTopology
<1>4. CASE CreateTopology(s)
  <2>1. pc' \in [Session -> Label]
    BY <1>4, GotoType, Labels DEF CreateTopology
  <2>2. ObjectTypes' /\ WorldTypes'
    BY <1>4 DEF CreateTopology, ObjectTypes, WorldTypes
  <2> QED BY <1>4, <2>1, <2>2, UnchangedTypes DEF CreateTopology
<1>5. CASE TopologyFails(s)
  <2>1. pc' \in [Session -> Label]
    BY <1>5, GotoType, Labels DEF TopologyFails
  <2>2. WorldTypes'
    BY <1>5 DEF TopologyFails, WorldTypes
  <2> QED BY <1>5, <2>1, <2>2, UnchangedTypes DEF TopologyFails
<1>6. CASE OpenDir(s)
  <2>1. pc' \in [Session -> Label]
    BY <1>6, GotoType, Labels DEF OpenDir
  <2>2. SetupTypes'
    BY <1>6 DEF OpenDir, SetupTypes
  <2> QED BY <1>6, <2>1, <2>2, UnchangedTypes DEF OpenDir
<1>7. CASE LaunchProxy(s)
  <2>1. pc' \in [Session -> Label]
    BY <1>7, GotoType, Labels DEF LaunchProxy
  <2>2. SetupTypes'
    BY <1>7 DEF LaunchProxy, SetupTypes
  <2> QED BY <1>7, <2>1, <2>2, UnchangedTypes DEF LaunchProxy
<1>8. CASE VerifySnapshot(s)
  <2>1. pc' \in [Session -> Label]
    BY <1>8, GotoType, Labels DEF VerifySnapshot, AfterVerify
  <2>2. SetupTypes'
    BY <1>8 DEF VerifySnapshot, SetupTypes
  <2> QED BY <1>8, <2>1, <2>2, UnchangedTypes DEF VerifySnapshot
<1>9. CASE Prepare(s)
  <2>1. pc' \in [Session -> Label]
    BY <1>9, GotoType, Labels DEF Prepare
  <2>2. ObjectTypes'
    BY <1>9 DEF Prepare, ObjectTypes
  <2> QED BY <1>9, <2>1, <2>2, UnchangedTypes DEF Prepare
<1>10. CASE PrepareFails(s)
  <2>1. pc' \in [Session -> Label]
    BY <1>10, GotoType, Labels DEF PrepareFails
  <2>2. ObjectTypes'
    BY <1>10 DEF PrepareFails, ForgetState, ObjectTypes
  <2>3. WorldTypes'
    BY <1>10 DEF PrepareFails, Teardown, ApplyTeardown, WorldTypes
  <2> QED BY <1>10, <2>1, <2>2, <2>3, UnchangedTypes DEF PrepareFails
<1>11. CASE RejectExec(s)
  <2>1. pc' \in [Session -> Label]
    BY <1>11, GotoType, Labels DEF RejectExec
  <2>2. EndTypes'
    BY <1>11 DEF RejectExec, EndTypes
  <2> QED BY <1>11, <2>1, <2>2, UnchangedTypes DEF RejectExec
<1>12. CASE StartGuest(s)
  <2>1. pc' \in [Session -> Label]
    BY <1>12, GotoType, Labels DEF StartGuest
  <2>2. ReportTypes'
    BY <1>12 DEF StartGuest, ReportTypes
  <2>3. opts[objectOf[s]] \in Session \cup {NoSession}
    BY <1>12 DEF StartGuest, ObjectTypes, SetupTypes, Phases
  <2>4. WorldTypes'
    BY <1>12, <2>3 DEF StartGuest, WorldTypes
  <2> QED BY <1>12, <2>1, <2>2, <2>4, UnchangedTypes DEF StartGuest
<1> QED BY <1>1, <1>2, <1>3, <1>4, <1>5, <1>6, <1>7, <1>8, <1>9, <1>10, <1>11, <1>12 DEF Setup

LEMMA FinishType ==
  ASSUME TypeOK, Phases, NEW s \in Session, Finish(s)
  PROVE  TypeOK'
<1> USE DEF TypeOK
<1>1. CASE RunReturns(s)
  <2>1. pc' \in [Session -> Label]
    BY <1>1, GotoType, Labels DEF RunReturns
  <2>2. EndTypes'
    BY <1>1 DEF RunReturns, Results, EndTypes
  <2> QED BY <1>1, <2>1, <2>2, UnchangedTypes DEF RunReturns
<1>2. CASE CloseProcess(s)
  <2>1. pc' \in [Session -> Label]
    BY <1>2, GotoType, Labels DEF CloseProcess
  <2>2. EndTypes'
    BY <1>2 DEF CloseProcess, EndTypes
  <2>3. WorldTypes'
    BY <1>2 DEF CloseProcess, WorldTypes
  <2> QED BY <1>2, <2>1, <2>2, <2>3, UnchangedTypes DEF CloseProcess
<1>3. CASE BeginCleanup(s)
  <2>1. pc' \in [Session -> Label]
    BY <1>3, GotoType, Labels DEF BeginCleanup
  <2>2. ObjectTypes'
    BY <1>3 DEF BeginCleanup, ObjectTypes
  <2> QED BY <1>3, <2>1, <2>2, UnchangedTypes DEF BeginCleanup
<1>4. CASE EndCleanup(s)
  <2>1. pc' \in [Session -> Label]
    BY <1>4, GotoType, Labels DEF EndCleanup
  <2>2. EndTypes'
    BY <1>4 DEF EndCleanup, EndTypes
  <2>3. ObjectTypes'
    BY <1>4 DEF EndCleanup, ForgetState, ObjectTypes
  <2>4. WorldTypes'
    <3>1. PICK t \in Teardown(objectOf[s]) : ApplyTeardown(objectOf[s], t)
      BY <1>4 DEF EndCleanup
    <3> QED BY <1>4, <3>1, TeardownTypes DEF EndCleanup
  <2> QED BY <1>4, <2>1, <2>2, <2>3, <2>4, UnchangedTypes DEF EndCleanup
<1>5. CASE RepeatCleanup(s)
  <2>1. pc' \in [Session -> Label]
    BY <1>5, GotoType, Labels DEF RepeatCleanup
  <2>2. EndTypes'
    BY <1>5 DEF RepeatCleanup, EndTypes
  <2> QED BY <1>5, <2>1, <2>2, UnchangedTypes DEF RepeatCleanup
<1>6. CASE CloseProxy(s)
  <2>1. pc' \in [Session -> Label]
    BY <1>6, GotoType, Labels DEF CloseProxy
  <2>2. SetupTypes'
    BY <1>6 DEF CloseProxy, SetupTypes
  <2> QED BY <1>6, <2>1, <2>2, UnchangedTypes DEF CloseProxy
<1>7. CASE RemoveDir(s)
  <2>1. pc' \in [Session -> Label]
    BY <1>7, GotoType, Labels DEF RemoveDir
  <2>2. SetupTypes'
    BY <1>7 DEF RemoveDir, SetupTypes
  <2>3. EndTypes'
    BY <1>7 DEF RemoveDir, SoftAfter, EndTypes
  <2> QED BY <1>7, <2>1, <2>2, <2>3, UnchangedTypes DEF RemoveDir
<1>8. CASE Report(s)
  <2>1. pc' \in [Session -> Label]
    BY <1>8, GotoType, Labels DEF Report
  <2>2. RunOutput(s) \in Output /\ SessionMeta(s) \in Output
    BY DEF RunOutput, SessionMeta, Output, Level, EndTypes
  <2>3. ReportTypes'
    BY <1>8, <2>2 DEF Report, FinalEvent, ReportTypes
  <2> QED BY <1>8, <2>1, <2>3, UnchangedTypes DEF Report
<1>9. CASE AbortDir(s)
  <2>1. pc' \in [Session -> Label]
    BY <1>9, GotoType, Labels DEF AbortDir
  <2>2. SetupTypes'
    BY <1>9 DEF AbortDir, SetupTypes
  <2>3. Claim("full") \in Output
    BY Claims
  <2>4. ReportTypes'
    BY <1>9, <2>3 DEF AbortDir, ReportTypes
  <2> QED BY <1>9, <2>1, <2>2, <2>4, UnchangedTypes DEF AbortDir
<1> QED BY <1>1, <1>2, <1>3, <1>4, <1>5, <1>6, <1>7, <1>8, <1>9 DEF Finish

LEMMA OtherType ==
  ASSUME TypeOK, NEW s \in Session, KillGuest(s) \/ Environment(s)
  PROVE  TypeOK'
<1> USE DEF TypeOK
<1>1. CASE KillGuest(s)
  <2>1. WorldTypes'
    BY <1>1 DEF KillGuest, WorldTypes
  <2> QED BY <1>1, <2>1, UnchangedTypes DEF KillGuest
<1>2. CASE GuestExits(s)
  <2>1. WorldTypes'
    BY <1>2 DEF GuestExits, WorldTypes
  <2> QED BY <1>2, <2>1, UnchangedTypes DEF GuestExits
<1>3. CASE RunLeavesStrays(s)
  <2>1. pc' \in [Session -> Label]
    BY <1>3, GotoType, Labels DEF RunLeavesStrays
  <2>2. EndTypes'
    BY <1>3 DEF RunLeavesStrays, EndTypes, Results
  <2>3. WorldTypes'
    BY <1>3 DEF RunLeavesStrays, WorldTypes
  <2> QED BY <1>3, <2>1, <2>2, <2>3, UnchangedTypes DEF RunLeavesStrays
<1>4. CASE Close(s)
  <2>1. pc' \in [Session -> Label]
    BY <1>4, GotoType, Labels DEF Close
  <2> QED BY <1>4, <2>1, UnchangedTypes DEF Close
<1> QED BY <1>1, <1>2, <1>3, <1>4 DEF Environment

LEMMA StepType ==
  ASSUME TypeOK, Phases, NEW s \in Session, Step(s) \/ Environment(s)
  PROVE  TypeOK'
  BY SetupType, FinishType, OtherType DEF Step

LEMMA InitType == Init => TypeOK
<1> SUFFICES ASSUME Init PROVE TypeOK
  OBVIOUS
<1>1. pc \in [Session -> Label]
  BY Labels DEF Init
<1>2. SetupTypes /\ EndTypes
  BY DEF Init, SetupTypes, EndTypes
<1>3. ReportTypes
  BY Claims DEF Init, ReportTypes
<1>4. ObjectTypes /\ WorldTypes
  BY DEF Init, ObjectTypes, WorldTypes
<1> QED BY <1>1, <1>2, <1>3, <1>4 DEF TypeOK

(***************************************************************************)
(* A step of session t touches only t, the object of t and guests on it.   *)
(***************************************************************************)
SelfFrame(t) ==
  \A s \in Session \ {t} :
    /\ pc'[s] = pc[s] /\ objectOf'[s] = objectOf[s] /\ verified'[s] = verified[s]
    /\ proxy'[s] = proxy[s] /\ caught'[s] = caught[s] /\ output'[s] = output[s]
    /\ under'[s] = under[s]

ObjectFrame(t) ==
  \A o \in Object : o # objectOf[t] =>
    /\ carrier'[o] = carrier[o] /\ opts'[o] = opts[o] /\ held'[o] = held[o]
    /\ outcome'[o] = outcome[o] /\ net'[o] = net[o]

GuestFrame(t) ==
  \A s \in Session \ {t} :
    /\ objectOf[s] # objectOf[t] => guest'[s] = guest[s]
    /\ guest'[s] = guest[s] \/ (guest[s] = "running" /\ guest'[s] = "gone")

ChoiceFrame(t) ==
  objectOf'[t] = objectOf[t] \/ (pc[t] = "select" /\ objectOf'[t] \in Object)

Frame(t) == SelfFrame(t) /\ ObjectFrame(t) /\ GuestFrame(t) /\ ChoiceFrame(t)

LEMMA SetupFrame ==
  ASSUME TypeOK, Phases, NEW t \in Session, Setup(t)
  PROVE  Frame(t)
<1> USE DEF TypeOK, SetupTypes, EndTypes, ReportTypes, ObjectTypes, WorldTypes, Frame,
            SelfFrame, ObjectFrame, GuestFrame, ChoiceFrame, Goto,
            setupVars, endVars, reportVars, objectVars, worldVars
<1>1. CASE BuildSnapshot(t)
  BY <1>1 DEF BuildSnapshot, Refuse
<1>2. CASE SelectBackend(t)
  BY <1>2 DEF SelectBackend, Refuse
<1>3. CASE BeginTopology(t)
  BY <1>3 DEF BeginTopology
<1>4. CASE CreateTopology(t)
  BY <1>4 DEF CreateTopology
<1>5. CASE TopologyFails(t)
  BY <1>5 DEF TopologyFails
<1>6. CASE OpenDir(t)
  BY <1>6 DEF OpenDir
<1>7. CASE LaunchProxy(t)
  BY <1>7 DEF LaunchProxy
<1>8. CASE VerifySnapshot(t)
  BY <1>8 DEF VerifySnapshot
<1>9. CASE Prepare(t)
  BY <1>9 DEF Prepare
<1>10. CASE PrepareFails(t)
  BY <1>10 DEF PrepareFails, Reach, ApplyTeardown, ForgetState
<1>11. CASE RejectExec(t)
  BY <1>11 DEF RejectExec
<1>12. CASE StartGuest(t)
  BY <1>12 DEF StartGuest
<1> QED BY <1>1, <1>2, <1>3, <1>4, <1>5, <1>6, <1>7, <1>8, <1>9, <1>10, <1>11, <1>12 DEF Setup

LEMMA FinishFrame ==
  ASSUME TypeOK, NEW t \in Session, Finish(t)
  PROVE  Frame(t)
<1> USE DEF TypeOK, SetupTypes, EndTypes, ReportTypes, ObjectTypes, WorldTypes, Frame,
            SelfFrame, ObjectFrame, GuestFrame, ChoiceFrame, Goto,
            setupVars, endVars, reportVars, objectVars, worldVars
<1>1. CASE RunReturns(t)
  BY <1>1 DEF RunReturns
<1>2. CASE CloseProcess(t)
  BY <1>2 DEF CloseProcess
<1>3. CASE BeginCleanup(t)
  BY <1>3 DEF BeginCleanup
<1>4. CASE EndCleanup(t)
  BY <1>4 DEF EndCleanup, Reach, ApplyTeardown, ForgetState
<1>5. CASE RepeatCleanup(t)
  BY <1>5 DEF RepeatCleanup
<1>6. CASE CloseProxy(t)
  BY <1>6 DEF CloseProxy
<1>7. CASE RemoveDir(t)
  BY <1>7 DEF RemoveDir
<1>8. CASE Report(t)
  BY <1>8 DEF Report
<1>9. CASE AbortDir(t)
  BY <1>9 DEF AbortDir
<1> QED BY <1>1, <1>2, <1>3, <1>4, <1>5, <1>6, <1>7, <1>8, <1>9 DEF Finish

LEMMA OtherFrame ==
  ASSUME TypeOK, NEW t \in Session, KillGuest(t) \/ Environment(t)
  PROVE  Frame(t)
<1> USE DEF TypeOK, SetupTypes, EndTypes, ReportTypes, ObjectTypes, WorldTypes, Frame,
            SelfFrame, ObjectFrame, GuestFrame, ChoiceFrame, Goto,
            setupVars, endVars, reportVars, objectVars, worldVars
<1>1. CASE KillGuest(t)
  BY <1>1 DEF KillGuest
<1>2. CASE GuestExits(t)
  BY <1>2 DEF GuestExits
<1>3. CASE RunLeavesStrays(t)
  BY <1>3 DEF RunLeavesStrays
<1>4. CASE Close(t)
  BY <1>4 DEF Close
<1> QED BY <1>1, <1>2, <1>3, <1>4 DEF Environment

LEMMA StepFrame ==
  ASSUME TypeOK, Phases, NEW t \in Session, Step(t) \/ Environment(t)
  PROVE  Frame(t)
  BY SetupFrame, FinishFrame, OtherFrame DEF Step

LonePhases(s) == ObjectPhase(s) /\ ConfinePhase(s) /\ ContainPhase(s)

\* A session that is alone on its object afterwards was alone before, or has
\* selected it in this step.
LEMMA OwnedBefore ==
  ASSUME TypeOK, Phases, NEW t \in Session, Frame(t), NEW s \in Session, Owned(s)'
  PROVE  Owned(s) \/ (s = t /\ pc[t] = "select" /\ objectOf[t] = NoObject)
<1> USE DEF TypeOK, SetupTypes, Frame, SelfFrame, ChoiceFrame, Phases, Owned
<1> QED BY ObjectsAssumption

\* The step of another session leaves a lone session as it was.
LEMMA OthersKeep ==
  ASSUME Inductive, NEW t \in Session, Frame(t), NEW s \in Session \ {t}, Owned(s)'
  PROVE  LonePhases(s)'
<1>1. Owned(s) /\ objectOf[s] \in Object
  BY OwnedBefore DEF Inductive, Owned, TypeOK, SetupTypes
<1>2. LonePhases(s)
  BY <1>1 DEF Inductive, LonePhases
<1>3. objectOf[s] # objectOf[t] /\ objectOf'[s] = objectOf[s] /\ guest'[s] = guest[s]
  BY <1>1 DEF Frame, SelfFrame, GuestFrame, Owned
<1>4. LET o == objectOf[s] IN
        /\ carrier'[o] = carrier[o] /\ opts'[o] = opts[o] /\ held'[o] = held[o]
        /\ outcome'[o] = outcome[o] /\ net'[o] = net[o]
  BY <1>1, <1>3 DEF Frame, ObjectFrame
<1>5. ObjectPhase(s)'
  BY <1>2, <1>3, <1>4 DEF LonePhases, ObjectPhase, Frame, SelfFrame
<1>6. ConfinePhase(s)'
  BY <1>2, <1>3, <1>4 DEF LonePhases, ConfinePhase, Frame, SelfFrame
<1>7. ContainPhase(s)'
  BY <1>2, <1>3, <1>4 DEF LonePhases, ContainPhase, Frame, SelfFrame
<1> QED BY <1>5, <1>6, <1>7 DEF LonePhases

LEMMA UntouchedKept ==
  ASSUME TypeOK, Phases, Untouched, NEW t \in Session, Frame(t),
         pc[t] \in {"new", "select"} => UNCHANGED <<carrier, opts, held, outcome, net>>
  PROVE  Untouched'
<1> SUFFICES ASSUME NEW o \in Object, \A s \in Session : objectOf'[s] # o
             PROVE  /\ outcome'[o] = "unset" /\ ~carrier'[o] /\ ~net'[o]
                    /\ opts'[o] = NoSession /\ held'[o] = NoSession
  BY DEF Untouched
<1>1. \A s \in Session : objectOf[s] # o
  BY ObjectsAssumption DEF Phases, Frame, SelfFrame, ChoiceFrame
<1>2. /\ outcome[o] = "unset" /\ ~carrier[o] /\ ~net[o]
      /\ opts[o] = NoSession /\ held[o] = NoSession
  BY <1>1 DEF Untouched
<1> QED BY <1>1, <1>2 DEF Frame, ObjectFrame

LEMMA SetupPhases ==
  ASSUME TypeOK, Phases, NEW t \in Session, Setup(t)
  PROVE  /\ Phases'
         /\ pc[t] \in {"new", "select"} => UNCHANGED <<carrier, opts, held, outcome, net>>
<1> USE ObjectsAssumption
    DEF TypeOK, SetupTypes, WorldTypes, Phases, Goto, Executing, Closing,
        setupVars, endVars, reportVars, objectVars, worldVars
<1>1. CASE BuildSnapshot(t)
  BY <1>1 DEF BuildSnapshot, Refuse
<1>2. CASE SelectBackend(t)
  BY <1>2 DEF SelectBackend, Refuse
<1>3. CASE BeginTopology(t)
  BY <1>3 DEF BeginTopology
<1>4. CASE CreateTopology(t)
  BY <1>4 DEF CreateTopology
<1>5. CASE TopologyFails(t)
  BY <1>5 DEF TopologyFails
<1>6. CASE OpenDir(t)
  BY <1>6 DEF OpenDir
<1>7. CASE LaunchProxy(t)
  BY <1>7 DEF LaunchProxy
<1>8. CASE VerifySnapshot(t)
  BY <1>8 DEF VerifySnapshot, AfterVerify
<1>9. CASE Prepare(t)
  BY <1>9 DEF Prepare
<1>10. CASE PrepareFails(t)
  BY <1>10 DEF PrepareFails, Reach, ApplyTeardown
<1>11. CASE RejectExec(t)
  BY <1>11 DEF RejectExec
<1>12. CASE StartGuest(t)
  BY <1>12 DEF StartGuest
<1> QED BY <1>1, <1>2, <1>3, <1>4, <1>5, <1>6, <1>7, <1>8, <1>9, <1>10, <1>11, <1>12 DEF Setup

LEMMA FinishPhases ==
  ASSUME TypeOK, Phases, NEW t \in Session, Finish(t)
  PROVE  Phases' /\ pc[t] \notin {"new", "select"}
<1> USE DEF TypeOK, SetupTypes, WorldTypes, Phases, Goto, Executing, Closing,
            setupVars, endVars, reportVars, objectVars, worldVars
<1>1. CASE RunReturns(t)
  BY <1>1 DEF RunReturns
<1>2. CASE CloseProcess(t)
  BY <1>2 DEF CloseProcess
<1>3. CASE BeginCleanup(t)
  BY <1>3 DEF BeginCleanup
<1>4. CASE EndCleanup(t)
  BY <1>4 DEF EndCleanup, Reach, ApplyTeardown
<1>5. CASE RepeatCleanup(t)
  BY <1>5 DEF RepeatCleanup
<1>6. CASE CloseProxy(t)
  BY <1>6 DEF CloseProxy
<1>7. CASE RemoveDir(t)
  BY <1>7 DEF RemoveDir
<1>8. CASE Report(t)
  BY <1>8 DEF Report
<1>9. CASE AbortDir(t)
  BY <1>9 DEF AbortDir
<1> QED BY <1>1, <1>2, <1>3, <1>4, <1>5, <1>6, <1>7, <1>8, <1>9 DEF Finish

LEMMA OtherPhases ==
  ASSUME TypeOK, Phases, NEW t \in Session, KillGuest(t) \/ Environment(t)
  PROVE  Phases' /\ UNCHANGED <<carrier, opts, held, outcome, net>>
<1> USE DEF TypeOK, SetupTypes, WorldTypes, Phases, Goto, Executing, Closing,
            setupVars, endVars, reportVars, objectVars, worldVars
<1>1. CASE KillGuest(t)
  BY <1>1 DEF KillGuest
<1>2. CASE GuestExits(t)
  BY <1>2 DEF GuestExits
<1>3. CASE RunLeavesStrays(t)
  BY <1>3 DEF RunLeavesStrays
<1>4. CASE Close(t)
  BY <1>4 DEF Close
<1> QED BY <1>1, <1>2, <1>3, <1>4 DEF Environment

LEMMA StepPhases ==
  ASSUME TypeOK, Phases, NEW t \in Session, Step(t) \/ Environment(t)
  PROVE  /\ Phases'
         /\ pc[t] \in {"new", "select"} => UNCHANGED <<carrier, opts, held, outcome, net>>
  BY SetupPhases, FinishPhases, OtherPhases DEF Step

(***************************************************************************)
(* A lone session keeps its own phases.                                    *)
(***************************************************************************)
LEMMA LoneSetup ==
  ASSUME Inductive, NEW t \in Session, Setup(t), Owned(t)'
  PROVE  LonePhases(t)'
<1> DEFINE o == objectOf[t]
<1>1. /\ TypeOK /\ Phases /\ Untouched
      /\ Owned(t) => LonePhases(t)
  BY DEF Inductive, LonePhases
<1>2. Frame(t)
  BY <1>1, SetupFrame
<1>3. Owned(t) \/ (pc[t] = "select" /\ o = NoObject)
  BY <1>1, <1>2, OwnedBefore
<1>4. CASE pc[t] \in {"new", "select"}
  <2>1. SelectBackend(t) /\ objectOf'[t] \in Object
    BY <1>1, <1>3, <1>4
       DEF Setup, BuildSnapshot, SelectBackend, BeginTopology, CreateTopology, TopologyFails,
           OpenDir, LaunchProxy, VerifySnapshot, Prepare, PrepareFails, RejectExec, StartGuest,
           Phases, Owned, TypeOK, SetupTypes, setupVars
  <2>2. Untouched
    BY <1>1
  <2>3. \A s \in Session : objectOf[s] # objectOf'[t]
    BY <1>1, <1>2, <1>4, <2>1, ObjectsAssumption DEF Owned, Frame, SelfFrame, Phases
  <2>4. LET q == objectOf'[t] IN
          /\ outcome'[q] = "unset" /\ ~carrier'[q] /\ ~net'[q]
          /\ opts'[q] = NoSession /\ held'[q] = NoSession
    BY <2>1, <2>2, <2>3 DEF Untouched, SelectBackend, objectVars, worldVars
  <2>5. guest[t] = "none" /\ proxy[t] = "none"
    BY <1>1, <1>4 DEF Phases
  <2>6. /\ pc'[t] \in {"topology", "abortCleanup"}
        /\ guest'[t] = "none" /\ proxy'[t] = "none"
    <3>1. pc'[t] \in {"topology", "abortCleanup"}
      BY <1>1, <2>1, ObjectsAssumption DEF SelectBackend, Refuse, Goto, TypeOK, SetupTypes, Phases
    <3> QED BY <2>1, <2>5, <3>1 DEF SelectBackend, worldVars
  <2>7. ObjectPhase(t)'
    BY <2>4, <2>6 DEF ObjectPhase
  <2>8. ConfinePhase(t)'
    BY <2>6 DEF ConfinePhase
  <2>9. ContainPhase(t)'
    BY <2>6 DEF ContainPhase
  <2> QED BY <2>7, <2>8, <2>9 DEF LonePhases
<1>5. CASE pc[t] \notin {"new", "select"}
  <2> USE <1>5 DEF TypeOK, SetupTypes, EndTypes, ReportTypes, ObjectTypes, WorldTypes, Goto,
                   SettingUp, Executing, ObjectPhase, ConfinePhase, ContainPhase, LonePhases,
                   setupVars, endVars, reportVars, objectVars, worldVars
  <2>1. ObjectPhase(t) /\ ConfinePhase(t) /\ ContainPhase(t) /\ TypeOK /\ Phases
    BY <1>1, <1>3 DEF LonePhases
  <2>2. Owned(t) /\ o \in Object /\ guest[t] = "none"
    BY <1>1, <1>3, <2>1 DEF Owned, Phases, Setup, BeginTopology, CreateTopology, TopologyFails,
           OpenDir, LaunchProxy, VerifySnapshot, Prepare, PrepareFails, RejectExec, StartGuest,
           BuildSnapshot, SelectBackend, Closing
  <2>3. CASE BeginTopology(t)
    BY <2>1, <2>2, <2>3 DEF BeginTopology
  <2>4. CASE CreateTopology(t)
    BY <2>1, <2>2, <2>4 DEF CreateTopology
  <2>5. CASE TopologyFails(t)
    BY <2>1, <2>2, <2>5 DEF TopologyFails
  <2>6. CASE OpenDir(t)
    BY <2>1, <2>2, <2>6 DEF OpenDir
  <2>7. CASE LaunchProxy(t)
    BY <2>1, <2>2, <2>7 DEF LaunchProxy
  <2>8. CASE VerifySnapshot(t)
    BY <2>1, <2>2, <2>8 DEF VerifySnapshot, AfterVerify
  <2>9. CASE Prepare(t)
    BY <2>1, <2>2, <2>9 DEF Prepare
  <2>10. CASE PrepareFails(t)
    <3>0. guest'[t] # "running"
      <4>1. CASE UNCHANGED guest
        BY <2>2, <4>1
      <4>2. CASE \E d \in Teardown(o) : ApplyTeardown(o, d)
        BY <2>1, <2>2, <4>2 DEF ApplyTeardown
      <4> QED BY <2>10, <4>1, <4>2 DEF PrepareFails
    <3>1. /\ pc[t] = "prepare" /\ pc'[t] = "abortCleanup" /\ guest'[t] # "running"
          /\ UNCHANGED <<objectOf, verified, proxy, outcome, under>>
      BY <2>1, <2>2, <2>10, <3>0 DEF PrepareFails
    <3>2. /\ opts'[o] = opts[o] \/ opts'[o] = NoSession
          /\ held'[o] = held[o] \/ held'[o] = NoSession
      BY <2>1, <2>2, <2>10 DEF PrepareFails, ForgetState
    <3>3. ObjectPhase(t)'
      BY <2>1, <3>1, <3>2
    <3> QED BY <3>1, <3>3
  <2>11. CASE RejectExec(t)
    BY <2>1, <2>2, <2>11 DEF RejectExec
  <2>12. CASE StartGuest(t)
    BY <2>1, <2>2, <2>12, SessionsAssumption DEF StartGuest
  <2> QED BY <2>3, <2>4, <2>5, <2>6, <2>7, <2>8, <2>9, <2>10, <2>11, <2>12
          DEF Setup, BuildSnapshot, SelectBackend, LonePhases
<1> QED BY <1>4, <1>5

LEMMA LoneFinish ==
  ASSUME Inductive, NEW t \in Session, Finish(t), Owned(t)'
  PROVE  LonePhases(t)'
<1> DEFINE o == objectOf[t]
<1>1. TypeOK /\ Phases /\ pc[t] \notin {"new", "select"} /\ Frame(t)
  BY FinishPhases, FinishFrame DEF Inductive
<1>2. Owned(t)
  BY <1>1, OwnedBefore
<1>3. ObjectPhase(t) /\ ConfinePhase(t) /\ ContainPhase(t)
  BY <1>2 DEF Inductive
<1>4. o \in Object /\ (guest[t] # "none" => pc[t] \in Executing \cup Closing \cup {"done"})
  BY <1>1, <1>2 DEF Owned, Phases, TypeOK, SetupTypes
<1> USE <1>1, <1>3, <1>4
    DEF TypeOK, SetupTypes, EndTypes, ReportTypes, ObjectTypes, WorldTypes, Goto, SettingUp,
        Executing, Closing, ObjectPhase, ConfinePhase, ContainPhase, LonePhases,
        setupVars, endVars, reportVars, objectVars, worldVars
<1>5. CASE RunReturns(t)
  BY <1>5 DEF RunReturns
<1>6. CASE CloseProcess(t)
  <2>1. /\ pc[t] = "procClose" /\ pc'[t] = "cleanup"
        /\ guest'[t] = "running" => guest[t] = "running"
        /\ UNCHANGED <<objectOf, verified, proxy, output, under, outcome, carrier, opts, held, net>>
    <3>1. guest'[t] = "running" => guest[t] = "running"
      BY ONLY <1>1, <1>6 DEF CloseProcess, TypeOK, WorldTypes
    <3> QED BY <1>6, <3>1 DEF CloseProcess
  <2>2. ObjectPhase(t)'
    BY <2>1
  <2>3. ConfinePhase(t)'
    BY <2>1
  <2>4. ContainPhase(t)'
    BY <2>1
  <2> QED BY <2>2, <2>3, <2>4
<1>7. CASE BeginCleanup(t)
  <2>1. /\ \/ pc[t] = "cleanup" /\ pc'[t] = "teardown"
           \/ pc[t] = "abortCleanup" /\ pc'[t] = "abortTeardown"
        /\ outcome[o] = "unset" /\ outcome'[o] = "running"
        /\ UNCHANGED <<objectOf, verified, proxy, output, under, guest, opts, held, net>>
    BY <1>7 DEF BeginCleanup
  <2>2. ObjectPhase(t)'
    BY <2>1
  <2>3. ConfinePhase(t)'
    BY <2>1
  <2>4. ContainPhase(t)'
    BY <2>1
  <2> QED BY <2>2, <2>3, <2>4
<1>8. CASE EndCleanup(t)
  <2>1. PICK d \in Teardown(o) :
          /\ ApplyTeardown(o, d)
          /\ outcome' = [outcome EXCEPT ![o] = IF d.threw THEN "error" ELSE "ok"]
          /\ caught'  = [caught EXCEPT ![t] = pc[t] = "teardown" /\ d.threw]
    BY <1>8 DEF EndCleanup
  <2>2. /\ \/ pc[t] = "teardown" /\ pc'[t] = "closeProxy"
           \/ pc[t] = "abortTeardown" /\ pc'[t] = "abortProxy"
        /\ UNCHANGED <<objectOf, verified, proxy, output, under>>
    BY <1>8 DEF EndCleanup
  <2>3. outcome'[o] \in {"ok", "error"}
    <3>1. outcome'[o] = IF d.threw THEN "error" ELSE "ok"
      BY ONLY <1>1, <1>4, <2>1 DEF TypeOK, ObjectTypes
    <3> QED BY ONLY <3>1
  <2>4. /\ opts'[o] = opts[o] \/ opts'[o] = NoSession
        /\ held'[o] = held[o] \/ held'[o] = NoSession
    BY <1>8 DEF EndCleanup, ForgetState
  <2>5. ObjectPhase(t)'
    BY <2>2, <2>3, <2>4
  <2>6. guest'[t] = "running" => guest[t] = "running"
    BY <2>1 DEF ApplyTeardown
  <2>7. ConfinePhase(t)'
    BY <2>2, <2>3, <2>6
  <2>8. ContainPhase(t)'
    <3> SUFFICES ASSUME kindOf[o] = "os", guest'[t] = "running"
                 PROVE  pc'[t] = "closeProxy" /\ caught'[t]
      BY <2>2
    <3>1. pc[t] = "teardown" /\ held[o] = t /\ under[t] = t
      BY <2>2, <2>6
    <3>2. t \in Reach(o)
      BY <2>6, <3>1 DEF Reach
    <3>3. ~d.died
      BY <2>1, <3>2 DEF ApplyTeardown
    <3>4. d.threw
      BY <3>3 DEF Teardown
    <3>5. caught'[t]
      BY ONLY <1>1, <2>1, <3>1, <3>4 DEF TypeOK, EndTypes
    <3> QED BY ONLY <2>2, <3>1, <3>5
  <2> QED BY <2>5, <2>7, <2>8
<1>9. CASE RepeatCleanup(t)
  BY <1>9 DEF RepeatCleanup
<1>10. CASE CloseProxy(t)
  BY <1>10 DEF CloseProxy
<1>11. CASE RemoveDir(t)
  BY <1>11 DEF RemoveDir
<1>12. CASE Report(t)
  BY <1>12 DEF Report, RunOutput, SessionMeta
<1>13. CASE AbortDir(t)
  BY <1>13 DEF AbortDir
<1> QED BY <1>5, <1>6, <1>7, <1>8, <1>9, <1>10, <1>11, <1>12, <1>13 DEF Finish

LEMMA LoneOther ==
  ASSUME Inductive, NEW t \in Session, KillGuest(t) \/ Environment(t), Owned(t)'
  PROVE  LonePhases(t)'
<1> DEFINE o == objectOf[t]
<1>1. TypeOK /\ Phases /\ Frame(t)
  BY OtherFrame DEF Inductive
<1>2. UNCHANGED <<objectOf, carrier, opts, held, outcome, net, verified, proxy, caught, output, under>>
  <2> USE DEF setupVars, endVars, reportVars, objectVars, worldVars
  <2>1. CASE KillGuest(t)
    BY <2>1 DEF KillGuest
  <2>2. CASE GuestExits(t)
    BY <2>2 DEF GuestExits
  <2>3. CASE RunLeavesStrays(t)
    BY <2>3 DEF RunLeavesStrays
  <2>4. CASE Close(t)
    BY <2>4 DEF Close
  <2> QED BY <2>1, <2>2, <2>3, <2>4 DEF Environment
<1>3. Owned(t)
  BY <1>2 DEF Owned
<1>4. ObjectPhase(t) /\ ConfinePhase(t) /\ ContainPhase(t)
  BY <1>3 DEF Inductive
<1>5. /\ guest'[t] = "running" => guest[t] = "running"
      /\ \/ pc'[t] = pc[t]
         \/ pc[t] \in Executing /\ pc'[t] \in Executing \cup {"cleanup"}
  BY <1>1 DEF KillGuest, Environment, GuestExits, RunLeavesStrays, Close, TypeOK,
              WorldTypes, worldVars, Goto, Executing
<1> USE <1>2, <1>4, <1>5 DEF Executing, SettingUp
<1>6. ObjectPhase(t)'
  BY DEF ObjectPhase
<1>7. ConfinePhase(t)'
  BY DEF ConfinePhase
<1>8. ContainPhase(t)'
  BY DEF ContainPhase
<1> QED BY <1>6, <1>7, <1>8 DEF LonePhases

\* Inductive holds at first and every step keeps it.
LEMMA InitInductive == Init => Inductive
<1> SUFFICES ASSUME Init PROVE Inductive
  OBVIOUS
<1>1. TypeOK
  BY InitType
<1>2. Phases /\ Untouched
  BY DEF Init, Phases, Untouched
<1>3. \A s \in Session : ~Owned(s)
  BY DEF Init, Owned
<1> QED BY <1>1, <1>2, <1>3 DEF Inductive

LEMMA StepInductive == Inductive /\ [Next]_vars => Inductive'
<1> SUFFICES ASSUME Inductive, [Next]_vars PROVE Inductive'
  OBVIOUS
<1>1. CASE UNCHANGED vars
  <2> USE <1>1 DEF vars, setupVars, endVars, reportVars, objectVars, worldVars
  <2>1. TypeOK'
    BY UnchangedTypes DEF Inductive, TypeOK
  <2>2. Phases' /\ Untouched'
    BY DEF Inductive, Phases, Untouched
  <2>3. ASSUME NEW s \in Session, Owned(s)' PROVE LonePhases(s)'
    BY <2>3 DEF Inductive, Owned, LonePhases, ObjectPhase, ConfinePhase, ContainPhase
  <2> QED BY <2>1, <2>2, <2>3 DEF Inductive, LonePhases
<1>2. ASSUME NEW t \in Session, Step(t) \/ Environment(t)
      PROVE  Inductive'
  <2>1. TypeOK /\ Phases /\ Untouched
    BY DEF Inductive
  <2>2. TypeOK' /\ Phases' /\ Frame(t)
    BY <1>2, <2>1, StepType, StepPhases, StepFrame
  <2>3. Untouched'
    BY <1>2, <2>1, <2>2, StepPhases, UntouchedKept
  <2>4. ASSUME NEW s \in Session, Owned(s)' PROVE LonePhases(s)'
    <3>1. CASE s = t
      BY <1>2, <2>4, <3>1, LoneSetup, LoneFinish, LoneOther DEF Step
    <3>2. CASE s # t
      BY <2>2, <2>4, <3>2, OthersKeep
    <3> QED BY <3>1, <3>2
  <2> QED BY <2>2, <2>3, <2>4 DEF Inductive, LonePhases
<1> QED BY <1>1, <1>2 DEF Next

(***************************************************************************)
(* What holds of every run of the orchestrator, for any sessions, objects  *)
(* and kinds of object.                                                    *)
(***************************************************************************)

\* The invariant behind the others: where a session stands decides what its
\* backend object, its guest and its proxy may be.
THEOREM RunnerInductive == Spec => []Inductive
<1>1. Init => Inductive
  BY InitInductive
<1>2. Inductive /\ [Next]_vars => Inductive'
  BY StepInductive
<1> QED BY <1>1, <1>2, PTL DEF Spec

\* Every variable of the runner keeps its type.
THEOREM RunnerTypeOK == Spec => []TypeOK
<1>1. Inductive => TypeOK
  BY DEF Inductive
<1> QED BY <1>1, RunnerInductive, PTL

\* ContainmentHonest, about doClose() and run(): a guest on the backend that
\* records every failed kill does not outlive its session under a meta of full.
THEOREM RunnerContainmentHonest == Spec => []ContainmentHonest
<1>1. Inductive => ContainmentHonest
  BY DEF Inductive, ContainmentHonest, ContainPhase, Enforced
<1> QED BY <1>1, RunnerInductive, PTL

\* GuestConfined, about prepareSession(): a guest runs on a verified snapshot,
\* under its own options, with its network and its proxy up.
THEOREM RunnerGuestConfined == Spec => []GuestConfined
<1>1. Inductive => GuestConfined
  BY DEF Inductive, GuestConfined, ConfinePhase
<1> QED BY <1>1, RunnerInductive, PTL

\* TeardownBeforeProxy, the order pinned in run(), doClose() and the abort
\* path: the proxy outlives the teardown of the backend.
THEOREM RunnerTeardownBeforeProxy == Spec => []TeardownBeforeProxy
<1>1. Inductive => TeardownBeforeProxy
  BY DEF Inductive, TeardownBeforeProxy, ObjectPhase
<1> QED BY <1>1, RunnerInductive, PTL

(***************************************************************************)
(* The course of a session: its events, its places and its end, whoever    *)
(* shares its backend.                                                     *)
(***************************************************************************)
OwnFrame(t) ==
  \A s \in Session \ {t} :
    /\ dir'[s] = dir[s] /\ result'[s] = result[s] /\ soft'[s] = soft[s]
    /\ emitted'[s] = emitted[s] /\ killing'[s] = killing[s]

LEMMA SetupOwn ==
  ASSUME TypeOK, NEW t \in Session, Setup(t)
  PROVE  OwnFrame(t)
<1> USE DEF TypeOK, SetupTypes, EndTypes, ReportTypes, WorldTypes, OwnFrame,
            setupVars, endVars, reportVars, objectVars, worldVars
<1>1. CASE BuildSnapshot(t)
  BY <1>1 DEF BuildSnapshot
<1>2. CASE SelectBackend(t)
  BY <1>2 DEF SelectBackend
<1>3. CASE BeginTopology(t)
  BY <1>3 DEF BeginTopology
<1>4. CASE CreateTopology(t)
  BY <1>4 DEF CreateTopology
<1>5. CASE TopologyFails(t)
  BY <1>5 DEF TopologyFails
<1>6. CASE OpenDir(t)
  BY <1>6 DEF OpenDir
<1>7. CASE LaunchProxy(t)
  BY <1>7 DEF LaunchProxy
<1>8. CASE VerifySnapshot(t)
  BY <1>8 DEF VerifySnapshot
<1>9. CASE Prepare(t)
  BY <1>9 DEF Prepare
<1>10. CASE PrepareFails(t)
  BY <1>10 DEF PrepareFails
<1>11. CASE RejectExec(t)
  BY <1>11 DEF RejectExec
<1>12. CASE StartGuest(t)
  BY <1>12 DEF StartGuest
<1> QED BY <1>1, <1>2, <1>3, <1>4, <1>5, <1>6, <1>7, <1>8, <1>9, <1>10, <1>11, <1>12 DEF Setup

LEMMA FinishOwn ==
  ASSUME TypeOK, NEW t \in Session, Finish(t)
  PROVE  OwnFrame(t)
<1> USE DEF TypeOK, SetupTypes, EndTypes, ReportTypes, WorldTypes, OwnFrame,
            setupVars, endVars, reportVars, objectVars, worldVars
<1>1. CASE RunReturns(t)
  BY <1>1 DEF RunReturns
<1>2. CASE CloseProcess(t)
  BY <1>2 DEF CloseProcess
<1>3. CASE BeginCleanup(t)
  BY <1>3 DEF BeginCleanup
<1>4. CASE EndCleanup(t)
  BY <1>4 DEF EndCleanup
<1>5. CASE RepeatCleanup(t)
  BY <1>5 DEF RepeatCleanup
<1>6. CASE CloseProxy(t)
  BY <1>6 DEF CloseProxy
<1>7. CASE RemoveDir(t)
  BY <1>7 DEF RemoveDir, SoftAfter
<1>8. CASE Report(t)
  BY <1>8 DEF Report, FinalEvent
<1>9. CASE AbortDir(t)
  BY <1>9 DEF AbortDir
<1> QED BY <1>1, <1>2, <1>3, <1>4, <1>5, <1>6, <1>7, <1>8, <1>9 DEF Finish

LEMMA OtherOwn ==
  ASSUME TypeOK, NEW t \in Session, KillGuest(t) \/ Environment(t)
  PROVE  OwnFrame(t)
<1> USE DEF TypeOK, SetupTypes, EndTypes, ReportTypes, WorldTypes, OwnFrame,
            setupVars, endVars, reportVars, objectVars, worldVars
<1>1. CASE KillGuest(t)
  BY <1>1 DEF KillGuest
<1>2. CASE GuestExits(t)
  BY <1>2 DEF GuestExits
<1>3. CASE RunLeavesStrays(t)
  BY <1>3 DEF RunLeavesStrays
<1>4. CASE Close(t)
  BY <1>4 DEF Close
<1> QED BY <1>1, <1>2, <1>3, <1>4 DEF Environment

LEMMA Appends ==
  Append(<<>>, "final") = <<"final">> /\ Append(<<"created">>, "final") = <<"created", "final">>
<1>1. Append(<<>>, "final") = <<"final">>
  OBVIOUS
<1>2. Append(<<"created">>, "final") = <<"created", "final">>
  <2> DEFINE both == Append(<<"created">>, "final")
  <2>1. <<"created">> \in Seq({"created", "final"}) /\ Len(<<"created">>) = 1
    OBVIOUS
  <2>2. /\ both \in Seq({"created", "final"}) /\ Len(both) = 2
        /\ both[1] = "created" /\ both[2] = "final"
    BY <2>1
  <2> HIDE DEF both
  <2>3. both = <<"created", "final">>
    BY <2>2
  <2> QED BY <2>3 DEF both
<1> QED BY <1>1, <1>2

LEMMA OthersCourse ==
  ASSUME TypeOK, Course, NEW t \in Session, Frame(t), OwnFrame(t), NEW s \in Session \ {t}
  PROVE  (Events(s) /\ Places(s) /\ Ends(s))'
<1>1. /\ pc'[s] = pc[s] /\ proxy'[s] = proxy[s] /\ output'[s] = output[s] /\ under'[s] = under[s]
      /\ dir'[s] = dir[s] /\ result'[s] = result[s] /\ soft'[s] = soft[s]
      /\ emitted'[s] = emitted[s] /\ killing'[s] = killing[s]
      /\ guest'[s] = guest[s] \/ (guest[s] = "running" /\ guest'[s] = "gone")
  BY DEF Frame, SelfFrame, GuestFrame, OwnFrame
<1>2. Events(s) /\ Places(s) /\ Ends(s)
  BY DEF Course
<1>3. Events(s)'
  BY <1>1, <1>2 DEF Events, Opened, Full
<1>4. Places(s)'
  BY <1>1, <1>2 DEF Places
<1>5. Ends(s)'
  BY <1>1, <1>2 DEF Ends
<1> QED BY <1>3, <1>4, <1>5

LEMMA SetupCourse ==
  ASSUME TypeOK, Course, NEW t \in Session, Setup(t)
  PROVE  (Events(t) /\ Places(t) /\ Ends(t))'
<1>1. TypeOK /\ Events(t) /\ Places(t) /\ Ends(t)
  BY DEF Course
<1> USE <1>1 DEF TypeOK, SetupTypes, EndTypes, ReportTypes, WorldTypes, Goto, Claim,
            SettingUp, Executing, Closing, Aborting, Events, Places, Ends, Opened, Full,
            setupVars, endVars, reportVars, objectVars, worldVars
<1>2. CASE BuildSnapshot(t)
  <2>1. Events(t)' /\ Places(t)'
    BY <1>2 DEF BuildSnapshot, Refuse
  <2>2. /\ pc'[t] = "done" \/ output'[t] = output[t]
        /\ output'[t] = output[t] \/ ~output'[t].success
        /\ guest'[t] = "none" /\ result'[t] = result[t]
        /\ pc[t] \in SettingUp /\ pc'[t] \in SettingUp \cup Aborting \cup {"done"}
    BY <1>2 DEF BuildSnapshot, Refuse
  <2>3. Ends(t)'
    BY ONLY <1>1, <2>2 DEF Ends, SettingUp, Executing, Aborting, Claim
  <2> QED BY <2>1, <2>3
<1>3. CASE SelectBackend(t)
  <2>1. Events(t)' /\ Places(t)'
    BY <1>3 DEF SelectBackend, Refuse
  <2>2. /\ pc'[t] = "done" \/ output'[t] = output[t]
        /\ output'[t] = output[t] \/ ~output'[t].success
        /\ guest'[t] = "none" /\ result'[t] = result[t]
        /\ pc[t] \in SettingUp /\ pc'[t] \in SettingUp \cup Aborting \cup {"done"}
    BY <1>3 DEF SelectBackend, Refuse
  <2>3. Ends(t)'
    BY ONLY <1>1, <2>2 DEF Ends, SettingUp, Executing, Aborting, Claim
  <2> QED BY <2>1, <2>3
<1>4. CASE BeginTopology(t)
  BY <1>4 DEF BeginTopology
<1>5. CASE CreateTopology(t)
  BY <1>5 DEF CreateTopology
<1>6. CASE TopologyFails(t)
  BY <1>6 DEF TopologyFails
<1>7. CASE OpenDir(t)
  BY <1>7 DEF OpenDir
<1>8. CASE LaunchProxy(t)
  <2>1. Events(t)'
    BY <1>8 DEF LaunchProxy
  <2>2. /\ pc[t] = "launch" /\ pc'[t] \in {"verify", "abortCleanup"}
        /\ pc'[t] = "verify" => proxy'[t] = "up"
        /\ UNCHANGED <<dir, guest, soft>>
    BY <1>8 DEF LaunchProxy
  <2>3. Places(t)'
    BY ONLY <1>1, <2>2 DEF Places, SettingUp, Aborting, Executing
  <2>4. Ends(t)'
    BY <1>8 DEF LaunchProxy
  <2> QED BY <2>1, <2>3, <2>4
<1>9. CASE VerifySnapshot(t)
  BY <1>9 DEF VerifySnapshot, AfterVerify
<1>10. CASE Prepare(t)
  BY <1>10 DEF Prepare
<1>11. CASE PrepareFails(t)
  BY <1>11 DEF PrepareFails, ApplyTeardown, Reach
<1>12. CASE RejectExec(t)
  BY <1>12 DEF RejectExec
<1>13. CASE StartGuest(t)
  BY <1>13 DEF StartGuest
<1> QED BY <1>2, <1>3, <1>4, <1>5, <1>6, <1>7, <1>8, <1>9, <1>10, <1>11, <1>12, <1>13 DEF Setup

LEMMA FinishCourse ==
  ASSUME TypeOK, Course, NEW t \in Session, Finish(t)
  PROVE  (Events(t) /\ Places(t) /\ Ends(t))'
<1>1. TypeOK /\ Events(t) /\ Places(t) /\ Ends(t)
  BY DEF Course
<1> USE <1>1 DEF TypeOK, SetupTypes, EndTypes, ReportTypes, WorldTypes, Goto, Claim,
            SettingUp, Executing, Closing, Aborting, Events, Places, Ends, Opened, Full,
            setupVars, endVars, reportVars, objectVars, worldVars
<1>2. CASE RunReturns(t)
  BY <1>2 DEF RunReturns, Results, Settled
<1>3. CASE CloseProcess(t)
  BY <1>3 DEF CloseProcess
<1>4. CASE BeginCleanup(t)
  BY <1>4 DEF BeginCleanup
<1>5. CASE EndCleanup(t)
  BY <1>5 DEF EndCleanup, ApplyTeardown, Reach
<1>6. CASE RepeatCleanup(t)
  BY <1>6 DEF RepeatCleanup
<1>7. CASE CloseProxy(t)
  BY <1>7 DEF CloseProxy
<1>8. CASE RemoveDir(t)
  <2>1. Events(t)'
    BY <1>8 DEF RemoveDir
  <2>2. /\ pc[t] = "removeDir" /\ pc'[t] = "report" /\ proxy'[t] = proxy[t]
        /\ dir'[t] = IF soft'[t] THEN "left" ELSE "removed"
    BY <1>8 DEF RemoveDir, SoftAfter
  <2>3. Places(t)'
    BY ONLY <1>1, <2>2 DEF Places, SettingUp, Aborting, Executing
  <2>4. UNCHANGED <<result, guest, killing, under, output>>
    BY <1>8 DEF RemoveDir
  <2>5. Ends(t)'
    BY ONLY <1>1, <2>2, <2>4 DEF Ends, SettingUp, Executing, Claim
  <2> QED BY <2>1, <2>3, <2>5
<1>9. CASE Report(t)
  <2>1. Append(<<>>, "final") = <<"final">> /\ Append(<<"created">>, "final") = <<"created", "final">>
    BY Appends
  <2>2. emitted'[t] = Append(emitted[t], "final") /\ pc'[t] = "done"
    BY <1>9 DEF Report, FinalEvent
  <2>8. pc[t] = "report"
    BY <1>9 DEF Report
  <2>3. Events(t)'
    <3>1. emitted[t] = Opened(t)
      BY <2>8
    <3> QED BY ONLY <2>1, <2>2, <3>1 DEF Events, Opened, Full, SettingUp, Aborting, Executing, Closing
  <2>4. Places(t)'
    BY <1>9, <2>2 DEF Report
  <2>5. output'[t] = IF t \in Run THEN RunOutput(t) ELSE SessionMeta(t)
    BY <1>9 DEF Report
  <2>6. /\ t \in Run /\ output'[t].success => result[t] = "ok"
        /\ output'[t].meta = "none" => output'[t].degraded
        /\ ~output'[t].degraded => ~soft[t]
    <3>1. caught[t] \in BOOLEAN /\ soft[t] \in BOOLEAN
      OBVIOUS
    <3> DEFINE lost == result[t] = "lost"
    <3>2. /\ output'[t].meta     = IF caught[t] \/ lost THEN "none" ELSE "full"
          /\ output'[t].degraded = (caught[t] \/ soft[t] \/ lost)
          /\ t \in Run => output'[t].success = (~caught[t] /\ result[t] = "ok")
      BY ONLY <2>5, <3>1 DEF RunOutput, SessionMeta
    <3> QED BY ONLY <3>1, <3>2
  <2>7. Ends(t)'
    BY <1>9, <2>2, <2>6 DEF Report
  <2> QED BY <2>3, <2>4, <2>7
<1>10. CASE AbortDir(t)
  BY <1>10 DEF AbortDir
<1> QED BY <1>2, <1>3, <1>4, <1>5, <1>6, <1>7, <1>8, <1>9, <1>10 DEF Finish

LEMMA OtherCourse ==
  ASSUME TypeOK, Course, NEW t \in Session, KillGuest(t) \/ Environment(t)
  PROVE  (Events(t) /\ Places(t) /\ Ends(t))'
<1>1. TypeOK /\ Events(t) /\ Places(t) /\ Ends(t)
  BY DEF Course
<1> USE <1>1 DEF TypeOK, SetupTypes, EndTypes, ReportTypes, WorldTypes, Goto, Claim,
            SettingUp, Executing, Closing, Aborting, Events, Places, Ends, Opened, Full,
            setupVars, endVars, reportVars, objectVars, worldVars
<1>2. CASE KillGuest(t)
  BY <1>2 DEF KillGuest
<1>3. CASE GuestExits(t)
  BY <1>3 DEF GuestExits
<1>4. CASE RunLeavesStrays(t)
  BY <1>4 DEF RunLeavesStrays, Results
<1>5. CASE Close(t)
  BY <1>5 DEF Close
<1> QED BY <1>2, <1>3, <1>4, <1>5 DEF Environment

LEMMA StepCourse ==
  ASSUME Inductive, Course, NEW t \in Session, Step(t) \/ Environment(t)
  PROVE  Course'
<1>1. TypeOK /\ Frame(t)
  BY StepFrame DEF Inductive
<1>2. OwnFrame(t)
  BY <1>1, SetupOwn, FinishOwn, OtherOwn DEF Step
<1>3. (Events(t) /\ Places(t) /\ Ends(t))'
  BY <1>1, SetupCourse, FinishCourse, OtherCourse DEF Step
<1>4. ASSUME NEW s \in Session \ {t} PROVE (Events(s) /\ Places(s) /\ Ends(s))'
  BY <1>1, <1>2, OthersCourse
<1> QED BY <1>3, <1>4 DEF Course

\* Only the start of its guest decides under whose options a session runs,
\* and a session alone on its object finds its own there.
LEMMA StepOwnOptions ==
  ASSUME Inductive, Course, OwnOptions, NEW t \in Session, Step(t) \/ Environment(t)
  PROVE  OwnOptions'
<1>1. TypeOK /\ Phases /\ Frame(t)
  BY StepFrame DEF Inductive
<1> SUFFICES ASSUME NEW s \in Session, Owned(s)', guest'[s] # "none"
             PROVE  under'[s] \in {s, NoSession}
  BY DEF OwnOptions
<1>2. CASE s # t
  <2>1. Owned(s)
    BY <1>1, <1>2, OwnedBefore
  <2>2. guest[s] # "none" /\ under'[s] = under[s]
    BY <1>1, <1>2 DEF Frame, GuestFrame, SelfFrame
  <2> QED BY <2>1, <2>2 DEF OwnOptions
<1>3. CASE s = t /\ StartGuest(t)
  <2>1. Owned(t) /\ pc[t] = "exec"
    BY <1>1, <1>3, OwnedBefore DEF StartGuest
  <2>2. opts[objectOf[t]] = t
    BY <2>1 DEF Inductive, ObjectPhase
  <2> QED BY <1>1, <1>3, <2>2 DEF StartGuest, TypeOK, WorldTypes
<1>4. CASE s = t /\ ~StartGuest(t)
  <2>1. under' = under
    BY <1>4 DEF Step, Setup, Finish, KillGuest, Environment, BuildSnapshot, SelectBackend,
         BeginTopology, CreateTopology, TopologyFails, OpenDir, LaunchProxy, VerifySnapshot,
         Prepare, PrepareFails, RejectExec, RunReturns, CloseProcess, BeginCleanup, EndCleanup,
         RepeatCleanup, CloseProxy, RemoveDir, Report, AbortDir, GuestExits, RunLeavesStrays,
         Close, worldVars
  <2>2. guest[t] # "none"
    <3>1. CASE CloseProcess(t)
      BY <3>1 DEF CloseProcess, Course, Places, Executing
    <3>2. CASE RunLeavesStrays(t) \/ KillGuest(t) \/ GuestExits(t)
      BY <3>2 DEF RunLeavesStrays, KillGuest, GuestExits
    <3>3. CASE EndCleanup(t)
      BY <1>1, <1>4, <3>3 DEF EndCleanup, ApplyTeardown, Reach
    <3>4. CASE PrepareFails(t)
      BY <1>1, <1>4, <3>4 DEF PrepareFails, ApplyTeardown, Reach
    <3>5. CASE guest' = guest
      BY <1>4, <3>5
    <3> QED BY <1>4, <3>1, <3>2, <3>3, <3>4, <3>5
            DEF Step, Setup, Finish, Environment, BuildSnapshot, SelectBackend,
         BeginTopology, CreateTopology, TopologyFails, OpenDir, LaunchProxy, VerifySnapshot,
         Prepare, RejectExec, RunReturns, BeginCleanup, RepeatCleanup, CloseProxy, RemoveDir,
         Report, AbortDir, Close, worldVars
  <2>3. pc[t] # "select"
    BY <1>1, <2>2 DEF Phases, Executing, Closing
  <2>4. Owned(t)
    BY <1>1, <1>4, <2>3, OwnedBefore
  <2> QED BY <1>4, <2>1, <2>2, <2>4 DEF OwnOptions
<1> QED BY <1>2, <1>3, <1>4

\* A run of a session alone on its object counts as good only once its guest
\* has ended: what is left in the cgroup the object holds fails the run.
LEMMA StepOwnEnd ==
  ASSUME Inductive, Course, OwnEnd, NEW t \in Session, Step(t) \/ Environment(t)
  PROVE  OwnEnd'
<1>1. TypeOK /\ Phases /\ Frame(t) /\ Places(t) /\ Ends(t)
  BY StepFrame DEF Inductive, Course
<1>2. OwnFrame(t)
  BY <1>1, SetupOwn, FinishOwn, OtherOwn DEF Step
<1> SUFFICES ASSUME NEW s \in Run, Owned(s)', result'[s] = "ok"
             PROVE  guest'[s] = "gone"
  BY DEF OwnEnd
<1>3. s \in Session
  BY DEF Session
<1>4. CASE s # t
  <2>1. Owned(s) /\ result[s] = "ok"
    BY <1>1, <1>2, <1>3, <1>4, OwnedBefore DEF OwnFrame
  <2>2. guest[s] = "gone"
    BY <2>1 DEF OwnEnd
  <2> QED BY <1>1, <1>3, <1>4, <2>2 DEF Frame, GuestFrame
<1>5. CASE s = t /\ RunReturns(t)
  <2>1. killing[t] = "no" /\ Settled(t) /\ guest' = guest
    BY <1>1, <1>5 DEF RunReturns, Results, TypeOK, EndTypes, worldVars
  <2> QED BY <1>5, <2>1 DEF Settled
<1>6. CASE s = t /\ RunLeavesStrays(t)
  <2>1. /\ pc[t] \in Executing /\ guest[t] = "running"
        /\ kindOf[objectOf[t]] = "os" /\ objectOf' = objectOf
    BY <1>6 DEF RunLeavesStrays, Executing, setupVars
  <2>2. Owned(t)
    BY <1>6, <2>1 DEF Owned
  <2>3. under[t] = t /\ held[objectOf[t]] = t
    BY <1>3, <1>6, <2>1, <2>2 DEF Inductive, ConfinePhase, ContainPhase
  <2>4. t \in Reach(objectOf[t])
    BY <2>1, <2>3 DEF Reach
  <2>5. result'[t] = "threw"
    BY <1>1, <1>6, <2>4 DEF RunLeavesStrays, TypeOK, EndTypes
  <2> QED BY <1>6, <2>5
<1>7. CASE s = t /\ CloseProcess(t)
  BY <1>1, <1>7 DEF CloseProcess, Places
<1>8. CASE s = t /\ Setup(t)
  <2>1. pc[t] \in SettingUp /\ result[t] = "none"
    BY <1>1, <1>8 DEF Setup, BuildSnapshot, SelectBackend, BeginTopology, CreateTopology,
         TopologyFails, OpenDir, LaunchProxy, VerifySnapshot, Prepare, PrepareFails,
         RejectExec, StartGuest, SettingUp, Ends
  <2>2. CASE RejectExec(t)
    BY <1>1, <1>8, <2>2 DEF RejectExec, TypeOK, EndTypes
  <2>3. CASE result' = result
    BY <1>8, <2>1, <2>3
  <2> QED BY <1>8, <2>2, <2>3 DEF Setup, BuildSnapshot, SelectBackend, BeginTopology,
               CreateTopology, TopologyFails, OpenDir, LaunchProxy, VerifySnapshot, Prepare,
               PrepareFails, StartGuest, Refuse, endVars
<1>9. CASE s = t /\ (KillGuest(t) \/ GuestExits(t) \/ Close(t))
  BY <1>1, <1>9 DEF KillGuest, GuestExits, Close, Ends, Executing, Places, OwnEnd, Owned, Frame,
       GuestFrame, TypeOK, WorldTypes, setupVars, endVars, worldVars
<1>10. CASE s = t /\ Finish(t) /\ ~RunReturns(t) /\ ~CloseProcess(t)
  <2>1. pc[t] \in Closing \cup Aborting /\ result' = result
    BY <1>10 DEF Finish, BeginCleanup, EndCleanup, RepeatCleanup, CloseProxy, RemoveDir,
         Report, AbortDir, endVars, Closing, Aborting
  <2>2. Owned(t)
    BY <1>1, <1>10, <2>1, OwnedBefore DEF Closing, Aborting
  <2>3. guest[t] = "gone"
    BY <1>10, <2>1, <2>2 DEF OwnEnd
  <2>4. CASE EndCleanup(t)
    BY <1>1, <1>3, <1>10, <2>3, <2>4 DEF EndCleanup, ApplyTeardown, TypeOK, WorldTypes
  <2>5. CASE guest' = guest
    BY <1>10, <2>3, <2>5
  <2> QED BY <1>10, <2>4, <2>5 DEF Finish, BeginCleanup, RepeatCleanup, CloseProxy,
               RemoveDir, Report, AbortDir, worldVars
<1> QED BY <1>4, <1>5, <1>6, <1>7, <1>8, <1>9, <1>10 DEF Step, Environment

(***************************************************************************)
(* The runner implements IsolationPromise.                                 *)
(***************************************************************************)

\* A step that ends no session, starts no guest and selects no backend: some
\* guests may stop, which the promise allows at any time.
LEMMA QuietStep ==
  ASSUME TypeOK, UNCHANGED <<objectOf, output>>,
         \A s \in Session : pc'[s] = "done" <=> pc[s] = "done",
         \A s \in Session : guest'[s] = guest[s] \/ (guest[s] = "running" /\ guest'[s] = "gone")
  PROVE  Promise!Next
<1> DEFINE gone == {s \in Session : guest'[s] # "running"}
<1>1. Promise!Stop(gone)
  BY DEF Promise!Stop, Owned, Enforced
<1>2. gone \in SUBSET Session
  OBVIOUS
<1> HIDE DEF gone
<1> QED BY <1>1, <1>2 DEF Promise!Next, Promise!Stop

\* A session that ends without a guest is refused, whatever it claims.
LEMMA RefusedStep ==
  ASSUME TypeOK, TypeOK', NEW t \in Session, UNCHANGED <<objectOf, guest>>,
         guest[t] = "none", pc[t] # "done", pc' = [pc EXCEPT ![t] = "done"],
         \A s \in Session \ {t} : output'[s] = output[s]
  PROVE  Promise!Next
<1> DEFINE level == output'[t].meta
<1>1. level \in {"unset", "none", "full"}
  BY DEF TypeOK, ReportTypes, Output, Level
<1>2. Promise!Refuse(t, level)
  BY DEF Promise!Refuse, TypeOK, Owned, Enforced
<1> HIDE DEF level
<1> QED BY <1>1, <1>2 DEF Promise!Next, Promise!Refuse

\* A session that ends with a guest claims what its guest's end allows.
LEMMA OverStep ==
  ASSUME TypeOK, Inductive', NEW t \in Session, UNCHANGED <<objectOf, guest>>,
         guest[t] # "none", pc[t] # "done", pc' = [pc EXCEPT ![t] = "done"],
         \A s \in Session \ {t} : output'[s] = output[s]
  PROVE  Promise!Next
<1> DEFINE level == output'[t].meta
<1>1. level \in {"unset", "none", "full"}
  BY DEF Inductive, TypeOK, ReportTypes, Output, Level
<1>2. pc'[t] = "done"
  BY DEF TypeOK
<1>3. Enforced(t) /\ guest[t] = "running" => level = "none"
  <2> SUFFICES ASSUME Enforced(t), guest[t] = "running" PROVE level = "none"
    OBVIOUS
  <2>1. Owned(t)' /\ kindOf[objectOf'[t]] = "os" /\ guest'[t] = "running"
    BY DEF Enforced, Owned
  <2>2. ContainPhase(t)'
    BY <2>1 DEF Inductive
  <2> QED BY <1>2, <2>1, <2>2 DEF ContainPhase
<1>4. Promise!Finish(t, level)
  BY <1>3 DEF Promise!Finish, TypeOK, Owned, Enforced
<1> HIDE DEF level
<1> QED BY <1>1, <1>4 DEF Promise!Next, Promise!Finish

\* A backend is selected: only the session itself may come under the promise.
LEMMA BindStep ==
  ASSUME TypeOK, Phases, NEW t \in Session, Frame(t), pc[t] = "select",
         UNCHANGED <<guest, output>>, pc'[t] # "done"
  PROVE  Promise!Next
<1> DEFINE new == {s \in Session : Enforced(s)'}
<1>1. ASSUME NEW s \in Session, Enforced(s)', ~Enforced(s) PROVE s = t
  <2>1. CASE s # t
    BY <1>1, <2>1, OwnedBefore DEF Enforced, Frame, SelfFrame
  <2> QED BY <2>1
<1>2. guest[t] = "none" /\ pc[t] # "done"
  BY DEF Phases
<1>3. \A s \in Session : pc'[s] = "done" <=> pc[s] = "done"
  BY DEF Frame, SelfFrame
<1>4. Promise!Bind(new)
  BY <1>1, <1>2, <1>3 DEF Promise!Bind
<1>5. new \in SUBSET Session
  OBVIOUS
<1> QED BY <1>4, <1>5 DEF Promise!Next

LEMMA ActivateStep ==
  ASSUME TypeOK, Phases, NEW t \in Session, StartGuest(t)
  PROVE  Promise!Next
<1> DEFINE lives == ~NameTaken(objectOf[t])
<1>1. guest[t] = "none" /\ pc[t] # "done" /\ pc'[t] # "done"
  BY DEF StartGuest, Phases, Executing, Closing, TypeOK, Goto
<1>2. Enforced(t) => lives
  BY DEF Enforced, NameTaken
<1>3. UNCHANGED <<objectOf, output>>
  BY DEF StartGuest, setupVars
<1>4. \A s \in Session \ {t} : pc'[s] = pc[s] /\ guest'[s] = guest[s]
  BY DEF StartGuest, TypeOK, Goto, WorldTypes
<1>5. guest'[t] = IF lives THEN "running" ELSE "gone"
  BY DEF StartGuest, TypeOK, WorldTypes
<1>6. Promise!Activate(t, lives)
  BY <1>1, <1>2, <1>3, <1>4, <1>5 DEF Promise!Activate, Owned, Enforced
<1>7. lives \in BOOLEAN
  BY DEF NameTaken
<1> HIDE DEF lives
<1> QED BY <1>6, <1>7 DEF Promise!Next, Promise!Activate

LEMMA SetupPromised ==
  ASSUME Inductive, Inductive', NEW t \in Session, Setup(t)
  PROVE  Promise!Next
<1>1. TypeOK /\ Phases /\ TypeOK' /\ Phases' /\ Frame(t)
  BY SetupFrame DEF Inductive
<1>2. guest[t] = "none" /\ pc[t] # "done"
  BY <1>1 DEF Phases, Executing, Closing, Setup, BuildSnapshot, SelectBackend, BeginTopology,
       CreateTopology, TopologyFails, OpenDir, LaunchProxy, VerifySnapshot, Prepare,
       PrepareFails, RejectExec, StartGuest
<1>3. CASE pc'[t] = "done"
  <2>1. UNCHANGED <<objectOf, guest>> /\ pc' = [pc EXCEPT ![t] = "done"]
    BY <1>1, <1>3 DEF Setup, BuildSnapshot, SelectBackend, BeginTopology, CreateTopology,
         TopologyFails, OpenDir, LaunchProxy, VerifySnapshot, AfterVerify, Prepare, PrepareFails,
         RejectExec, StartGuest, Refuse, Goto, TypeOK, setupVars, worldVars
  <2> QED BY <1>1, <1>2, <2>1, RefusedStep DEF Frame, SelfFrame
<1>4. CASE StartGuest(t)
  BY <1>1, <1>4, ActivateStep
<1>5. CASE pc'[t] # "done" /\ SelectBackend(t)
  <2>1. UNCHANGED <<guest, output>>
    BY <1>1, <1>5 DEF SelectBackend, Refuse, Goto, TypeOK, worldVars
  <2> QED BY <1>1, <1>5, <2>1, BindStep DEF SelectBackend
<1>6. CASE pc'[t] # "done" /\ ~SelectBackend(t) /\ ~StartGuest(t)
  <2>1. UNCHANGED <<objectOf, output>>
    BY <1>1, <1>6 DEF Setup, BuildSnapshot, BeginTopology, CreateTopology,
         TopologyFails, OpenDir, LaunchProxy, VerifySnapshot, Prepare, PrepareFails,
         RejectExec, Refuse, Goto, TypeOK, setupVars, reportVars
  <2>2. guest'[t] = guest[t]
    <3>1. CASE PrepareFails(t)
      BY <1>1, <1>2, <3>1 DEF PrepareFails, ApplyTeardown, Reach
    <3>2. CASE ~PrepareFails(t)
      BY <1>6, <3>2 DEF Setup, BuildSnapshot, BeginTopology, CreateTopology,
         TopologyFails, OpenDir, LaunchProxy, VerifySnapshot, Prepare, RejectExec, worldVars
    <3> QED BY <3>1, <3>2
  <2>3. \A s \in Session : pc'[s] = "done" <=> pc[s] = "done"
    BY <1>1, <1>2, <1>6 DEF Frame, SelfFrame
  <2>4. \A s \in Session : guest'[s] = guest[s] \/ (guest[s] = "running" /\ guest'[s] = "gone")
    BY <1>1, <2>2 DEF Frame, GuestFrame
  <2> QED BY <1>1, <2>1, <2>3, <2>4, QuietStep
<1> QED BY <1>3, <1>4, <1>5, <1>6

LEMMA FinishPromised ==
  ASSUME Inductive, Inductive', Course, NEW t \in Session, Finish(t)
  PROVE  Promise!Next
<1>1. TypeOK /\ Phases /\ TypeOK' /\ Frame(t)
  BY FinishFrame DEF Inductive
<1>2. CASE Report(t) \/ AbortDir(t)
  <2>1. /\ UNCHANGED <<objectOf, guest>>
        /\ pc[t] # "done" /\ pc' = [pc EXCEPT ![t] = "done"]
    BY <1>2 DEF Report, AbortDir, Goto, setupVars, worldVars
  <2>2. \A s \in Session \ {t} : output'[s] = output[s]
    BY <1>1 DEF Frame, SelfFrame
  <2> QED BY <1>1, <2>1, <2>2, RefusedStep, OverStep
<1>3. CASE ~Report(t) /\ ~AbortDir(t)
  <2>1. UNCHANGED <<objectOf, output>> /\ pc[t] # "done" /\ pc'[t] # "done"
    BY <1>1, <1>3 DEF Finish, RunReturns, CloseProcess, BeginCleanup, EndCleanup,
         RepeatCleanup, CloseProxy, RemoveDir, Goto, TypeOK, setupVars, reportVars
  <2>2. guest'[t] = guest[t] \/ (guest[t] = "running" /\ guest'[t] = "gone")
    <3>1. CASE CloseProcess(t)
      <4>1. guest[t] \in {"running", "gone"}
        BY <1>1, <3>1 DEF CloseProcess, Course, Places, Executing, TypeOK, WorldTypes
      <4> QED BY <1>1, <3>1, <4>1 DEF CloseProcess, TypeOK, WorldTypes
    <3>2. CASE EndCleanup(t)
      BY <1>1, <3>2 DEF EndCleanup, ApplyTeardown, Reach
    <3>3. CASE ~CloseProcess(t) /\ ~EndCleanup(t)
      BY <1>3, <3>3 DEF Finish, RunReturns, BeginCleanup, RepeatCleanup, CloseProxy, RemoveDir,
           worldVars
    <3> QED BY <3>1, <3>2, <3>3
  <2>3. \A s \in Session : pc'[s] = "done" <=> pc[s] = "done"
    BY <1>1, <2>1 DEF Frame, SelfFrame
  <2>4. \A s \in Session : guest'[s] = guest[s] \/ (guest[s] = "running" /\ guest'[s] = "gone")
    BY <1>1, <2>2 DEF Frame, GuestFrame
  <2> QED BY <1>1, <2>1, <2>3, <2>4, QuietStep
<1> QED BY <1>2, <1>3

LEMMA OtherPromised ==
  ASSUME Inductive, NEW t \in Session, KillGuest(t) \/ Environment(t)
  PROVE  Promise!Next
<1>1. TypeOK /\ Frame(t)
  BY OtherFrame DEF Inductive
<1>2. /\ UNCHANGED <<objectOf, output>>
      /\ pc[t] # "done" => pc'[t] # "done"
      /\ pc[t] = "done" => pc'[t] = "done"
      /\ guest'[t] = guest[t] \/ (guest[t] = "running" /\ guest'[t] = "gone")
  BY <1>1 DEF KillGuest, Environment, GuestExits, RunLeavesStrays, Close, Executing, Goto, TypeOK,
              WorldTypes, setupVars, reportVars, worldVars
<1>3. \A s \in Session : pc'[s] = "done" <=> pc[s] = "done"
  BY <1>1, <1>2 DEF Frame, SelfFrame
<1>4. \A s \in Session : guest'[s] = guest[s] \/ (guest[s] = "running" /\ guest'[s] = "gone")
  BY <1>1, <1>2 DEF Frame, GuestFrame
<1> QED BY <1>1, <1>2, <1>3, <1>4, QuietStep

\* What the theorems about the end of a session rest on.
Whole == Inductive /\ Course /\ OwnOptions /\ OwnEnd

LEMMA InitWhole == Init => Whole
<1> SUFFICES ASSUME Init PROVE Whole
  OBVIOUS
<1>1. Course
  BY DEF Init, Course, Events, Places, Ends, Claim, SettingUp, Executing, Closing, Aborting
<1>2. OwnOptions /\ OwnEnd
  BY DEF Init, OwnOptions, OwnEnd, Session
<1> QED BY <1>1, <1>2, InitInductive DEF Whole

LEMMA StepWhole == Whole /\ [Next]_vars => Whole'
<1> SUFFICES ASSUME Whole, [Next]_vars PROVE Whole'
  OBVIOUS
<1>1. Inductive'
  BY StepInductive DEF Whole
<1>2. CASE UNCHANGED vars
  <2> USE <1>2 DEF vars, setupVars, endVars, reportVars, objectVars, worldVars
  <2>1. Course'
    BY DEF Whole, Course, Events, Places, Ends, Opened, Full
  <2>2. OwnOptions' /\ OwnEnd'
    BY DEF Whole, OwnOptions, OwnEnd, Owned
  <2> QED BY <1>1, <2>1, <2>2 DEF Whole
<1>3. CASE Next
  BY <1>1, <1>3, StepCourse, StepOwnOptions, StepOwnEnd DEF Whole, Next
<1> QED BY <1>2, <1>3

LEMMA RunnerWhole == Spec => []Whole
  BY InitWhole, StepWhole, PTL DEF Spec

\* EndsInOrder, about the events and the clean-up at the end of run(), spawn()
\* and doClose(), for any sessions that share their backends in any way.
THEOREM RunnerEndsInOrder == Spec => []EndsInOrder
<1>1. Whole => EndsInOrder
  <2> SUFFICES ASSUME Whole, NEW s \in Session
               PROVE  LET full == IF s \in Run THEN <<"final">> ELSE <<"created", "final">> IN
                      /\ pc[s] = "done" => /\ emitted[s] \in {<<>>, full}
                                           /\ proxy[s] # "up" /\ dir[s] # "made"
                      /\ pc[s] # "done" => emitted[s] # full
                      /\ pc[s] = "done" /\ guest[s] # "none" => emitted[s] = full
    BY DEF EndsInOrder
  <2>1. Events(s) /\ Places(s) /\ pc[s] \in Label
    BY DEF Whole, Course, Inductive, TypeOK
  <2>2. Full(s) # <<>> /\ Full(s) # Opened(s)
    <3>1. <<"final">> # <<>> /\ <<"created", "final">> # <<>> /\ <<"created", "final">> # <<"created">>
      OBVIOUS
    <3> QED BY <3>1 DEF Full, Opened
  <2>3. pc[s] # "done" => emitted[s] \in {<<>>, Opened(s)}
    BY <2>1 DEF Events, Label
  <2> QED BY <2>1, <2>2, <2>3 DEF Events, Places, Full
<1> QED BY <1>1, RunnerWhole, PTL

\* SuccessEarned, about toRunOutput(): a success is that of a guest of the
\* session's own options that ended by itself.
THEOREM RunnerSuccessEarned == Spec => []SuccessEarned
<1>1. Whole => SuccessEarned
  BY SessionsAssumption DEF Whole, SuccessEarned, Course, Ends, OwnOptions, OwnEnd, Session
<1> QED BY <1>1, RunnerWhole, PTL

\* CleanReport, about the degraded flag of toRunOutput() and doClose().
THEOREM RunnerCleanReport == Spec => []CleanReport
<1>1. Whole => CleanReport
  <2> SUFFICES ASSUME Whole, NEW s \in Session, Enforced(s), pc[s] = "done",
                      guest[s] # "none", ~output[s].degraded
               PROVE  guest[s] = "gone" /\ proxy[s] = "closed" /\ dir[s] = "removed"
    BY DEF CleanReport
  <2>1. Ends(s) /\ ContainPhase(s) /\ guest[s] \in {"running", "gone"}
    BY DEF Whole, Course, Inductive, Enforced, TypeOK, WorldTypes
  <2> QED BY <2>1 DEF Ends, ContainPhase, Enforced
<1> QED BY <1>1, RunnerWhole, PTL

\* IsolationPromised: the runner implements the promise, for any sessions and
\* objects: the promise's initial state, and every step one of the promise.
THEOREM RunnerKeepsPromise == Spec => IsolationPromised
<1>1. Init => Promise!Init
  <2> SUFFICES ASSUME Init PROVE Promise!Init
    OBVIOUS
  <2>1. \A s \in Session : ~Enforced(s)
    BY DEF Init, Owned, Enforced
  <2>2. \A s \in Session : pc[s] = "new" /\ guest[s] = "none" /\ output[s].meta = "unset"
    BY DEF Init, Claim
  <2> QED BY <2>1, <2>2 DEF Promise!Init
<1>2. Whole /\ Whole' /\ [Next]_vars => [Promise!Next]_(Promise!vars)
  <2> SUFFICES ASSUME Whole, Whole', [Next]_vars PROVE [Promise!Next]_(Promise!vars)
    OBVIOUS
  <2>1. CASE UNCHANGED vars
    BY <2>1 DEF vars, setupVars, reportVars, worldVars, Promise!vars, Owned, Enforced
  <2>2. CASE Next
    BY <2>2, SetupPromised, FinishPromised, OtherPromised DEF Next, Step, Whole
  <2> QED BY <2>1, <2>2
<1> QED BY <1>1, <1>2, RunnerWhole, PTL DEF Spec, IsolationPromised, Promise!Spec
----------------------------------------------------------------------------
(***************************************************************************)
(* What of liveness is a matter of single steps: a session only moves on.  *)
(***************************************************************************)

\* How far on its way a session is.
Rank(l) ==
  CASE l = "new"       -> 0
    [] l = "select"    -> 1
    [] l = "topology"  -> 2
    [] l = "create"    -> 3
    [] l = "openDir"   -> 4
    [] l = "launch"    -> 5
    [] l = "verify"    -> 6
    [] l = "prepare"   -> 7
    [] l = "exec"      -> 8
    [] l \in {"wait", "open"}               -> 9
    [] l = "procClose" -> 10
    [] l \in {"cleanup", "abortCleanup"}    -> 11
    [] l \in {"teardown", "abortTeardown"}  -> 12
    [] l \in {"closeProxy", "abortProxy"}   -> 13
    [] l \in {"removeDir", "abortDir"}      -> 14
    [] l = "report"    -> 15
    [] OTHER           -> 16

MovesOn(s)     == pc'[s] = pc[s] \/ Rank(pc[s]) < Rank(pc'[s])
ReportStays(s) == pc[s] = "done" => pc'[s] = "done" /\ output'[s] = output[s] /\ emitted'[s] = emitted[s]

LEMMA SetupMovesOn ==
  ASSUME TypeOK, NEW t \in Session, Setup(t)
  PROVE  pc[t] # "done" /\ Rank(pc[t]) < Rank(pc'[t])
<1> USE DEF Goto, TypeOK
<1>1. CASE BuildSnapshot(t)
  BY <1>1 DEF BuildSnapshot, Refuse, Rank
<1>2. CASE SelectBackend(t)
  BY <1>2 DEF SelectBackend, Refuse, Rank
<1>3. CASE BeginTopology(t)
  BY <1>3 DEF BeginTopology, Rank
<1>4. CASE CreateTopology(t)
  BY <1>4 DEF CreateTopology, Rank
<1>5. CASE TopologyFails(t)
  BY <1>5 DEF TopologyFails, Rank
<1>6. CASE OpenDir(t)
  BY <1>6 DEF OpenDir, Rank
<1>7. CASE LaunchProxy(t)
  BY <1>7 DEF LaunchProxy, Rank
<1>8. CASE VerifySnapshot(t)
  BY <1>8 DEF VerifySnapshot, AfterVerify, Rank
<1>9. CASE Prepare(t)
  BY <1>9 DEF Prepare, Rank
<1>10. CASE PrepareFails(t)
  BY <1>10 DEF PrepareFails, Rank
<1>11. CASE RejectExec(t)
  BY <1>11 DEF RejectExec, Rank
<1>12. CASE StartGuest(t)
  BY <1>12 DEF StartGuest, Rank
<1> QED BY <1>1, <1>2, <1>3, <1>4, <1>5, <1>6, <1>7, <1>8, <1>9, <1>10, <1>11, <1>12 DEF Setup

LEMMA FinishMovesOn ==
  ASSUME TypeOK, NEW t \in Session, Finish(t)
  PROVE  pc[t] # "done" /\ Rank(pc[t]) < Rank(pc'[t])
<1> USE DEF Goto, TypeOK
<1>1. CASE RunReturns(t)
  BY <1>1 DEF RunReturns, Rank
<1>2. CASE CloseProcess(t)
  BY <1>2 DEF CloseProcess, Rank
<1>3. CASE BeginCleanup(t)
  BY <1>3 DEF BeginCleanup, Rank
<1>4. CASE EndCleanup(t)
  BY <1>4 DEF EndCleanup, Rank
<1>5. CASE RepeatCleanup(t)
  BY <1>5 DEF RepeatCleanup, Rank
<1>6. CASE CloseProxy(t)
  BY <1>6 DEF CloseProxy, Rank
<1>7. CASE RemoveDir(t)
  BY <1>7 DEF RemoveDir, Rank
<1>8. CASE Report(t)
  BY <1>8 DEF Report, Rank
<1>9. CASE AbortDir(t)
  BY <1>9 DEF AbortDir, Rank
<1> QED BY <1>1, <1>2, <1>3, <1>4, <1>5, <1>6, <1>7, <1>8, <1>9 DEF Finish

\* A kill and the guest's own end leave the session where it is.
LEMMA OtherMovesOn ==
  ASSUME TypeOK, NEW t \in Session, KillGuest(t) \/ Environment(t)
  PROVE  MovesOn(t) /\ ReportStays(t)
<1> USE DEF Goto, TypeOK, MovesOn, ReportStays
<1>1. CASE KillGuest(t)
  BY <1>1 DEF KillGuest, reportVars
<1>2. CASE GuestExits(t)
  BY <1>2 DEF GuestExits, reportVars
<1>3. CASE RunLeavesStrays(t)
  BY <1>3 DEF RunLeavesStrays, Rank
<1>4. CASE Close(t)
  BY <1>4 DEF Close, Rank
<1> QED BY <1>1, <1>2, <1>3, <1>4 DEF Environment

\* A session never goes round, whoever shares its backend object: a step
\* leaves it where it is or takes it further, so it comes to a new stage at
\* most sixteen times; and what an ended session has reported, and the events
\* it has emitted, are final.  RunSettles says when it comes to its end.
THEOREM RunnerMovesOn == Spec => [][\A s \in Session : MovesOn(s) /\ ReportStays(s)]_vars
<1>1. Inductive /\ [Next]_vars => [\A s \in Session : MovesOn(s) /\ ReportStays(s)]_vars
  <2> SUFFICES ASSUME Inductive, NEW t \in Session, Step(t) \/ Environment(t), NEW s \in Session
               PROVE  MovesOn(s) /\ ReportStays(s)
    BY DEF Next
  <2> USE DEF Inductive
  <2>1. CASE s = t
    <3>1. CASE Setup(t)
      BY <2>1, <3>1, SetupMovesOn DEF MovesOn, ReportStays
    <3>2. CASE Finish(t)
      BY <2>1, <3>2, FinishMovesOn DEF MovesOn, ReportStays
    <3>3. CASE KillGuest(t) \/ Environment(t)
      BY <2>1, <3>3, OtherMovesOn
    <3> QED BY <3>1, <3>2, <3>3 DEF Step
  <2>2. CASE s # t
    <3>1. Frame(t) /\ OwnFrame(t)
      BY StepFrame, SetupOwn, FinishOwn, OtherOwn DEF Step
    <3> QED BY <2>2, <3>1 DEF MovesOn, ReportStays, Frame, SelfFrame, OwnFrame
  <2> QED BY <2>1, <2>2
<1> QED BY <1>1, RunnerInductive, PTL DEF Spec
=============================================================================
