--------------------------- MODULE ServicesProofs ---------------------------
(***************************************************************************)
(* The parts of Services that serve skills - execution, plans, chains,     *)
(* routing, the registry's cache, ratings, evolution and installation -    *)
(* and the promises of all parts, by theme, for every value of the         *)
(* constants.                                                              *)
(***************************************************************************)
EXTENDS HostServicesProofs

(***************************************************************************)
(* The execution of a skill.  Up to the run nobody has heard of the call;  *)
(* from the adapter's result on, the outcome and what was told of it       *)
(* agree, but for an HTTP error found after the metrics.                   *)
(***************************************************************************)
Unrun == {"guard", "ask", "invoke", "run"}
SettledAt == {"validate", "emit", "diagnose"}

SettledWell ==
  /\ outcome \in Exec!Verdicts
  /\ \/ metrics = <<outcome>> /\ shown = outcome
     \/ metrics = <<"ok">> /\ outcome = "failed" /\ Exec!EmbedsError(body)
  /\ validated.ok => outcome = "ok" /\ manifest.validator
  /\ outcome = "ok" => ran = 1 /\ body \in Exec!Bodies /\ ~Exec!EmbedsError(body)

ExecStages ==
  /\ at \in Unrun => /\ metrics = <<>> /\ ran = 0 /\ body = "none" /\ ~validated.ok
                    /\ outcome = "none" /\ shown = "none"
  /\ at \notin {"diagnose", "done"} => completed = <<>>
  /\ at # "done" => signal = <<>> /\ answer = "none"
  /\ at \notin {"guard", "done"} =>
       ~manifest.keysMissing /\ ~manifest.binsMissing /\ manifest.adapter # "composed"
  /\ at \in SettledAt => SettledWell
  /\ at = "validate" => outcome = "ok" /\ manifest.validator
  /\ at = "diagnose" => completed = <<[verdict |-> outcome, valid |-> validated.ok]>>

ExecInv == Exec!ExecTypeOK /\ ExecStages /\ Exec!ObserversAgree /\ Exec!SuccessRan

LEMMA ExecStarts == Exec!ExecInit => ExecInv
BY DEF Exec!ExecInit, ExecInv, Exec!ExecTypeOK, ExecStages, Unrun, SettledAt, Exec!ObserversAgree,
       Exec!Executed, Exec!SuccessRan, Exec!Verdicts

\* Until a call is over nobody's word can differ from its caller's.
LEMMA UnansweredAgrees ==
  ASSUME Exec!ExecTypeOK', ExecStages', at' # "done"
  PROVE  ExecInv'
<1>1. answer' = "none"
  BY DEF ExecStages
<1>2. Exec!ObserversAgree'
  BY <1>1 DEF Exec!ObserversAgree, Exec!Executed, Exec!Verdicts
<1>3. (manifest.keysMissing \/ manifest.binsMissing)' => ran' = 0 /\ metrics' = <<>>
  BY DEF ExecStages, Unrun
<1>4. Exec!SuccessRan'
  BY <1>1, <1>3 DEF Exec!SuccessRan, Exec!Executed
<1> QED BY <1>2, <1>4 DEF ExecInv

\* The adapter's result arrives.
LEMMA ReportedWell ==
  ASSUME ExecInv, at \in {"ask", "invoke", "run"}, NEW v \in Exec!Verdicts,
         NEW b, Exec!Reported(v, b),
         path' \in {"adapter", "command", "curl"}, ran' \in 0..1,
         body' \in Exec!Bodies \cup {"none", "failure"},
         v = "ok" => ran' = 1 /\ body' = b /\ b \in Exec!Bodies
  PROVE  ExecInv'
<1> DEFINE final == IF v = "ok" /\ Exec!EmbedsError(b) THEN "failed" ELSE v
<1>1. /\ metrics' = Append(metrics, v) /\ shown' = v /\ outcome' = final
      /\ validated'.ok = FALSE
      /\ at' = IF final = "ok" /\ manifest.validator THEN "validate" ELSE "emit"
      /\ UNCHANGED <<manifest, llm, completed, answer, signal>>
  BY DEF Exec!Reported, Exec!Formatted
<1>2. metrics' = <<v>> /\ completed = <<>> /\ signal = <<>> /\ answer = "none"
  <2>1. metrics = <<>> /\ completed = <<>> /\ signal = <<>> /\ answer = "none"
    BY DEF ExecInv, ExecStages, Unrun
  <2>2. Append(<<>>, v) = <<v>>
    OBVIOUS
  <2> QED BY <1>1, <2>1, <2>2
<1>3. v \in {"ok", "failed"} /\ final \in {"ok", "failed"} /\ (final # v => final = "failed" /\ v = "ok")
  BY DEF Exec!Verdicts
<1>4. Exec!ExecTypeOK'
  BY <1>1, <1>2, <1>3 DEF ExecInv, Exec!ExecTypeOK, Exec!Verdicts
<1>5. SettledWell'
  <2>1. outcome' \in Exec!Verdicts /\ validated'.ok = FALSE
    BY <1>1, <1>3 DEF Exec!Verdicts
  <2>2. \/ metrics' = <<outcome'>> /\ shown' = outcome'
        \/ metrics' = <<"ok">> /\ outcome' = "failed" /\ Exec!EmbedsError(body')
    BY <1>1, <1>2, <1>3
  <2>3. outcome' = "ok" => ran' = 1 /\ body' \in Exec!Bodies /\ ~Exec!EmbedsError(body')
    BY <1>1, <1>3
  <2> QED BY <2>1, <2>2, <2>3 DEF SettledWell, Exec!EmbedsError
<1>6. at' \in {"validate", "emit"} /\ (at' = "validate" => outcome' = "ok" /\ manifest'.validator)
  BY <1>1
<1>7. ~manifest'.keysMissing /\ ~manifest'.binsMissing /\ manifest'.adapter # "composed"
  BY <1>1 DEF ExecInv, ExecStages
<1>8. ExecStages'
  BY <1>1, <1>2, <1>5, <1>6, <1>7 DEF ExecStages, Unrun, SettledAt
<1> QED BY <1>4, <1>6, <1>8, UnansweredAgrees

\* Its metrics cannot be saved.
LEMMA UnsavedAgrees ==
  ASSUME ExecInv, at \in {"ask", "invoke", "run"}, NEW v \in Exec!Verdicts, Exec!Unsaved(v),
         path' \in {"adapter", "command", "curl"}, ran' \in 0..1,
         body' \in Exec!Bodies \cup {"none", "failure"},
         v = "ok" => ran' = 1 /\ body' \in Exec!Bodies
  PROVE  ExecInv'
<1>1. /\ metrics' = Append(metrics, v) /\ outcome' = v /\ signal' \in {signal, Append(signal, v)}
      /\ at' = "done" /\ answer' = "thrown"
      /\ UNCHANGED <<manifest, llm, shown, validated, completed>>
  BY DEF Exec!Unsaved, Exec!Recorded
<1>2. /\ metrics = <<>> /\ signal = <<>> /\ completed = <<>> /\ shown = "none" /\ ~validated.ok
      /\ ~manifest.keysMissing /\ ~manifest.binsMissing /\ manifest.adapter # "composed"
  BY DEF ExecInv, ExecStages, Unrun
<1>3. metrics' = <<v>> /\ signal' \in {<<>>, <<v>>} /\ v \in {"ok", "failed"}
  BY <1>1, <1>2 DEF Exec!Verdicts
<1>4. Exec!ExecTypeOK'
  BY <1>1 DEF ExecInv, Exec!ExecTypeOK
<1>5. ExecStages'
  BY <1>1, <1>2 DEF ExecStages, Unrun, SettledAt
<1>6. Exec!ObserversAgree' /\ Exec!SuccessRan'
  <2>1. ~Exec!Executed'
    BY <1>1 DEF Exec!Executed, Exec!Verdicts
  <2>2. Exec!Heard(metrics', v) /\ outcome' # "none" /\ (Exec!Heard(metrics', "ok") => v = "ok")
    BY <1>1, <1>3 DEF Exec!Heard
  <2> QED BY <1>1, <1>2, <1>3, <2>1, <2>2 DEF Exec!ObserversAgree, Exec!SuccessRan, Exec!Heard
<1> QED BY <1>4, <1>5, <1>6 DEF ExecInv

LEMMA SettlesWell ==
  ASSUME ExecInv, at \in {"ask", "invoke", "run"}, NEW v \in Exec!Verdicts,
         NEW b, Exec!Settle(v, b), ran' \in 0..1,
         body' \in Exec!Bodies \cup {"none", "failure"},
         v = "ok" => ran' = 1 /\ body' = b /\ b \in Exec!Bodies
  PROVE  ExecInv'
<1>1. (Exec!Reported(v, b) \/ Exec!Unsaved(v)) /\ path' \in {"adapter", "command", "curl"}
  BY DEF Exec!Settle, ExecInv, Exec!ExecTypeOK
<1> QED BY <1>1, ReportedWell, UnsavedAgrees

LEMMA ThrowAgrees ==
  ASSUME ExecInv, at \in {"ask", "run"}, Exec!Throw, ran' \in 0..1,
         body' \in Exec!Bodies \cup {"none", "failure"}
  PROVE  ExecInv'
<1>1. /\ metrics' = Append(metrics, "failed") /\ signal' \in {signal, Append(signal, "failed")}
      /\ at' = "done" /\ answer' = "thrown"
      /\ UNCHANGED <<manifest, llm, path, shown, outcome, validated, completed>>
  BY DEF Exec!Throw, Exec!Recorded
<1>2. /\ metrics = <<>> /\ signal = <<>> /\ completed = <<>> /\ outcome = "none" /\ shown = "none"
      /\ ~validated.ok
      /\ ~manifest.keysMissing /\ ~manifest.binsMissing /\ manifest.adapter # "composed"
  BY DEF ExecInv, ExecStages, Unrun
<1>3. metrics' = <<"failed">> /\ signal' \in {<<>>, <<"failed">>}
  BY <1>1, <1>2
<1>4. Exec!ExecTypeOK'
  BY <1>1 DEF ExecInv, Exec!ExecTypeOK
<1>5. ExecStages'
  BY <1>1, <1>2 DEF ExecStages, Unrun, SettledAt
<1>6. Exec!ObserversAgree' /\ Exec!SuccessRan'
  <2>1. ~Exec!Executed'
    BY <1>1 DEF Exec!Executed, Exec!Verdicts
  <2>2. Exec!Heard(metrics', "failed") /\ ~Exec!Heard(metrics', "ok")
    BY <1>3 DEF Exec!Heard
  <2> QED BY <1>1, <1>2, <1>3, <2>1, <2>2 DEF Exec!ObserversAgree, Exec!SuccessRan
<1> QED BY <1>4, <1>5, <1>6 DEF ExecInv

\* The call is over before the skill has run.
LEMMA EarlyAnswer ==
  ASSUME ExecInv, at = "guard", NEW a \in Exec!Verdicts \cup {"keysMissing", "binsMissing", "thrown"},
         Exec!Answer(a), a \in Exec!Verdicts => manifest.adapter = "composed"
  PROVE  ExecInv'
<1>1. /\ at' = "done" /\ answer' = a
      /\ UNCHANGED <<manifest, llm, path, ran, body, outcome, metrics, shown, validated, completed, signal>>
  BY DEF Exec!Answer
<1>2. metrics = <<>> /\ ran = 0
  BY DEF ExecInv, ExecStages, Unrun
<1>3. Exec!ExecTypeOK'
  BY <1>1 DEF ExecInv, Exec!ExecTypeOK
<1>4. ExecStages'
  BY <1>1 DEF ExecStages, Unrun, SettledAt
<1>5. Exec!ObserversAgree' /\ Exec!SuccessRan'
  BY <1>1, <1>2 DEF Exec!ObserversAgree, Exec!SuccessRan, Exec!Executed
<1> QED BY <1>3, <1>4, <1>5 DEF ExecInv

LEMMA KeepsGoing ==
  ASSUME ExecInv, at \in {"ask", "invoke"}, NEW to \in {"invoke", "run"},
         NEW how \in {"adapter", "command", "curl"}, Exec!Keeps(to, how)
  PROVE  ExecInv'
<1>1. /\ at' = to /\ path' = how
      /\ UNCHANGED <<manifest, llm, ran, body, outcome, metrics, shown, validated, completed, signal, answer>>
  BY DEF Exec!Keeps
<1>2. Exec!ExecTypeOK'
  BY <1>1 DEF ExecInv, Exec!ExecTypeOK
<1>3. ExecStages'
  BY <1>1 DEF ExecInv, ExecStages, Unrun, SettledAt
<1> QED BY <1>1, <1>2, <1>3, UnansweredAgrees

LEMMA FailsAgrees ==
  ASSUME ExecInv, at \in {"ask", "invoke"}, Exec!Fails PROVE ExecInv'
<1>1. Exec!Settle("failed", "none") /\ UNCHANGED <<ran, body>>
  BY DEF Exec!Fails
<1>2. ran \in 0..1 /\ body \in Exec!Bodies \cup {"none", "failure"}
  BY DEF ExecInv, Exec!ExecTypeOK
<1> QED BY <1>1, <1>2, SettlesWell DEF Exec!Verdicts

LEMMA AskFailsAgrees ==
  ASSUME ExecInv, at = "ask", Exec!AskFails PROVE ExecInv'
<1>1. ran \in 0..1 /\ body \in Exec!Bodies \cup {"none", "failure"}
  BY DEF ExecInv, Exec!ExecTypeOK
<1> QED BY <1>1, FailsAgrees, ThrowAgrees DEF Exec!AskFails

LEMMA RunAgrees == ASSUME ExecInv, Exec!Run PROVE ExecInv'
<1>1. at = "run" /\ ran' = ran + 1 /\ ran' = 1 /\ ran' \in 0..1
  BY DEF Exec!Run, ExecInv, ExecStages, Unrun
<1>3. ASSUME NEW b \in Exec!Bodies, NEW accepted \in BOOLEAN, body' = b,
             Exec!Settle(IF accepted THEN "ok" ELSE "failed", b)
      PROVE  ExecInv'
  <2>1. (IF accepted THEN "ok" ELSE "failed") \in Exec!Verdicts
    BY DEF Exec!Verdicts
  <2> QED BY <1>1, <1>3, <2>1, SettlesWell
<1>4. CASE body' = "failure" /\ Exec!Settle("failed", "failure")
  BY <1>1, <1>4, SettlesWell DEF Exec!Verdicts
<1>5. CASE Exec!Throw /\ body' = "none"
  BY <1>1, <1>5, ThrowAgrees
<1> QED BY <1>3, <1>4, <1>5 DEF Exec!Run

LEMMA ValidateAgrees == ASSUME ExecInv, Exec!Validate PROVE ExecInv'
<1>1. /\ at = "validate" /\ at' = "emit" /\ validated'.ok \in BOOLEAN
      /\ UNCHANGED <<manifest, llm, path, ran, body, outcome, metrics, shown, completed, signal, answer>>
  <2>1. \/ validated' = [ok |-> TRUE, reason |-> "none"]
        \/ \E r : validated' = [ok |-> FALSE, reason |-> r]
    BY Zenon DEF Exec!Validate
  <2>2. validated'.ok \in BOOLEAN
    <3>1. CASE validated' = [ok |-> TRUE, reason |-> "none"]
      <4>1. validated'.ok = TRUE
        BY <3>1
      <4> QED BY <4>1
    <3>2. CASE \E r : validated' = [ok |-> FALSE, reason |-> r]
      <4>1. PICK r : validated' = [ok |-> FALSE, reason |-> r]
        BY <3>2
      <4>2. validated'.ok = FALSE
        BY <4>1
      <4> QED BY <4>2
    <3> QED BY <2>1, <3>1, <3>2
  <2> QED BY <2>2 DEF Exec!Validate
<1>2. Exec!ExecTypeOK'
  BY <1>1 DEF ExecInv, Exec!ExecTypeOK
<1>3. SettledWell'
  BY <1>1 DEF ExecInv, ExecStages, SettledWell, SettledAt, Exec!EmbedsError
<1>4. ExecStages'
  BY <1>1, <1>3 DEF ExecInv, ExecStages, Unrun, SettledAt
<1> QED BY <1>1, <1>2, <1>4, UnansweredAgrees

LEMMA EmitAgrees == ASSUME ExecInv, Exec!Emit PROVE ExecInv'
<1>1. /\ at = "emit" /\ at' = "diagnose"
      /\ completed' = Append(completed, [verdict |-> outcome, valid |-> validated.ok])
      /\ UNCHANGED <<manifest, llm, path, ran, body, outcome, metrics, shown, validated, signal, answer>>
  BY DEF Exec!Emit
<1>2. completed' = <<[verdict |-> outcome, valid |-> validated.ok]>>
  BY <1>1 DEF ExecInv, ExecStages
<1>3. Exec!ExecTypeOK'
  BY <1>1 DEF ExecInv, Exec!ExecTypeOK
<1>4. SettledWell'
  BY <1>1 DEF ExecInv, ExecStages, SettledWell, SettledAt, Exec!EmbedsError
<1>5. ExecStages'
  BY <1>1, <1>2, <1>4 DEF ExecInv, ExecStages, Unrun, SettledAt
<1> QED BY <1>1, <1>3, <1>5, UnansweredAgrees

LEMMA ReturnAgrees == ASSUME ExecInv, Exec!Return PROVE ExecInv'
<1>1. /\ at = "diagnose" /\ at' = "done" /\ answer' = outcome
      /\ signal' \in {signal, Append(signal, outcome)}
      /\ UNCHANGED <<manifest, llm, path, ran, body, outcome, metrics, shown, validated, completed>>
  BY DEF Exec!Return, Exec!Recorded
<1>2. /\ signal = <<>> /\ completed = <<[verdict |-> outcome, valid |-> validated.ok]>> /\ SettledWell
      /\ ~manifest.keysMissing /\ ~manifest.binsMissing
  BY <1>1 DEF ExecInv, ExecStages, SettledAt
<1>3. signal' \in {<<>>, <<outcome>>}
  BY <1>1, <1>2
<1>4. Exec!ExecTypeOK'
  BY <1>1, <1>2 DEF ExecInv, Exec!ExecTypeOK, SettledWell
<1>5. ExecStages'
  BY <1>1, <1>2 DEF ExecStages, Unrun, SettledAt
<1>6. answer' # "thrown"
  BY <1>1, <1>2 DEF SettledWell, Exec!Verdicts
<1>7. Exec!ObserversAgree'
  BY <1>1, <1>2, <1>3, <1>6 DEF SettledWell, Exec!ObserversAgree, Exec!Executed, Exec!Heard, Exec!EmbedsError
<1>8. Exec!SuccessRan'
  BY <1>1, <1>2 DEF SettledWell, Exec!SuccessRan, Exec!Executed, Exec!EmbedsError
<1> QED BY <1>4, <1>5, <1>7, <1>8 DEF ExecInv

LEMMA ExecKeeps == ExecInv /\ [Exec!ExecNext]_(Exec!execVars) => ExecInv'
<1> SUFFICES ASSUME ExecInv, [Exec!ExecNext]_(Exec!execVars) PROVE ExecInv'
  OBVIOUS
<1>1. CASE UNCHANGED Exec!execVars
  BY <1>1 DEF Exec!execVars, ExecInv, Exec!ExecTypeOK, ExecStages, SettledWell, Exec!ObserversAgree,
              Exec!Executed, Exec!SuccessRan
<1>2. CASE Exec!GuardKeys
  BY <1>2, EarlyAnswer DEF Exec!GuardKeys, Exec!Verdicts
<1>3. CASE Exec!GuardBins
  BY <1>3, EarlyAnswer DEF Exec!GuardBins, Exec!Verdicts
<1>4. CASE Exec!Compose
  BY <1>4, EarlyAnswer DEF Exec!Compose, Exec!Runnable
<1>5. CASE Exec!Unreadable
  BY <1>5, EarlyAnswer DEF Exec!Unreadable, Exec!Runnable, Exec!Verdicts
<1>6. CASE Exec!Choose
  <2>1. /\ at = "guard" /\ at' \in {"invoke", "ask"} /\ path' \in {"adapter", "command", "curl"}
        /\ ~manifest.keysMissing /\ ~manifest.binsMissing /\ manifest.adapter # "composed"
        /\ UNCHANGED <<manifest, llm, ran, body, outcome, metrics, shown, validated,
                 completed, signal, answer>>
    BY <1>6 DEF Exec!Choose, Exec!Runnable
  <2>2. Exec!ExecTypeOK'
    BY <2>1 DEF ExecInv, Exec!ExecTypeOK
  <2>3. ExecStages'
    BY <2>1 DEF ExecInv, ExecStages, Unrun, SettledAt
  <2> QED BY <2>1, <2>2, <2>3, UnansweredAgrees
<1>7. CASE Exec!AskCommand
  BY <1>7, KeepsGoing, AskFailsAgrees DEF Exec!AskCommand
<1>8. CASE Exec!AskCurl
  BY <1>8, KeepsGoing, FailsAgrees, AskFailsAgrees DEF Exec!AskCurl
<1>9. CASE Exec!Invoke
  <2>1. path \in {"adapter", "command", "curl"}
    BY DEF ExecInv, Exec!ExecTypeOK
  <2> QED BY <1>9, <2>1, KeepsGoing, FailsAgrees DEF Exec!Invoke
<1> QED BY <1>1, <1>2, <1>3, <1>4, <1>5, <1>6, <1>7, <1>8, <1>9, RunAgrees, ValidateAgrees, EmitAgrees,
           ReturnAgrees DEF Exec!ExecNext

LEMMA ExecFollows == ExecInv => Exec!ObserversAgree /\ Exec!SuccessRan /\ Exec!ExecTypeOK
BY DEF ExecInv

(***************************************************************************)
(* The planner.  The ids without a result are those pending; a result came *)
(* of a step with its id, which had begun; and the sequential rest is      *)
(* reached only with a plan that cannot be ordered.                        *)
(***************************************************************************)
StepIds == {Planner!IdOf(i) : i \in Planner!At}
Sequential == {"remaining", "combine", "answered", "rejected"}

PlanTypes ==
  /\ steps \in Seq(Planner!Step) /\ Len(steps) <= MaxSteps
  /\ wave \subseteq Planner!At /\ DOMAIN fallen \subseteq wave
  /\ mode \in {"plan", "waves", "wave", "remaining", "combine", "answered", "rejected"}
  /\ \A i \in DOMAIN fallen : fallen[i] \in Planner!Verdicts
  /\ mode \notin {"wave", "rejected"} => DOMAIN fallen = {}

PlanResults ==
  /\ DOMAIN results \subseteq StepIds
  /\ \A id \in DOMAIN results : /\ results[id].from \in DOMAIN context
                                /\ Planner!IdOf(results[id].from) = id
                                /\ results[id].verdict \in Planner!Verdicts

PlanPending ==
  /\ pending = StepIds \ DOMAIN results
  /\ mode \in {"combine", "answered"} => pending = {}
  /\ mode \in {"waves", "plan"} => wave = {}
  /\ mode = "plan" => steps = <<>> /\ results = <<>> /\ context = <<>>

PlanContext ==
  /\ wave \subseteq DOMAIN context /\ DOMAIN context \subseteq Planner!At
  /\ mode = "remaining" => ~Planner!Settles
  /\ \A i \in DOMAIN context :
       context[i] = steps[i].dependsOn \/ (mode \in Sequential /\ ~Planner!Settles)

PlanInv == PlanTypes /\ PlanResults /\ PlanPending /\ PlanContext

LEMMA PlanFacts == MaxSteps \in Nat \ {0} /\ Id # {}
BY ServicesAssumption DEF ServicesAssumption, Planner!PlanAssumption

LEMMA PlanStarts == Planner!PlanInit => PlanInv
<1> SUFFICES ASSUME Planner!PlanInit PROVE PlanInv
  OBVIOUS
<1>1. Planner!At = {} /\ DOMAIN results = {} /\ DOMAIN context = {} /\ DOMAIN fallen = {}
  BY DEF Planner!PlanInit, Planner!At
<1>2. StepIds = {}
  BY <1>1 DEF StepIds
<1> QED BY <1>1, <1>2, PlanFacts DEF Planner!PlanInit, PlanInv, PlanTypes, PlanResults, PlanPending, PlanContext

LEMMA PlanSteps ==
  ASSUME PlanInv PROVE /\ Planner!At = 1..Len(steps) /\ Len(steps) \in Nat
                       /\ \A i \in Planner!At : Planner!IdOf(i) = steps[i].id /\ steps[i].id \in Id
                                                /\ steps[i].dependsOn \subseteq Id
<1>1. Planner!At = 1..Len(steps) /\ Len(steps) \in Nat
  BY DEF PlanInv, PlanTypes, Planner!At
<1>2. \A i \in 1..Len(steps) : steps[i] \in Planner!Step
  BY DEF PlanInv, PlanTypes
<1> QED BY <1>1, <1>2 DEF Planner!IdOf, Planner!Step

\* Steps begin: those whose dependencies are all there, or the sequential rest.
LEMMA BeginShape ==
  ASSUME PlanInv, NEW S \in SUBSET Planner!At, Planner!Begin(S)
  PROVE  /\ wave' = S /\ DOMAIN context' = DOMAIN context \cup S
         /\ \A i \in S : context'[i] = {d \in steps[i].dependsOn : Planner!Has(d)}
         /\ \A i \in DOMAIN context \ S : context'[i] = context[i]
BY DEF Planner!Begin

\* Nothing can begin: then there is no order.
LEMMA NothingReady ==
  ASSUME PlanInv, pending # {}, Planner!Ready = {} PROVE ~Planner!Settles
<1> DEFINE S == {i \in Planner!At : Planner!Has(Planner!IdOf(i))}
<1>1. \A i \in Planner!At : Planner!IdOf(i) \in pending => \E d \in steps[i].dependsOn : ~Planner!Has(d)
  BY DEF Planner!Ready
<1>2. \A i \in Planner!At \ S : Planner!IdOf(i) \in pending
  BY DEF PlanInv, PlanPending, StepIds, Planner!Has
<1>3. ASSUME NEW i \in Planner!At \ S
      PROVE  \E d \in steps[i].dependsOn : \A j \in S : Planner!IdOf(j) # d
  BY <1>1, <1>2
<1>4. Planner!Reaches(S)
  BY <1>3 DEF Planner!Reaches
<1>5. PICK id \in pending : id \in StepIds
  BY DEF PlanInv, PlanPending
<1>6. PICK i \in Planner!At : Planner!IdOf(i) = id
  BY <1>5 DEF StepIds
<1>7. i \notin S
  BY <1>5, <1>6 DEF PlanInv, PlanPending, Planner!Has
<1> QED BY <1>4, <1>6, <1>7 DEF Planner!Settles

\* The operators that choose a step by its id.
LEMMA FirstStep ==
  ASSUME PlanInv, NEW id \in StepIds
  PROVE  Planner!FirstWith(id) \in Planner!At /\ Planner!IdOf(Planner!FirstWith(id)) = id
<1> DEFINE With == {i \in Planner!At : Planner!IdOf(i) = id}
<1>1. With # {} /\ With \subseteq Nat
  BY PlanSteps DEF StepIds
<1>2. PICK m \in With : \A n \in With : m <= n
  BY <1>1, Least
<1>3. \E i \in Planner!At : Planner!IdOf(i) = id /\ \A j \in Planner!At : Planner!IdOf(j) = id => i <= j
  BY <1>2
<1> QED BY <1>3, Zenon DEF Planner!FirstWith

LEMMA NextStep == ASSUME PlanInv, pending # {} PROVE Planner!NextPending \in pending
<1> DEFINE Firsts == {Planner!FirstWith(id) : id \in pending}
<1>1. pending \subseteq StepIds
  BY DEF PlanInv, PlanPending
<1>2. Firsts # {} /\ Firsts \subseteq Nat
  BY <1>1, FirstStep, PlanSteps
<1>3. PICK m \in Firsts : \A n \in Firsts : m <= n
  BY <1>2, Least
<1>4. PICK id \in pending : m = Planner!FirstWith(id)
  OBVIOUS
<1>5. \A other \in pending : Planner!FirstWith(id) <= Planner!FirstWith(other)
  BY <1>3, <1>4
<1> QED BY <1>5, Zenon DEF Planner!NextPending

LEMMA LastStep ==
  ASSUME PlanInv, NEW id, \E i \in wave : Planner!IdOf(i) = id
  PROVE  Planner!LastWith(id, wave) \in wave /\ Planner!IdOf(Planner!LastWith(id, wave)) = id
<1> DEFINE With == {i \in wave : Planner!IdOf(i) = id}
<1>1. With # {} /\ With \subseteq 1..Len(steps) /\ Len(steps) \in Nat
  BY PlanSteps DEF PlanInv, PlanTypes
<1>2. PICK m \in With : \A n \in With : n <= m
  BY <1>1, Greatest
<1>3. \E i \in wave : Planner!IdOf(i) = id /\ \A j \in wave : Planner!IdOf(j) = id => j <= i
  BY <1>2
<1> QED BY <1>3, Zenon DEF Planner!LastWith

\* Steps with other variables than `steps` changed keep what is said of steps alone.
LEMMA SameSteps ==
  ASSUME UNCHANGED steps
  PROVE  /\ Planner!At' = Planner!At /\ StepIds' = StepIds /\ (Planner!Settles' <=> Planner!Settles)
         /\ \A i : Planner!IdOf(i)' = Planner!IdOf(i)
BY DEF Planner!At, StepIds, Planner!IdOf, Planner!Settles, Planner!Reaches

LEMMA PlanKeeps == PlanInv /\ [Planner!PlanNext]_(Planner!planVars) => PlanInv'
<1> SUFFICES ASSUME PlanInv, [Planner!PlanNext]_(Planner!planVars) PROVE PlanInv'
  OBVIOUS
<1>1. CASE UNCHANGED Planner!planVars
  <2>1. UNCHANGED <<steps, pending, results, wave, fallen, mode, context>>
    BY <1>1 DEF Planner!planVars
  <2>2. PlanTypes' /\ PlanPending'
    BY <2>1, SameSteps DEF PlanInv, PlanTypes, PlanPending
  <2>3. PlanResults' /\ PlanContext'
    BY <2>1, SameSteps DEF PlanInv, PlanResults, PlanContext
  <2> QED BY <2>2, <2>3 DEF PlanInv
<1>2. CASE Planner!Plan
  <2>1. /\ mode = "plan" /\ mode' = "waves"
        /\ \E n \in 1..MaxSteps : steps' \in [1..n -> Planner!Step]
        /\ pending' = {steps'[i].id : i \in DOMAIN steps'}
        /\ UNCHANGED <<results, wave, fallen, context>>
    BY <1>2 DEF Planner!Plan
  <2>2. steps' \in Seq(Planner!Step) /\ Len(steps') <= MaxSteps
    <3>1. PICK n \in 1..MaxSteps : steps' \in [1..n -> Planner!Step]
      BY <2>1
    <3>2. n \in Nat /\ n <= MaxSteps
      BY PlanFacts
    <3>3. steps' \in Seq(Planner!Step)
      BY <3>1, <3>2
    <3>4. Len(steps') = n
      BY <3>1, <3>2, <3>3
    <3> QED BY <3>2, <3>3, <3>4
  <2>3. results = <<>> /\ context = <<>> /\ wave = {} /\ DOMAIN fallen = {}
    BY <2>1 DEF PlanInv, PlanPending, PlanTypes
  <2>4. DOMAIN results = {} /\ DOMAIN context = {}
    BY <2>3
  <2>5. PlanTypes'
    BY <2>1, <2>2, <2>3 DEF PlanTypes
  <2>6. StepIds' = pending'
    BY <2>1 DEF StepIds, Planner!At, Planner!IdOf
  <2>7. PlanResults' /\ PlanPending' /\ PlanContext'
    BY <2>1, <2>3, <2>4, <2>6 DEF PlanResults, PlanPending, PlanContext
  <2> QED BY <2>5, <2>7 DEF PlanInv
<1>3. CASE Planner!BeginWave
  <2>1. /\ mode = "waves" /\ mode' = "wave" /\ fallen' = <<>> /\ Planner!Begin(Planner!Ready)
        /\ UNCHANGED <<steps, pending, results>>
    BY <1>3 DEF Planner!BeginWave
  <2>2. Planner!Ready \in SUBSET Planner!At
    BY DEF Planner!Ready
  <2>3. /\ wave' = Planner!Ready /\ DOMAIN context' = DOMAIN context \cup Planner!Ready
        /\ \A i \in Planner!Ready : context'[i] = {d \in steps[i].dependsOn : Planner!Has(d)}
        /\ \A i \in DOMAIN context \ Planner!Ready : context'[i] = context[i]
    BY <2>1, <2>2, BeginShape
  <2>4. \A i \in Planner!Ready : context'[i] = steps[i].dependsOn
    BY <2>3 DEF Planner!Ready
  <2>5. \A i \in DOMAIN context' : context'[i] = steps[i].dependsOn
    BY <2>1, <2>3, <2>4 DEF PlanInv, PlanContext, Sequential
  <2>6. PlanTypes'
    BY <2>1, <2>2, <2>3, SameSteps DEF PlanInv, PlanTypes
  <2>7. PlanResults' /\ PlanPending'
    BY <2>1, <2>2, <2>3, SameSteps DEF PlanInv, PlanResults, PlanPending
  <2>8. PlanContext'
    BY <2>1, <2>2, <2>3, <2>5, SameSteps DEF PlanInv, PlanContext
  <2> QED BY <2>6, <2>7, <2>8 DEF PlanInv
<1>4. CASE \E i \in 1..MaxSteps : i \in Planner!At /\ Planner!StepEnds(i)
  <2>1. PICK i \in Planner!At : Planner!StepEnds(i)
    BY <1>4
  <2>2. PICK v \in Planner!Verdicts :
          fallen' = [j \in DOMAIN fallen \cup {i} |-> IF j = i THEN v ELSE fallen[j]]
    BY <2>1 DEF Planner!StepEnds
  <2>3. i \in wave /\ mode = "wave" /\ UNCHANGED <<steps, pending, results, wave, mode, context>>
    BY <2>1 DEF Planner!StepEnds
  <2>4. PlanTypes'
    BY <2>2, <2>3, SameSteps DEF PlanInv, PlanTypes
  <2>5. PlanResults' /\ PlanPending' /\ PlanContext'
    BY <2>3, SameSteps DEF PlanInv, PlanResults, PlanPending, PlanContext
  <2> QED BY <2>4, <2>5 DEF PlanInv
<1>5. CASE Planner!RouteThrows \/ Planner!Broken \/ Planner!Ordered \/ Planner!Combine
  <2>1. UNCHANGED <<steps, pending, results, wave, fallen, context>>
    BY <1>5 DEF Planner!RouteThrows, Planner!Broken, Planner!Ordered, Planner!Combine
  <2>2. /\ mode' \in Sequential /\ mode \in {"waves", "wave", "remaining", "combine"}
        /\ mode' = "remaining" => mode = "waves" /\ pending # {} /\ Planner!Ready = {}
        /\ mode' \in {"combine", "answered"} => pending = {}
        /\ mode' # "rejected" => mode \in {"waves", "remaining", "combine"}
    BY <1>5 DEF Planner!RouteThrows, Planner!Broken, Planner!Ordered, Planner!Combine, Sequential,
       PlanInv, PlanPending
  <2>3. mode' = "remaining" => ~Planner!Settles
    BY <2>2, NothingReady
  <2>4. PlanTypes' /\ PlanResults'
    BY <2>1, <2>2, SameSteps DEF PlanInv, PlanTypes, PlanResults, Sequential
  <2>5. PlanPending'
    BY <2>1, <2>2, SameSteps DEF PlanInv, PlanPending, Sequential
  <2>6. PlanContext'
    BY <2>1, <2>2, <2>3, SameSteps DEF PlanInv, PlanContext
  <2> QED BY <2>4, <2>5, <2>6 DEF PlanInv
<1>6. CASE Planner!WaveDone
  <2> DEFINE fresh == {Planner!IdOf(i) : i \in wave}
  <2>1. /\ mode = "wave" /\ mode' = "waves" /\ wave = DOMAIN fallen
        /\ results' = [id \in DOMAIN results \cup fresh |->
                         IF id \in fresh
                           THEN [from |-> Planner!LastWith(id, wave),
                                 verdict |-> fallen[Planner!LastWith(id, wave)]]
                           ELSE results[id]]
        /\ pending' = pending \ fresh /\ wave' = {} /\ fallen' = <<>>
        /\ UNCHANGED <<steps, context>>
    BY <1>6 DEF Planner!WaveDone
  <2>2. fresh \subseteq StepIds
    BY DEF StepIds, PlanInv, PlanTypes
  <2>3. DOMAIN results' = DOMAIN results \cup fresh
    BY <2>1
  <2>4. ASSUME NEW id \in DOMAIN results'
        PROVE  /\ results'[id].from \in DOMAIN context /\ Planner!IdOf(results'[id].from) = id
               /\ results'[id].verdict \in Planner!Verdicts
    <3>1. CASE id \in fresh
      <4> DEFINE i == Planner!LastWith(id, wave)
      <4>1. results'[id] = [from |-> i, verdict |-> fallen[i]]
        BY <2>1, <3>1
      <4>2. i \in wave /\ Planner!IdOf(i) = id
        BY <3>1, LastStep
      <4>3. i \in DOMAIN context /\ fallen[i] \in Planner!Verdicts
        BY <2>1, <4>2 DEF PlanInv, PlanContext, PlanTypes
      <4> HIDE DEF i
      <4> QED BY <4>1, <4>2, <4>3
    <3>2. CASE id \notin fresh
      <4>1. results'[id] = results[id] /\ id \in DOMAIN results
        BY <2>1, <2>3, <3>2
      <4> QED BY <4>1 DEF PlanInv, PlanResults
    <3> QED BY <3>1, <3>2
  <2>5. PlanTypes'
    BY <2>1, SameSteps DEF PlanInv, PlanTypes
  <2>6. PlanResults'
    BY <2>1, <2>2, <2>3, <2>4, SameSteps DEF PlanInv, PlanResults
  <2>7. PlanPending'
    BY <2>1, <2>3, SameSteps DEF PlanInv, PlanPending
  <2>8. PlanContext'
    BY <2>1, SameSteps DEF PlanInv, PlanContext, Sequential
  <2> QED BY <2>5, <2>6, <2>7, <2>8 DEF PlanInv
<1>7. CASE Planner!BeginRemaining
  <2> DEFINE first == Planner!FirstWith(Planner!NextPending)
  <2>1. /\ mode = "remaining" /\ pending # {} /\ Planner!Begin({first})
        /\ UNCHANGED <<steps, pending, results, fallen, mode>> /\ wave = {}
    BY <1>7 DEF Planner!BeginRemaining
  <2>2. first \in Planner!At
    BY <2>1, NextStep, FirstStep DEF PlanInv, PlanPending
  <2> HIDE DEF first
  <2>3. wave' = {first} /\ DOMAIN context' = DOMAIN context \cup {first}
    BY <2>1, <2>2, BeginShape
  <2>4. DOMAIN fallen = {}
    BY <2>1 DEF PlanInv, PlanTypes
  <2>5. ~Planner!Settles
    BY <2>1 DEF PlanInv, PlanContext
  <2>6. PlanTypes'
    BY <2>1, <2>2, <2>3, <2>4, SameSteps DEF PlanInv, PlanTypes
  <2>7. PlanResults' /\ PlanPending'
    BY <2>1, <2>2, <2>3, SameSteps DEF PlanInv, PlanResults, PlanPending
  <2>8. PlanContext'
    BY <2>1, <2>2, <2>3, <2>5, SameSteps DEF PlanInv, PlanContext, Sequential
  <2> QED BY <2>6, <2>7, <2>8 DEF PlanInv
<1>8. CASE Planner!RemainingEnds
  <2>1. PICK i \in wave, v \in Planner!Verdicts :
          /\ results' = [id \in DOMAIN results \cup {Planner!IdOf(i)} |->
                           IF id = Planner!IdOf(i) THEN [from |-> i, verdict |-> v] ELSE results[id]]
          /\ pending' = pending \ {Planner!IdOf(i)}
    BY <1>8 DEF Planner!RemainingEnds
  <2>2. mode = "remaining" /\ wave' = {} /\ UNCHANGED <<steps, fallen, mode, context>>
    BY <1>8 DEF Planner!RemainingEnds
  <2>3. DOMAIN results' = DOMAIN results \cup {Planner!IdOf(i)}
    BY <2>1
  <2>4. i \in DOMAIN context /\ Planner!IdOf(i) \in StepIds
    BY DEF PlanInv, PlanContext, PlanTypes, StepIds
  <2>5. ASSUME NEW id \in DOMAIN results'
        PROVE  /\ results'[id].from \in DOMAIN context /\ Planner!IdOf(results'[id].from) = id
               /\ results'[id].verdict \in Planner!Verdicts
    <3>1. CASE id = Planner!IdOf(i)
      <4>1. results'[id] = [from |-> i, verdict |-> v]
        BY <2>1, <3>1
      <4> QED BY <2>4, <3>1, <4>1
    <3>2. CASE id # Planner!IdOf(i)
      <4>1. results'[id] = results[id] /\ id \in DOMAIN results
        BY <2>1, <2>3, <3>2
      <4> QED BY <4>1 DEF PlanInv, PlanResults
    <3> QED BY <3>1, <3>2
  <2>6. PlanTypes'
    BY <2>2, SameSteps DEF PlanInv, PlanTypes
  <2>7. PlanResults'
    BY <2>2, <2>3, <2>4, <2>5, SameSteps DEF PlanInv, PlanResults
  <2>8. PlanPending'
    BY <2>1, <2>2, <2>3, SameSteps DEF PlanInv, PlanPending
  <2>9. PlanContext'
    BY <2>2, SameSteps DEF PlanInv, PlanContext, Sequential
  <2> QED BY <2>6, <2>7, <2>8, <2>9 DEF PlanInv
<1> QED BY <1>1, <1>2, <1>3, <1>4, <1>5, <1>6, <1>7, <1>8 DEF Planner!PlanNext, Planner!StepAnswers

LEMMA PlanFollows ==
  PlanInv => Planner!ContextComplete /\ Planner!EachStepAnswered /\ Planner!PlanTypeOK
<1> SUFFICES ASSUME PlanInv
             PROVE  Planner!ContextComplete /\ Planner!EachStepAnswered /\ Planner!PlanTypeOK
  OBVIOUS
<1>1. Planner!ContextComplete
  BY DEF PlanInv, PlanContext, Planner!ContextComplete, Sequential
<1>2. Planner!EachStepAnswered
  <2> SUFFICES ASSUME mode \in {"combine", "answered"}
               PROVE  /\ \A i \in Planner!At : /\ Planner!Has(Planner!IdOf(i))
                                               /\ Planner!IdOf(results[Planner!IdOf(i)].from) = Planner!IdOf(i)
                      /\ Planner!UniqueIds =>
                           Planner!At = DOMAIN context
                             /\ \A i \in Planner!At : results[Planner!IdOf(i)].from = i
    BY DEF Planner!EachStepAnswered
  <2>1. StepIds = DOMAIN results
    BY DEF PlanInv, PlanPending, PlanResults
  <2>2. \A i \in Planner!At : Planner!IdOf(i) \in DOMAIN results
    BY <2>1 DEF StepIds
  <2>3. \A i \in Planner!At : /\ results[Planner!IdOf(i)].from \in DOMAIN context
                              /\ Planner!IdOf(results[Planner!IdOf(i)].from) = Planner!IdOf(i)
    BY <2>2 DEF PlanInv, PlanResults
  <2>4. DOMAIN context \subseteq Planner!At
    BY DEF PlanInv, PlanContext
  <2>5. ASSUME Planner!UniqueIds, NEW i \in Planner!At
        PROVE  results[Planner!IdOf(i)].from = i /\ i \in DOMAIN context
    BY <2>3, <2>4, <2>5 DEF Planner!UniqueIds
  <2> QED BY <2>2, <2>3, <2>4, <2>5 DEF Planner!Has
<1>3. Planner!PlanTypeOK
  BY DEF PlanInv, PlanTypes, PlanResults, PlanPending, PlanContext, Planner!PlanTypeOK, StepIds
<1> QED BY <1>1, <1>2, <1>3

(***************************************************************************)
(* A chain of skills.  Whatever a step that ran was to write is in the     *)
(* context, and what a step was given is what its mapping named of that.   *)
(***************************************************************************)
ChainTypes ==
  /\ chain \in Seq(Chain!ChainStep) /\ Len(chain) <= MaxChain
  /\ given \in Seq(SUBSET ContextKey) /\ stepEnds \in Seq(Chain!Ends)
  /\ Len(given) = Len(stepEnds) /\ Len(stepEnds) <= Len(chain)
  /\ chainStep = Len(stepEnds) + 1
  /\ present \subseteq ContextKey
  /\ chainEnd \in {"none", "running", "answered", "failed", "rejected"}
  /\ chainEnd = "none" => chain = <<>>

\* Only the last step taken can have ended the chain.
ChainEnded ==
  \A i \in 1..Len(stepEnds) :
    stepEnds[i] \in {"missing", "refused"} => chainEnd = "failed" /\ i = Len(stepEnds)

ChainPresent ==
  /\ Query \in present
  /\ \A i \in 1..Len(stepEnds) :
       stepEnds[i] \in {"ok", "failed"} /\ chain[i].out # NoOutput => chain[i].out \in present

ChainGiven ==
  \A i \in 1..Len(given) : \A key \in chain[i].inputs \ given[i] :
    /\ key # Query
    /\ \A j \in 1..(i - 1) : chain[j].out = key => stepEnds[j] = "skipped"

ChainInv ==
  /\ ChainTypes /\ ChainEnded /\ ChainPresent /\ ChainGiven
  /\ chainEnd = "answered" => Len(stepEnds) = Len(chain)

LEMMA ChainFacts == Query \in ContextKey /\ NoOutput \notin ContextKey /\ MaxChain \in Nat
BY ServicesAssumption DEF ServicesAssumption, Chain!ChainAssumption

LEMMA ChainSeqs ==
  ASSUME NEW S PROVE /\ \A s \in Chain!SeqOf(S, MaxChain) : s \in Seq(S) /\ Len(s) <= MaxChain
                     /\ \A s \in Seq(S) : Len(s) <= MaxChain => s \in Chain!SeqOf(S, MaxChain)
<1>1. ASSUME NEW s \in Chain!SeqOf(S, MaxChain) PROVE s \in Seq(S) /\ Len(s) <= MaxChain
  <2>1. PICK n \in 0..MaxChain : s \in [1..n -> S]
    BY Zenon DEF Chain!SeqOf
  <2>2. n \in Nat /\ n <= MaxChain
    BY ChainFacts
  <2>3. s \in Seq(S)
    BY <2>1, <2>2
  <2>4. Len(s) = n
    BY <2>1, <2>2, <2>3
  <2> QED BY <2>2, <2>3, <2>4
<1>2. ASSUME NEW s \in Seq(S), Len(s) <= MaxChain PROVE s \in Chain!SeqOf(S, MaxChain)
  <2>1. Len(s) \in 0..MaxChain /\ s \in [1..Len(s) -> S]
    BY <1>2, ChainFacts
  <2> QED BY <2>1, Zenon DEF Chain!SeqOf
<1> QED BY <1>1, <1>2

LEMMA ChainStarts == Chain!ChainInit => ChainInv
BY ChainFacts DEF Chain!ChainInit, ChainInv, ChainTypes, ChainEnded, ChainPresent, ChainGiven

\* A step is taken, and the chain goes on or, where the step stops it, fails.
LEMMA NoteKeepsChain ==
  ASSUME ChainInv, Chain!Turn, NEW how \in Chain!Ends, Chain!Note(how),
         how \in {"missing", "refused"} => chainEnd' = "failed",
         how \notin {"missing", "refused"} => chainEnd' = chainEnd,
         present' = IF how \in {"ok", "failed"}
                    THEN present \cup ({chain[chainStep].out} \ {NoOutput}) ELSE present
  PROVE  ChainInv'
<1> USE ChainFacts DEF ChainInv, ChainTypes
<1> DEFINE n == Len(stepEnds)
<1>1. /\ chainEnd = "running" /\ n + 1 <= Len(chain) /\ chainStep = n + 1 /\ n \in Nat
      /\ chain[n + 1] \in Chain!ChainStep
  BY DEF Chain!Turn
<1>2. /\ given' = Append(given, chain[n + 1].inputs \cap present)
      /\ stepEnds' = Append(stepEnds, how) /\ chainStep' = chainStep + 1 /\ chain' = chain
  BY <1>1 DEF Chain!Note, Chain!Built
<1>3. chain[n + 1].inputs \subseteq ContextKey /\ chain[n + 1].out \in ContextKey \cup {NoOutput}
  BY <1>1 DEF Chain!ChainStep
<1>4. present' \subseteq ContextKey /\ present \subseteq present'
  BY <1>1, <1>3
<1>5. /\ given' \in Seq(SUBSET ContextKey) /\ stepEnds' \in Seq(Chain!Ends)
      /\ Len(given') = n + 1 /\ Len(stepEnds') = n + 1
      /\ given'[n + 1] = chain[n + 1].inputs \cap present /\ stepEnds'[n + 1] = how
      /\ \A i \in 1..n : given'[i] = given[i] /\ stepEnds'[i] = stepEnds[i]
  BY <1>2, <1>3
<1>6. chainEnd' \in {"running", "failed"}
  BY <1>1 DEF Chain!Ends
<1>7. ChainTypes'
  BY <1>1, <1>2, <1>4, <1>5, <1>6
<1>8. ChainEnded'
  <2>1. \A i \in 1..n : stepEnds[i] \notin {"missing", "refused"}
    BY <1>1 DEF ChainEnded
  <2>2. how \in {"missing", "refused"} => chainEnd' = "failed"
    BY <1>1
  <2>3. \A i \in 1..(n + 1) : i = n + 1 \/ i \in 1..n
    BY <1>1
  <2>4. \A i \in 1..n : stepEnds'[i] \notin {"missing", "refused"}
    BY <1>5, <2>1
  <2> QED BY <1>5, <2>2, <2>3, <2>4 DEF ChainEnded
<1>9. ChainPresent'
  <2>1. how \in {"ok", "failed"} /\ chain[n + 1].out # NoOutput => chain[n + 1].out \in present'
    BY <1>1
  <2>2. ASSUME NEW i \in 1..(n + 1), stepEnds'[i] \in {"ok", "failed"}, chain[i].out # NoOutput
        PROVE  chain[i].out \in present'
    <3>1. CASE i = n + 1
      BY <1>5, <2>1, <2>2, <3>1
    <3>2. CASE i # n + 1
      <4>1. i \in 1..n
        BY <3>2, <1>1
      <4> QED BY <4>1, <2>2, <1>4, <1>5 DEF ChainPresent
    <3> QED BY <3>1, <3>2
  <2> QED BY <1>2, <1>4, <1>5, <2>2 DEF ChainPresent
<1>10. ChainGiven'
  <2>1. ASSUME NEW i \in 1..(n + 1), NEW key \in chain[i].inputs \ given'[i]
        PROVE  /\ key # Query
               /\ \A j \in 1..(i - 1) : chain[j].out = key => stepEnds'[j] = "skipped"
    <3>1. CASE i = n + 1
      <4>1. key \notin present /\ key \in ContextKey
        BY <3>1, <1>3, <1>5
      <4>2. ASSUME NEW j \in 1..n, chain[j].out = key PROVE stepEnds[j] = "skipped"
        <5>1. stepEnds[j] \notin {"ok", "failed"}
          BY <4>1, <4>2 DEF ChainPresent
        <5>2. stepEnds[j] \notin {"missing", "refused"}
          BY <1>1 DEF ChainEnded
        <5> QED BY <5>1, <5>2 DEF Chain!Ends
      <4> QED BY <3>1, <1>1, <1>5, <4>1, <4>2 DEF ChainPresent
    <3>2. CASE i # n + 1
      <4>1. i \in 1..n /\ \A j \in 1..(i - 1) : j \in 1..n
        BY <3>2, <1>1
      <4>2. key \in chain[i].inputs \ given[i]
        BY <4>1, <1>5
      <4> QED BY <4>1, <4>2, <1>5 DEF ChainGiven
    <3> QED BY <3>1, <3>2
  <2> QED BY <1>2, <1>5, <2>1 DEF ChainGiven
<1> QED BY <1>6, <1>7, <1>8, <1>9, <1>10

LEMMA ChainKeeps == ChainInv /\ [Chain!ChainNext]_(Chain!chainVars) => ChainInv'
<1> SUFFICES ASSUME ChainInv, [Chain!ChainNext]_(Chain!chainVars) PROVE ChainInv'
  OBVIOUS
<1>1. CASE UNCHANGED Chain!chainVars
  BY <1>1 DEF Chain!chainVars, ChainInv, ChainTypes, ChainEnded, ChainPresent, ChainGiven
<1>2. CASE Chain!ChainBegins
  <2>1. /\ chainEnd = "none" /\ chain' \in Chain!SeqOf(Chain!ChainStep, MaxChain)
        /\ chainEnd' \in {"failed", "running"}
        /\ UNCHANGED <<chainStep, present, given, stepEnds>>
    BY <1>2 DEF Chain!ChainBegins
  <2>2. chain' \in Seq(Chain!ChainStep) /\ Len(chain') <= MaxChain
    BY <2>1, ChainSeqs
  <2>3. Len(stepEnds) = 0 /\ Len(given) = 0
    <3>1. chain = <<>>
      BY <2>1 DEF ChainInv, ChainTypes
    <3> QED BY <3>1 DEF ChainInv, ChainTypes
  <2> QED BY <2>1, <2>2, <2>3 DEF ChainInv, ChainTypes, ChainEnded, ChainPresent, ChainGiven
<1>3. CASE Chain!StepStops
  BY <1>3, NoteKeepsChain DEF Chain!StepStops, Chain!Ends
<1>4. CASE Chain!StepSkipped
  BY <1>4, NoteKeepsChain DEF Chain!StepSkipped, Chain!Ends
<1>5. CASE Chain!StepRuns
  BY <1>5, NoteKeepsChain DEF Chain!StepRuns, Chain!Ends
<1>6. CASE Chain!ChainRejects \/ Chain!ChainAnswers
  <2>1. /\ chainEnd = "running" /\ chainEnd' \in {"rejected", "answered"}
        /\ UNCHANGED <<chain, chainStep, present, given, stepEnds>>
        /\ chainEnd' = "answered" => chainStep > Len(chain)
    BY <1>6 DEF Chain!ChainRejects, Chain!ChainAnswers, Chain!Turn
  <2>2. ChainTypes'
    BY <2>1 DEF ChainInv, ChainTypes
  <2>3. ChainEnded'
    BY <2>1 DEF ChainInv, ChainEnded
  <2>4. ChainPresent' /\ ChainGiven'
    BY <2>1 DEF ChainInv, ChainPresent, ChainGiven
  <2>5. chainEnd' = "answered" => Len(stepEnds') = Len(chain')
    BY <2>1 DEF ChainInv, ChainTypes
  <2> QED BY <2>2, <2>3, <2>4, <2>5 DEF ChainInv
<1> QED BY <1>1, <1>2, <1>3, <1>4, <1>5, <1>6 DEF Chain!ChainNext

LEMMA ChainFollows == ChainInv => Chain!ValidGetsInputs /\ Chain!ChainWhole /\ Chain!ChainTypeOK
<1> SUFFICES ASSUME ChainInv PROVE Chain!ValidGetsInputs /\ Chain!ChainWhole /\ Chain!ChainTypeOK
  OBVIOUS
<1> USE ChainFacts DEF ChainInv, ChainTypes
<1>1. Chain!ValidGetsInputs
  <2> SUFFICES ASSUME Chain!ValidComposition(chain), NEW i \in 1..Len(given), NEW key \in ContextKey,
                      key \in chain[i].inputs \ given[i]
               PROVE  \E j \in 1..(i - 1) : chain[j].out = key /\ stepEnds[j] = "skipped"
    BY DEF Chain!ValidGetsInputs
  <2>1. key # Query /\ \A j \in 1..(i - 1) : chain[j].out = key => stepEnds[j] = "skipped"
    BY DEF ChainGiven
  <2>2. i \in DOMAIN chain
    OBVIOUS
  <2>3. key \in Chain!Available(chain, i)
    BY <2>2 DEF Chain!ValidComposition
  <2>4. \E j \in 1..(i - 1) : chain[j].out = key
    BY <2>1, <2>3 DEF Chain!Available, Chain!Outputs
  <2> QED BY <2>1, <2>4
<1>2. Chain!ChainWhole
  BY DEF Chain!ChainWhole, ChainEnded
<1>3. Chain!ChainTypeOK
  <2>1. Len(stepEnds) \in Nat /\ Len(chain) \in Nat
    OBVIOUS
  <2>2. chainStep \in 1..(MaxChain + 1)
    BY <2>1
  <2>3. Len(given) <= MaxChain /\ Len(stepEnds) <= MaxChain
    BY <2>1
  <2> QED BY <2>2, <2>3, ChainSeqs DEF Chain!ChainTypeOK
<1> QED BY <1>1, <1>2, <1>3

\* The elements of a finite set by descending rank: what ByScore and NewestFirst choose.
Descending(best, S, rank) ==
  /\ best \in [1..Cardinality(S) -> S]
  /\ \A i, j \in 1..Cardinality(S) : i < j => rank[best[i]] > rank[best[j]]

\* Every finite set whose elements have different ranks has such a list: the one of
\* least rank comes last, after the list of the others.
LEMMA DescendingExists ==
  ASSUME NEW Base, NEW rank \in [Base -> Nat],
         \A s, t \in Base : rank[s] = rank[t] => s = t,
         NEW S \in SUBSET Base, IsFiniteSet(S)
  PROVE  \E best : Descending(best, S, rank)
<1> DEFINE Ranked(T) == \E best : Descending(best, T, rank)
           Bad == {n \in Nat : \E T \in SUBSET Base :
                     IsFiniteSet(T) /\ Cardinality(T) = n /\ ~Ranked(T)}
<1> SUFFICES ASSUME ~Ranked(S) PROVE FALSE
  OBVIOUS
<1>1. Bad \subseteq Nat /\ Bad # {}
  <2>1. Cardinality(S) \in Nat
    BY FS_CardinalityType
  <2>2. Cardinality(S) \in Bad
    BY <2>1
  <2> QED BY <2>2
<1>2. PICK n \in Bad : \A k \in Bad : n <= k
  <2> HIDE DEF Bad
  <2> QED BY <1>1, Least
<1>3. PICK T \in SUBSET Base : IsFiniteSet(T) /\ Cardinality(T) = n /\ ~Ranked(T)
  BY <1>2
<1>4. n \in Nat
  BY <1>1, <1>2
<1>5. CASE T = {}
  <2>1. n = 0
    BY <1>3, <1>5, FS_EmptySet
  <2>2. [i \in 1..0 |-> i] \in [1..0 -> T] /\ 1..0 = {}
    OBVIOUS
  <2> DEFINE none == [i \in 1..0 |-> i]
  <2>3. none \in [1..0 -> T] /\ 1..0 = {}
    BY <2>2
  <2> HIDE DEF none
  <2>4. Descending(none, T, rank)
    BY <1>3, <2>1, <2>3 DEF Descending
  <2> QED BY <1>3, <2>4
<1>6. CASE T # {}
  <2>1. PICK m \in T : \A t \in T : rank[m] <= rank[t]
    <3> DEFINE R == {rank[t] : t \in T}
    <3>1. R \subseteq Nat /\ R # {}
      BY <1>6
    <3>2. PICK r \in R : \A q \in R : r <= q
      <4> HIDE DEF R
      <4> QED BY <3>1, Least
    <3> QED BY <3>2
  <2> DEFINE U == T \ {m}
  <2>2. IsFiniteSet(U) /\ Cardinality(U) = n - 1
    BY <1>3, FS_RemoveElement
  <2>3. n - 1 \in Nat
    BY <2>2, FS_CardinalityType
  <2>4. Ranked(U)
    <3>1. SUFFICES ASSUME ~Ranked(U) PROVE FALSE
      OBVIOUS
    <3>2. U \in SUBSET Base
      OBVIOUS
    <3> HIDE DEF U, Ranked
    <3>3. n - 1 \in Bad
      BY <2>2, <2>3, <3>1, <3>2
    <3> QED BY <1>2, <1>4, <3>3
  <2>5. PICK s : Descending(s, U, rank)
    BY <2>4
  <2>6. /\ s \in [1..(n - 1) -> U]
        /\ \A i, j \in 1..(n - 1) : i < j => rank[s[i]] > rank[s[j]]
    BY <2>2, <2>5 DEF Descending
  <2> DEFINE best == [i \in 1..n |-> IF i = n THEN m ELSE s[i]]
  <2>7. best \in [1..n -> T] /\ best[n] = m /\ \A i \in 1..(n - 1) : best[i] = s[i]
    <3>1. \A i \in 1..n : i # n => i \in 1..(n - 1)
      BY <1>4
    <3>2. \A i \in 1..(n - 1) : i \in 1..n /\ i # n
      BY <1>4, <2>3
    <3>3. n \in 1..n
      BY <1>4, <2>3
    <3> QED BY <2>6, <3>1, <3>2, <3>3
  <2> HIDE DEF best
  <2>8. ASSUME NEW i \in 1..n, NEW j \in 1..n, i < j PROVE rank[best[i]] > rank[best[j]]
    <3>1. i \in 1..(n - 1)
      BY <1>4, <2>8
    <3>2. CASE j = n
      <4>1. s[i] \in T /\ s[i] # m
        BY <2>6, <3>1
      <4>2. rank[m] <= rank[s[i]] /\ rank[m] # rank[s[i]]
        BY <2>1, <4>1
      <4>3. rank[m] \in Nat /\ rank[s[i]] \in Nat
        BY <4>1
      <4> QED BY <2>7, <3>1, <3>2, <4>2, <4>3
    <3>3. CASE j # n
      <4>1. j \in 1..(n - 1)
        BY <1>4, <3>3
      <4> QED BY <2>6, <2>7, <2>8, <3>1, <4>1
    <3> QED BY <3>2, <3>3
  <2>9. Descending(best, T, rank)
    BY <1>3, <2>7, <2>8 DEF Descending
  <2> QED BY <1>3, <2>9
<1> QED BY <1>5, <1>6

(***************************************************************************)
(* The requests.  The router in place has its index unless one of two      *)
(* requests that initialised the web route at once is still building it.   *)
(***************************************************************************)
RoutingTypes ==
  /\ front \in [Requests -> {"web", "cli", "gateway"}]
  /\ routers \in Seq(BOOLEAN) /\ initialized \in BOOLEAN
  /\ request \in [Requests -> {"new", "loading", "indexing", "routing", "running", "answered"}]
  /\ ownRouter \in [Requests -> 0..Len(routers)]
  /\ raced \subseteq Requests /\ misrouted \subseteq Requests
  /\ previous \in [Requests -> SUBSET Skill]
  /\ routed \in [Requests -> Seq(Skill)] /\ attempts \in [Requests -> Seq(Routes!Attempt)]
  /\ reply \in [Requests -> {"none", "model", "skill", "missing", "error"}]

\* Requests that initialise the route together have raced.
RacedInv ==
  /\ IsFiniteSet(raced) /\ IsFiniteSet(Routes!Initialising)
  /\ raced # {} => \E a, b \in raced : a # b
  /\ \A a, b \in Routes!Initialising : a # b => a \in raced /\ b \in raced
  /\ initialized => Routes!Initialising \subseteq raced
  /\ misrouted # {} => raced # {}

\* A router without its index is that of a request that is building it.
IndexInv ==
  /\ \A q \in Requests : request[q] = "indexing" => ownRouter[q] # 0
  /\ \A n \in 1..Len(routers) : ~routers[n] =>
       \E q \in Requests : request[q] = "indexing" /\ ownRouter[q] = n
  /\ initialized => Len(routers) # 0
  /\ \A q \in Requests : front[q] = "web" /\ request[q] = "routing" => initialized

\* What a request is routed to, and what its attempts came to.
RoutedTo(q) ==
  \A i \in 1..Len(routed[q]) :
    /\ routed[q][i] \in Eligible \cup previous[q]
    /\ \A j \in 1..Len(routed[q]) : routed[q][i] = routed[q][j] => i = j

Tried(q) ==
  /\ Len(attempts[q]) <= Routes!Limit(q)
  /\ \A i \in 1..Len(attempts[q]) : attempts[q][i].skill = routed[q][i]
  /\ \A i \in 1..Len(attempts[q]) - 1 : attempts[q][i].outcome # "success"

Replied(q) ==
  LET n == Len(attempts[q]) IN
  /\ request[q] \in {"new", "loading", "indexing", "routing"} =>
       reply[q] = "none" /\ routed[q] = <<>> /\ attempts[q] = <<>>
  /\ request[q] = "running" =>
       reply[q] = "none" /\ \A i \in 1..n : attempts[q][i].outcome # "success"
  /\ reply[q] = "skill" =>
       /\ n > 0
       /\ attempts[q][n].outcome \in IF front[q] = "gateway" THEN {"success", "failed"} ELSE {"success"}
  /\ reply[q] = "model" =>
       n = Routes!Limit(q) /\ \A i \in 1..n : attempts[q][i].outcome # "success"

AttemptsInv == \A q \in Requests : RoutedTo(q) /\ Tried(q) /\ Replied(q)

RoutingInv == RoutingTypes /\ RacedInv /\ IndexInv /\ AttemptsInv

LEMMA RoutingFacts ==
  /\ IsFiniteSet(Skill) /\ Eligible \subseteq Skill
  /\ Score \in [Skill -> Nat] /\ \A s, t \in Skill : Score[s] = Score[t] => s = t
  /\ MaxAttempts \in Nat \ {0}
  /\ \A S : Routes!Cardinality(S) = Cardinality(S)
<1>1. Routes!RoutingAssumption
  BY ServicesAssumption DEF ServicesAssumption
<1>2. IsFiniteSet(Skill)
  BY <1>1 DEF Routes!RoutingAssumption, Routes!IsFiniteSet, IsFiniteSet
<1>3. \A S : Routes!Cardinality(S) = Cardinality(S)
  BY DEF Routes!Cardinality, Cardinality, Routes!IsFiniteSet, IsFiniteSet
<1> QED BY <1>1, <1>2, <1>3 DEF Routes!RoutingAssumption

LEMMA MinOfTwo ==
  ASSUME NEW a \in Nat, NEW b \in Nat
  PROVE  Routes!Min({a, b}) \in Nat /\ Routes!Min({a, b}) <= a /\ Routes!Min({a, b}) <= b
<1>1. \E x \in {a, b} : \A y \in {a, b} : x <= y
  <2>1. CASE a <= b
    BY <2>1
  <2>2. CASE ~(a <= b)
    BY <2>2
  <2> QED BY <2>1, <2>2
<1>2. Routes!Min({a, b}) = CHOOSE x \in {a, b} : \A y \in {a, b} : x <= y
  BY DEF Routes!Min
<1> DEFINE m == Routes!Min({a, b})
<1>3. m \in {a, b} /\ \A y \in {a, b} : m <= y
  BY <1>1, <1>2
<1> QED BY <1>3

\* How many candidates a front end runs.
LEMMA LimitIs ==
  ASSUME NEW q \in Requests, routed[q] \in Seq(Skill)
  PROVE  /\ Routes!Limit(q) \in Nat /\ Routes!Limit(q) <= MaxAttempts
         /\ Routes!Limit(q) <= Len(routed[q])
<1> DEFINE n == Len(routed[q])
<1>1. n \in Nat /\ 1 \in Nat /\ MaxAttempts \in Nat /\ 1 <= MaxAttempts
  BY RoutingFacts
<1>2. Routes!Limit(q) \in {Routes!Min({1, n}), Routes!Min({MaxAttempts, n})}
  BY DEF Routes!Limit
<1> HIDE DEF n
<1>3. /\ Routes!Min({1, n}) \in Nat /\ Routes!Min({1, n}) <= 1 /\ Routes!Min({1, n}) <= n
      /\ Routes!Min({MaxAttempts, n}) \in Nat /\ Routes!Min({MaxAttempts, n}) <= MaxAttempts
      /\ Routes!Min({MaxAttempts, n}) <= n
  BY <1>1, MinOfTwo
<1>4. Routes!Limit(q) \in Nat /\ Routes!Limit(q) <= MaxAttempts /\ Routes!Limit(q) <= n
  BY <1>1, <1>2, <1>3
<1> QED BY <1>4 DEF n

LEMMA RoutingStarts == Routes!RoutingInit => RoutingInv
<1> SUFFICES ASSUME Routes!RoutingInit PROVE RoutingInv
  OBVIOUS
<1>1. RoutingTypes
  <2>1. <<>> \in Seq(Skill) /\ <<>> \in Seq(Routes!Attempt) /\ <<>> \in Seq(BOOLEAN) /\ Len(<<>>) = 0
    OBVIOUS
  <2>2. routed \in [Requests -> Seq(Skill)] /\ attempts \in [Requests -> Seq(Routes!Attempt)]
    BY <2>1 DEF Routes!RoutingInit
  <2>3. /\ front \in [Requests -> {"web", "cli", "gateway"}]
        /\ request \in [Requests -> {"new", "loading", "indexing", "routing", "running", "answered"}]
        /\ previous \in [Requests -> SUBSET Skill]
        /\ reply \in [Requests -> {"none", "model", "skill", "missing", "error"}]
    BY DEF Routes!RoutingInit
  <2>4. /\ routers \in Seq(BOOLEAN) /\ initialized \in BOOLEAN
        /\ ownRouter \in [Requests -> 0..Len(routers)]
        /\ raced \subseteq Requests /\ misrouted \subseteq Requests
    <3>1. routers = <<>> /\ initialized = FALSE /\ raced = {} /\ misrouted = {}
      BY DEF Routes!RoutingInit
    <3>2. ownRouter = [q \in Requests |-> 0] /\ 0 \in 0..0
      BY DEF Routes!RoutingInit
    <3>3. ownRouter \in [Requests -> 0..0]
      BY <3>2
    <3> QED BY <2>1, <3>1, <3>3
  <2> QED BY <2>2, <2>3, <2>4 DEF RoutingTypes
<1>2. Routes!Initialising = {} /\ raced = {} /\ misrouted = {} /\ initialized = FALSE
  BY DEF Routes!RoutingInit, Routes!Initialising
<1>3. RacedInv
  BY <1>2, FS_EmptySet DEF RacedInv
<1>4. IndexInv
  BY DEF IndexInv, Routes!RoutingInit
<1>5. AttemptsInv
  <2> SUFFICES ASSUME NEW q \in Requests PROVE RoutedTo(q) /\ Tried(q) /\ Replied(q)
    BY DEF AttemptsInv
  <2>1. /\ routed[q] = <<>> /\ attempts[q] = <<>> /\ request[q] = "new" /\ reply[q] = "none"
        /\ Len(<<>>) = 0 /\ 1..0 = {}
    BY DEF Routes!RoutingInit
  <2>2. 0 <= Routes!Limit(q)
    <3>1. routed[q] \in Seq(Skill)
      BY <1>1 DEF RoutingTypes
    <3>2. Routes!Limit(q) \in Nat
      BY <3>1, LimitIs
    <3> QED BY <3>2
  <2>3. 1..0 - 1 = {}
    OBVIOUS
  <2> QED BY <2>1, <2>2, <2>3 DEF RoutedTo, Tried, Replied
<1> QED BY <1>1, <1>3, <1>4, <1>5 DEF RoutingInv

\* A request whose attempts, candidates and reply stay the same keeps what is said of them.
LEMMA SameAttempts ==
  ASSUME AttemptsInv, NEW q \in Requests, routed'[q] = routed[q], attempts'[q] = attempts[q],
         reply'[q] = reply[q], front' = front, previous'[q] = previous[q],
         \/ request'[q] = request[q]
         \/ /\ request[q] \in {"new", "loading", "indexing", "routing"}
            /\ request'[q] \in {"loading", "indexing", "routing"}
  PROVE  RoutedTo(q)' /\ Tried(q)' /\ Replied(q)'
<1>1. RoutedTo(q) /\ Tried(q) /\ Replied(q)
  BY DEF AttemptsInv
<1>2. RoutedTo(q)'
  BY <1>1 DEF RoutedTo
<1>3. Routes!Limit(q)' = Routes!Limit(q)
  BY DEF Routes!Limit
<1>4. Tried(q)'
  BY <1>1, <1>3 DEF Tried
<1>5. Replied(q)'
  BY <1>1, <1>3 DEF Replied
<1> QED BY <1>2, <1>4, <1>5

\* The steps of a request that leave its attempts alone.
LEMMA ElsewhereSame ==
  ASSUME RoutingTypes, AttemptsInv, NEW q \in Requests,
         front' = front, routed' = routed, attempts' = attempts, reply' = reply,
         request[q] \in {"new", "loading", "indexing"}, request'[q] \in {"loading", "indexing", "routing"},
         \A o \in Requests : o # q => request'[o] = request[o] /\ previous'[o] = previous[o]
  PROVE  AttemptsInv'
<1> SUFFICES ASSUME NEW o \in Requests PROVE RoutedTo(o)' /\ Tried(o)' /\ Replied(o)'
  BY DEF AttemptsInv
<1>3. CASE o # q
  BY <1>3, SameAttempts
<1>4. CASE o = q
  <2>1. RoutedTo(q) /\ Tried(q) /\ Replied(q)
    BY DEF AttemptsInv
  <2>2. routed'[q] = <<>> /\ Len(<<>>) = 0 /\ 1..0 = {}
    BY <2>1 DEF Replied
  <2>3. RoutedTo(q)'
    BY <2>2 DEF RoutedTo
  <2>4. Routes!Limit(q)' = Routes!Limit(q)
    BY DEF Routes!Limit
  <2>5. Tried(q)' /\ Replied(q)'
    BY <2>1, <2>4 DEF Tried, Replied
  <2> QED BY <1>4, <2>3, <2>5
<1> QED BY <1>3, <1>4

LEMMA AtShape ==
  ASSUME RoutingTypes, NEW q \in Requests, NEW from,
         NEW to \in {"new", "loading", "indexing", "routing", "running", "answered"},
         Routes!At(q, from, to)
  PROVE  /\ request[q] = from /\ request'[q] = to
         /\ \A o \in Requests : o # q => request'[o] = request[o]
         /\ request' \in [Requests -> {"new", "loading", "indexing", "routing", "running", "answered"}]
BY DEF Routes!At, RoutingTypes

LEMMA WebBeginsKeeps == ASSUME RoutingInv, NEW q \in Requests, Routes!WebBegins(q) PROVE RoutingInv'
<1>1. UNCHANGED <<front, routers, initialized, ownRouter, misrouted, previous, routed, attempts, reply>>
  BY DEF Routes!WebBegins
<1>2. RoutingTypes /\ RacedInv /\ IndexInv /\ AttemptsInv
  BY DEF RoutingInv
<1>3. CASE initialized /\ Routes!At(q, "new", "routing") /\ raced' = raced
  <2>1. /\ request[q] = "new" /\ request'[q] = "routing"
        /\ \A o \in Requests : o # q => request'[o] = request[o]
        /\ request' \in [Requests -> {"new", "loading", "indexing", "routing", "running", "answered"}]
    BY <1>2, <1>3, AtShape
  <2>2. RoutingTypes'
    BY <1>1, <1>2, <1>3, <2>1 DEF RoutingTypes
  <2>3. Routes!Initialising' = Routes!Initialising
    BY <2>1 DEF Routes!Initialising
  <2>4. RacedInv'
    BY <1>1, <1>2, <1>3, <2>3 DEF RacedInv
  <2>5. IndexInv'
    BY <1>1, <1>2, <1>3, <2>1 DEF IndexInv
  <2>6. AttemptsInv'
    BY <1>1, <1>2, <2>1, ElsewhereSame
  <2> QED BY <2>2, <2>4, <2>5, <2>6 DEF RoutingInv
<1>4. CASE /\ ~initialized /\ Routes!At(q, "new", "loading")
           /\ raced' = IF Routes!Initialising = {} THEN raced ELSE raced \cup Routes!Initialising \cup {q}
  <2>1. /\ request[q] = "new" /\ request'[q] = "loading"
        /\ \A o \in Requests : o # q => request'[o] = request[o]
        /\ request' \in [Requests -> {"new", "loading", "indexing", "routing", "running", "answered"}]
    BY <1>2, <1>4, AtShape
  <2>2. Routes!Initialising' = Routes!Initialising \cup {q} /\ q \notin Routes!Initialising
        /\ Routes!Initialising \subseteq Requests
    BY <2>1 DEF Routes!Initialising
  <2>3. IsFiniteSet(Routes!Initialising') /\ IsFiniteSet(raced')
    <3>1. IsFiniteSet(Routes!Initialising \cup {q})
      BY <1>2, FS_AddElement DEF RacedInv
    <3>2. IsFiniteSet(raced \cup (Routes!Initialising \cup {q}))
      BY <1>2, <3>1, FS_Union DEF RacedInv
    <3>3. raced \cup (Routes!Initialising \cup {q}) = raced \cup Routes!Initialising \cup {q}
      OBVIOUS
    <3> QED BY <1>2, <1>4, <2>2, <3>1, <3>2, <3>3 DEF RacedInv
  <2>4. RoutingTypes'
    BY <1>1, <1>2, <1>4, <2>1, <2>2 DEF RoutingTypes
  <2>5. RacedInv'
    <3>1. CASE Routes!Initialising = {}
      BY <1>1, <1>2, <1>4, <2>2, <2>3, <3>1 DEF RacedInv
    <3>2. CASE Routes!Initialising # {}
      <4>1. PICK p \in Routes!Initialising : p # q
        BY <2>2, <3>2
      <4>2. raced' = raced \cup Routes!Initialising \cup {q}
        BY <1>4, <3>2
      <4> QED BY <1>1, <1>2, <1>4, <2>2, <2>3, <4>1, <4>2 DEF RacedInv
    <3> QED BY <3>1, <3>2
  <2>6. IndexInv'
    BY <1>1, <1>2, <1>4, <2>1 DEF IndexInv
  <2>7. AttemptsInv'
    BY <1>1, <1>2, <2>1, ElsewhereSame
  <2> QED BY <2>4, <2>5, <2>6, <2>7 DEF RoutingInv
<1> QED BY <1>3, <1>4 DEF Routes!WebBegins

LEMMA WebRouterKeeps == ASSUME RoutingInv, NEW q \in Requests, Routes!WebRouter(q) PROVE RoutingInv'
<1>1. /\ Routes!At(q, "loading", "indexing") /\ routers' = Append(routers, FALSE)
      /\ ownRouter' = [ownRouter EXCEPT ![q] = Len(routers) + 1]
      /\ UNCHANGED <<front, initialized, raced, misrouted, previous, routed, attempts, reply>>
  BY DEF Routes!WebRouter
<1>2. RoutingTypes /\ RacedInv /\ IndexInv /\ AttemptsInv
  BY DEF RoutingInv
<1>3. /\ request[q] = "loading" /\ request'[q] = "indexing"
      /\ \A o \in Requests : o # q => request'[o] = request[o]
      /\ request' \in [Requests -> {"new", "loading", "indexing", "routing", "running", "answered"}]
  BY <1>1, <1>2, AtShape
<1>4. /\ routers' \in Seq(BOOLEAN) /\ Len(routers') = Len(routers) + 1 /\ Len(routers) \in Nat
      /\ \A n \in 1..Len(routers) : routers'[n] = routers[n]
  BY <1>1, <1>2 DEF RoutingTypes
<1>5. /\ ownRouter' \in [Requests -> 0..Len(routers')] /\ ownRouter'[q] = Len(routers) + 1
      /\ \A o \in Requests : o # q => ownRouter'[o] = ownRouter[o]
  <2>1. ownRouter \in [Requests -> 0..Len(routers)]
    BY <1>2 DEF RoutingTypes
  <2> QED BY <1>1, <1>4, <2>1
<1>6. RoutingTypes'
  BY <1>1, <1>2, <1>3, <1>4, <1>5 DEF RoutingTypes
<1>7. Routes!Initialising' = Routes!Initialising
  BY <1>3 DEF Routes!Initialising
<1>8. RacedInv'
  BY <1>1, <1>2, <1>7 DEF RacedInv
<1>9. IndexInv'
  <2>1. ASSUME NEW n \in 1..Len(routers'), ~routers'[n]
        PROVE  \E o \in Requests : request'[o] = "indexing" /\ ownRouter'[o] = n
    <3>1. CASE n = Len(routers) + 1
      BY <1>3, <1>5, <3>1
    <3>2. CASE n \in 1..Len(routers)
      <4>1. PICK o \in Requests : request[o] = "indexing" /\ ownRouter[o] = n
        BY <1>2, <1>4, <2>1, <3>2 DEF IndexInv
      <4> QED BY <1>3, <1>5, <4>1
    <3> QED BY <1>4, <3>1, <3>2
  <2>2. \A o \in Requests : request'[o] = "indexing" => ownRouter'[o] # 0
    BY <1>2, <1>3, <1>4, <1>5 DEF IndexInv
  <2>3. initialized' => Len(routers') # 0
    BY <1>4
  <2>4. \A o \in Requests : front'[o] = "web" /\ request'[o] = "routing" => initialized'
    BY <1>1, <1>2, <1>3 DEF IndexInv
  <2> QED BY <2>1, <2>2, <2>3, <2>4 DEF IndexInv
<1>10. AttemptsInv'
  BY <1>1, <1>2, <1>3, ElsewhereSame
<1> QED BY <1>6, <1>8, <1>9, <1>10 DEF RoutingInv

LEMMA WebReadyKeeps == ASSUME RoutingInv, NEW q \in Requests, Routes!WebReady(q) PROVE RoutingInv'
<1>1. /\ Routes!At(q, "indexing", "routing") /\ routers' = [routers EXCEPT ![ownRouter[q]] = TRUE]
      /\ initialized' = TRUE
      /\ UNCHANGED <<front, ownRouter, raced, misrouted, previous, routed, attempts, reply>>
  BY DEF Routes!WebReady
<1>2. RoutingTypes /\ RacedInv /\ IndexInv /\ AttemptsInv
  BY DEF RoutingInv
<1>3. /\ request[q] = "indexing" /\ request'[q] = "routing"
      /\ \A o \in Requests : o # q => request'[o] = request[o]
      /\ request' \in [Requests -> {"new", "loading", "indexing", "routing", "running", "answered"}]
  BY <1>1, <1>2, AtShape
<1>4. ownRouter[q] \in 1..Len(routers)
  <2>1. ownRouter[q] \in 0..Len(routers) /\ ownRouter[q] # 0
    BY <1>2, <1>3 DEF RoutingTypes, IndexInv
  <2> QED BY <2>1
<1>5. /\ routers' \in Seq(BOOLEAN) /\ Len(routers') = Len(routers) /\ routers'[ownRouter[q]] = TRUE
      /\ \A n \in 1..Len(routers) : n # ownRouter[q] => routers'[n] = routers[n]
  BY <1>1, <1>2, <1>4 DEF RoutingTypes
<1>6. RoutingTypes'
  BY <1>1, <1>2, <1>3, <1>5 DEF RoutingTypes
<1>7. Routes!Initialising' = Routes!Initialising \ {q} /\ q \in Routes!Initialising
  BY <1>3 DEF Routes!Initialising
<1>8. RacedInv'
  <2>1. IsFiniteSet(Routes!Initialising')
    BY <1>2, <1>7, FS_RemoveElement DEF RacedInv
  <2>2. Routes!Initialising' \subseteq raced
    BY <1>2, <1>7 DEF RacedInv
  <2> QED BY <1>1, <1>2, <1>7, <2>1, <2>2 DEF RacedInv
<1>9. IndexInv'
  <2>1. ASSUME NEW n \in 1..Len(routers'), ~routers'[n]
        PROVE  \E o \in Requests : request'[o] = "indexing" /\ ownRouter'[o] = n
    <3>1. n # ownRouter[q] /\ n \in 1..Len(routers)
      BY <1>5, <2>1
    <3>2. PICK o \in Requests : request[o] = "indexing" /\ ownRouter[o] = n
      BY <1>2, <1>5, <2>1, <3>1 DEF IndexInv
    <3> QED BY <1>1, <1>3, <3>1, <3>2
  <2>2. \A o \in Requests : request'[o] = "indexing" => ownRouter'[o] # 0
    BY <1>1, <1>2, <1>3 DEF IndexInv
  <2>3. Len(routers') # 0
    BY <1>4, <1>5
  <2> QED BY <1>1, <2>1, <2>2, <2>3 DEF IndexInv
<1>10. AttemptsInv'
  BY <1>1, <1>2, <1>3, ElsewhereSame
<1> QED BY <1>6, <1>8, <1>9, <1>10 DEF RoutingInv

LEMMA WebFailsKeeps == ASSUME RoutingInv, NEW q \in Requests, Routes!WebFails(q) PROVE RoutingInv'
<1>1. /\ Routes!At(q, "loading", "answered") /\ reply' = [reply EXCEPT ![q] = "error"]
      /\ UNCHANGED <<front, routers, initialized, ownRouter, raced, misrouted, previous, routed, attempts>>
  BY DEF Routes!WebFails, Routes!webRouter
<1>2. RoutingTypes /\ RacedInv /\ IndexInv /\ AttemptsInv
  BY DEF RoutingInv
<1>3. /\ request[q] = "loading" /\ request'[q] = "answered"
      /\ \A o \in Requests : o # q => request'[o] = request[o]
      /\ request' \in [Requests -> {"new", "loading", "indexing", "routing", "running", "answered"}]
  BY <1>1, <1>2, AtShape
<1>4. /\ reply' \in [Requests -> {"none", "model", "skill", "missing", "error"}]
      /\ reply'[q] = "error" /\ \A o \in Requests : o # q => reply'[o] = reply[o]
  BY <1>1, <1>2 DEF RoutingTypes
<1>5. RoutingTypes'
  BY <1>1, <1>2, <1>3, <1>4 DEF RoutingTypes
<1>6. Routes!Initialising' = Routes!Initialising \ {q}
  BY <1>3 DEF Routes!Initialising
<1>7. IsFiniteSet(Routes!Initialising')
  BY <1>2, <1>6, FS_RemoveElement DEF RacedInv
<1>8. RacedInv'
  BY <1>1, <1>2, <1>6, <1>7 DEF RacedInv
<1>9. IndexInv'
  BY <1>1, <1>2, <1>3 DEF IndexInv
<1>10. AttemptsInv'
  <2> SUFFICES ASSUME NEW o \in Requests PROVE RoutedTo(o)' /\ Tried(o)' /\ Replied(o)'
    BY DEF AttemptsInv
  <2>1. CASE o # q
    BY <1>1, <1>2, <1>3, <1>4, <2>1, SameAttempts
  <2>2. CASE o = q
    <3>1. RoutedTo(q) /\ Tried(q) /\ Replied(q)
      BY <1>2 DEF AttemptsInv
    <3>2. Routes!Limit(q)' = Routes!Limit(q)
      BY <1>1 DEF Routes!Limit
    <3>3. RoutedTo(q)' /\ Tried(q)'
      BY <1>1, <3>1, <3>2 DEF RoutedTo, Tried
    <3>4. Replied(q)'
      BY <1>3, <1>4 DEF Replied
    <3> QED BY <2>2, <3>3, <3>4
  <2> QED BY <2>1, <2>2
<1> QED BY <1>5, <1>8, <1>9, <1>10 DEF RoutingInv

LEMMA OwnIndexKeeps == ASSUME RoutingInv, NEW q \in Requests, Routes!OwnIndex(q) PROVE RoutingInv'
<1>1. /\ Routes!At(q, "new", "routing") /\ front[q] \in {"cli", "gateway"}
      /\ UNCHANGED <<front, routers, initialized, ownRouter, raced, misrouted, routed, attempts, reply>>
      /\ \E P \in SUBSET Skill : previous' = [previous EXCEPT ![q] = P]
  <2>1. PICK P \in {{}} \cup {{s} : s \in IF front[q] = "cli" THEN {} ELSE Skill} :
          previous' = [previous EXCEPT ![q] = P]
    BY DEF Routes!OwnIndex
  <2>2. P \in SUBSET Skill
    OBVIOUS
  <2> QED BY <2>1, <2>2 DEF Routes!OwnIndex, Routes!webRouter
<1>2. RoutingTypes /\ RacedInv /\ IndexInv /\ AttemptsInv
  BY DEF RoutingInv
<1>3. /\ request[q] = "new" /\ request'[q] = "routing"
      /\ \A o \in Requests : o # q => request'[o] = request[o]
      /\ request' \in [Requests -> {"new", "loading", "indexing", "routing", "running", "answered"}]
  BY <1>1, <1>2, AtShape
<1>4. previous' \in [Requests -> SUBSET Skill] /\ \A o \in Requests : o # q => previous'[o] = previous[o]
  BY <1>1, <1>2 DEF RoutingTypes
<1>5. RoutingTypes'
  BY <1>1, <1>2, <1>3, <1>4 DEF RoutingTypes
<1>6. Routes!Initialising' = Routes!Initialising
  BY <1>3 DEF Routes!Initialising
<1>7. RacedInv'
  BY <1>1, <1>2, <1>6 DEF RacedInv
<1>8. IndexInv'
  BY <1>1, <1>2, <1>3 DEF IndexInv
<1>9. AttemptsInv'
  BY <1>1, <1>2, <1>3, <1>4, ElsewhereSame
<1> QED BY <1>5, <1>7, <1>8, <1>9 DEF RoutingInv

LEMMA ByScoreLists ==
  ASSUME NEW D \in SUBSET Skill
  PROVE  /\ Routes!ByScore(D) \in Seq(D) /\ Len(Routes!ByScore(D)) = Cardinality(D)
         /\ Cardinality(D) \in Nat /\ (D # {} => Cardinality(D) # 0)
         /\ \A i, j \in 1..Cardinality(D) : Routes!ByScore(D)[i] = Routes!ByScore(D)[j] => i = j
<1> DEFINE n == Cardinality(D)
           best == Routes!ByScore(D)
<1>1. IsFiniteSet(D) /\ n \in Nat /\ (D # {} => n # 0)
  <2>1. IsFiniteSet(D)
    BY RoutingFacts, FS_Subset
  <2> QED BY <2>1, FS_CardinalityType, FS_EmptySet
<1>2. \E b : Descending(b, D, Score)
  BY <1>1, RoutingFacts, DescendingExists
<1>3. best = CHOOSE b \in [1..n -> D] : \A i, j \in 1..n : i < j => Score[b[i]] > Score[b[j]]
  BY RoutingFacts DEF Routes!ByScore
<1>4. best \in [1..n -> D] /\ \A i, j \in 1..n : i < j => Score[best[i]] > Score[best[j]]
  <2> HIDE DEF best
  <2> QED BY <1>2, <1>3 DEF Descending
<1> HIDE DEF best, n
<1>5. \A i, j \in 1..n : best[i] = best[j] => i = j
  <2>1. \A i \in 1..n : Score[best[i]] \in Nat
    BY <1>4, RoutingFacts
  <2> QED BY <1>1, <1>4, <2>1
<1>6. best \in Seq(D) /\ Len(best) = n
  BY <1>1, <1>4
<1> QED BY <1>1, <1>5, <1>6 DEF best, n

\* What the model may choose: candidates, each once.
LEMMA ChoicesAreCandidates ==
  ASSUME NEW D \in SUBSET Skill, NEW choice \in Routes!RouterChoices(D)
  PROVE  /\ choice \in Seq(Skill)
         /\ \A i \in 1..Len(choice) :
              /\ choice[i] \in D
              /\ \A j \in 1..Len(choice) : choice[i] = choice[j] => i = j
<1>1. CASE choice = <<>>
  BY <1>1
<1>2. CASE D # {} /\ choice = <<Routes!ByScore(D)[1]>>
  <2>1. Routes!ByScore(D)[1] \in D
    <3>1. 1 \in 1..Len(Routes!ByScore(D))
      BY <1>2, ByScoreLists
    <3> QED BY <3>1, ByScoreLists
  <2> QED BY <1>2, <2>1
<1>3. ASSUME NEW s \in D, choice = <<s>> \o Routes!ByScore(D \ {s})
      PROVE  /\ choice \in Seq(Skill)
             /\ \A i \in 1..Len(choice) :
                  /\ choice[i] \in D
                  /\ \A j \in 1..Len(choice) : choice[i] = choice[j] => i = j
  <2> DEFINE rest == Routes!ByScore(D \ {s})
             n == Len(rest)
  <2>1. D \ {s} \in SUBSET Skill
    OBVIOUS
  <2>2. /\ rest \in Seq(D \ {s}) /\ n \in Nat
        /\ \A i, j \in 1..n : rest[i] = rest[j] => i = j
    BY <2>1, ByScoreLists
  <2>3. choice = <<s>> \o rest
    BY <1>3
  <2> HIDE DEF rest, n
  <2>4. <<s>> \in Seq(D) /\ rest \in Seq(D) /\ n = Len(rest) /\ \A i \in 1..n : rest[i] \in D \ {s}
    BY <2>2 DEF n
  <2>5. /\ choice \in Seq(D) /\ Len(choice) = n + 1 /\ choice[1] = s
        /\ \A i \in 1..(n + 1) : i # 1 => i - 1 \in 1..n /\ choice[i] = rest[i - 1]
    BY <2>2, <2>3, <2>4
  <2>6. ASSUME NEW i \in 1..Len(choice), NEW j \in 1..Len(choice), choice[i] = choice[j]
        PROVE  i = j
    <3>1. CASE i = 1 /\ j # 1
      BY <2>4, <2>5, <2>6, <3>1
    <3>2. CASE j = 1 /\ i # 1
      BY <2>4, <2>5, <2>6, <3>2
    <3>3. CASE i # 1 /\ j # 1
      <4>1. rest[i - 1] = rest[j - 1] /\ i - 1 \in 1..n /\ j - 1 \in 1..n
        BY <2>5, <2>6, <3>3
      <4>2. i - 1 = j - 1
        BY <2>2, <4>1
      <4> QED BY <2>2, <2>5, <4>2
    <3> QED BY <3>1, <3>2, <3>3
  <2> QED BY <2>5, <2>6
<1> QED BY <1>1, <1>2, <1>3 DEF Routes!RouterChoices

LEMMA CandidatesEligible ==
  ASSUME NEW embedded \in SUBSET Skill PROVE Routes!Candidates(embedded) \subseteq Eligible
<1>1. \A S, k : Routes!Top(S, k) \subseteq S
  BY DEF Routes!Top
<1> HIDE DEF Routes!Top
<1> QED BY <1>1 DEF Routes!Candidates

\* A web request is routed without an index only after two have raced.
LEMMA RoutedAfterRace ==
  ASSUME RoutingInv, initialized, ~Routes!Last(routers)
  PROVE  \E q \in raced : request[q] = "indexing"
<1>1. routers \in Seq(BOOLEAN) /\ Len(routers) # 0
  BY DEF RoutingInv, RoutingTypes, IndexInv
<1>2. Len(routers) \in 1..Len(routers) /\ ~routers[Len(routers)]
  BY <1>1 DEF Routes!Last
<1>3. PICK q \in Requests : request[q] = "indexing"
  BY <1>2 DEF RoutingInv, IndexInv
<1>4. q \in Routes!Initialising
  BY <1>3 DEF Routes!Initialising
<1> QED BY <1>3, <1>4 DEF RoutingInv, RacedInv

LEMMA RouteKeeps == ASSUME RoutingInv, NEW q \in Requests, Routes!Route(q) PROVE RoutingInv'
<1>1. /\ Routes!At(q, "routing", "running")
      /\ UNCHANGED <<front, routers, initialized, ownRouter, raced, previous, attempts, reply>>
  BY DEF Routes!Route, Routes!webRouter
<1>2. RoutingTypes /\ RacedInv /\ IndexInv /\ AttemptsInv
  BY DEF RoutingInv
<1>3. /\ request[q] = "routing" /\ request'[q] = "running"
      /\ \A o \in Requests : o # q => request'[o] = request[o]
      /\ request' \in [Requests -> {"new", "loading", "indexing", "routing", "running", "answered"}]
  BY <1>1, <1>2, AtShape
<1>4. /\ routed' \in [Requests -> Seq(Skill)] /\ \A o \in Requests : o # q => routed'[o] = routed[o]
      /\ \A i \in 1..Len(routed'[q]) :
           /\ routed'[q][i] \in Eligible \cup previous[q]
           /\ \A j \in 1..Len(routed'[q]) : routed'[q][i] = routed'[q][j] => i = j
  <2>1. CASE routed' = routed
    BY <1>2, <2>1 DEF RoutingTypes, AttemptsInv, RoutedTo
  <2>2. CASE Routes!Indexed(q)
    <3>1. PICK embedded \in SUBSET Skill :
            LET C == Routes!Candidates(embedded) IN
            \E choice \in Routes!RouterChoices(IF C = {} THEN C ELSE C \cup previous[q]) :
              routed' = [routed EXCEPT ![q] = choice]
      BY <2>2 DEF Routes!Route
    <3> DEFINE C == Routes!Candidates(embedded)
               D == IF C = {} THEN C ELSE C \cup previous[q]
    <3>2. PICK choice \in Routes!RouterChoices(D) : routed' = [routed EXCEPT ![q] = choice]
      BY <3>1
    <3>3. C \subseteq Eligible
      BY CandidatesEligible
    <3>4. previous[q] \subseteq Skill /\ Eligible \subseteq Skill
      BY <1>2, RoutingFacts DEF RoutingTypes
    <3> HIDE DEF C
    <3>5. D \subseteq Eligible \cup previous[q] /\ D \in SUBSET Skill
      BY <3>3, <3>4
    <3> HIDE DEF D
    <3>6. /\ choice \in Seq(Skill)
          /\ \A i \in 1..Len(choice) :
               choice[i] \in D /\ \A j \in 1..Len(choice) : choice[i] = choice[j] => i = j
      BY <3>2, <3>5, ChoicesAreCandidates
    <3>7. /\ routed' \in [Requests -> Seq(Skill)] /\ routed'[q] = choice
          /\ \A o \in Requests : o # q => routed'[o] = routed[o]
      BY <1>2, <3>2, <3>6 DEF RoutingTypes
    <3> QED BY <3>5, <3>6, <3>7
  <2> QED BY <2>1, <2>2 DEF Routes!Route
<1>5. /\ misrouted' \subseteq Requests
      /\ misrouted' = misrouted \/ raced # {}
  <2>1. CASE Routes!Indexed(q)
    BY <1>2, <2>1 DEF Routes!Route, RoutingTypes
  <2>2. CASE ~Routes!Indexed(q)
    <3>1. front[q] = "web" /\ ~Routes!Last(routers)
      BY <2>2 DEF Routes!Indexed
    <3>2. initialized
      BY <1>2, <1>3, <3>1 DEF IndexInv
    <3>3. raced # {}
      BY <3>1, <3>2, RoutedAfterRace
    <3>4. misrouted' = misrouted \cup {q}
      BY <2>2 DEF Routes!Route
    <3> QED BY <1>2, <3>3, <3>4 DEF RoutingTypes
  <2> QED BY <2>1, <2>2
<1>6. RoutingTypes'
  BY <1>1, <1>2, <1>3, <1>4, <1>5 DEF RoutingTypes
<1>7. Routes!Initialising' = Routes!Initialising
  BY <1>3 DEF Routes!Initialising
<1>8. RacedInv'
  BY <1>1, <1>2, <1>5, <1>7 DEF RacedInv
<1>9. IndexInv'
  BY <1>1, <1>2, <1>3 DEF IndexInv
<1>10. AttemptsInv'
  <2> SUFFICES ASSUME NEW o \in Requests PROVE RoutedTo(o)' /\ Tried(o)' /\ Replied(o)'
    BY DEF AttemptsInv
  <2>1. CASE o # q
    BY <1>1, <1>2, <1>3, <1>4, <2>1, SameAttempts
  <2>2. CASE o = q
    <3>1. RoutedTo(q)'
      BY <1>1, <1>4 DEF RoutedTo
    <3>2. Replied(q)
      BY <1>2 DEF AttemptsInv
    <3>3. /\ attempts'[q] = <<>> /\ reply'[q] = "none" /\ Len(<<>>) = 0 /\ 1..0 = {}
          /\ 1..0 - 1 = {}
      BY <1>1, <1>3, <3>2 DEF Replied
    <3>4. 0 <= Routes!Limit(q)'
      <4>1. routed'[q] \in Seq(Skill)
        BY <1>4
      <4>2. Len(routed'[q]) \in Nat /\ 1 \in Nat /\ MaxAttempts \in Nat
        BY <4>1, RoutingFacts
      <4>3. /\ Routes!Min({1, Len(routed'[q])}) \in Nat
            /\ Routes!Min({MaxAttempts, Len(routed'[q])}) \in Nat
        BY <4>2, MinOfTwo
      <4>4. Routes!Limit(q)' \in {Routes!Min({1, Len(routed'[q])}), Routes!Min({MaxAttempts, Len(routed'[q])})}
        BY DEF Routes!Limit
      <4> QED BY <4>3, <4>4
    <3>5. Tried(q)' /\ Replied(q)'
      BY <1>3, <3>3, <3>4 DEF Tried, Replied
    <3> QED BY <2>2, <3>1, <3>5
  <2> QED BY <2>1, <2>2
<1> QED BY <1>6, <1>8, <1>9, <1>10 DEF RoutingInv

LEMMA RunKeeps == ASSUME RoutingInv, NEW q \in Requests, Routes!Run(q) PROVE RoutingInv'
<1> DEFINE n == Len(attempts[q])
<1>1. /\ request[q] = "running" /\ n < Routes!Limit(q)
      /\ request' = [request EXCEPT ![q] = IF reply'[q] = "none" THEN "running" ELSE "answered"]
      /\ UNCHANGED <<front, routers, initialized, ownRouter, raced, misrouted, previous, routed>>
  BY DEF Routes!Run, Routes!webRouter
<1>2. RoutingTypes /\ RacedInv /\ IndexInv /\ AttemptsInv
  BY DEF RoutingInv
<1>3. PICK out \in Routes!Outcomes :
        /\ attempts' = [attempts EXCEPT ![q] =
             Append(@, [skill |-> routed[q][Len(@) + 1], outcome |-> out])]
        /\ reply' = [reply EXCEPT ![q] = Routes!Ends(front[q], out)]
  BY DEF Routes!Run
<1>4. /\ routed[q] \in Seq(Skill) /\ attempts[q] \in Seq(Routes!Attempt)
      /\ attempts \in [Requests -> Seq(Routes!Attempt)]
      /\ front[q] \in {"web", "cli", "gateway"} /\ n \in Nat
  BY <1>2 DEF RoutingTypes
<1>5. Routes!Limit(q) \in Nat /\ n + 1 \in 1..Len(routed[q]) /\ n + 1 <= Routes!Limit(q)
  <2>1. Routes!Limit(q) \in Nat /\ Routes!Limit(q) <= Len(routed[q])
    BY <1>4, LimitIs
  <2> QED BY <1>1, <1>4, <2>1
<1> DEFINE new == [skill |-> routed[q][n + 1], outcome |-> out]
<1>6. new \in Routes!Attempt /\ new.skill = routed[q][n + 1] /\ new.outcome = out
  <2>1. routed[q][n + 1] \in Skill
    BY <1>4, <1>5
  <2> QED BY <2>1 DEF Routes!Attempt
<1>a. attempts' = [attempts EXCEPT ![q] = Append(attempts[q], new)]
  BY <1>3
<1> HIDE DEF new
<1>7. /\ attempts' \in [Requests -> Seq(Routes!Attempt)]
      /\ \A o \in Requests : o # q => attempts'[o] = attempts[o]
      /\ attempts'[q] = Append(attempts[q], new)
  BY <1>4, <1>6, <1>a
<1>8. /\ Len(attempts'[q]) = n + 1 /\ attempts'[q][n + 1] = new
      /\ \A i \in 1..n : attempts'[q][i] = attempts[q][i]
  BY <1>4, <1>6, <1>7
<1>9. /\ Routes!Ends(front[q], out) \in {"none", "skill", "missing", "error"}
      /\ Routes!Ends(front[q], out) = "skill" =>
           out \in IF front[q] = "gateway" THEN {"success", "failed"} ELSE {"success"}
      /\ Routes!Ends(front[q], out) = "none" => out # "success"
  BY <1>4 DEF Routes!Ends, Routes!Outcomes
<1>10. /\ reply' \in [Requests -> {"none", "model", "skill", "missing", "error"}]
       /\ reply'[q] = Routes!Ends(front[q], out)
       /\ \A o \in Requests : o # q => reply'[o] = reply[o]
  BY <1>2, <1>3, <1>9 DEF RoutingTypes
<1>11. /\ request'[q] = IF reply'[q] = "none" THEN "running" ELSE "answered"
       /\ \A o \in Requests : o # q => request'[o] = request[o]
       /\ request' \in [Requests -> {"new", "loading", "indexing", "routing", "running", "answered"}]
  BY <1>1, <1>2 DEF RoutingTypes
<1>12. RoutingTypes'
  BY <1>1, <1>2, <1>7, <1>10, <1>11 DEF RoutingTypes
<1>13. Routes!Initialising' = Routes!Initialising
  BY <1>1, <1>11 DEF Routes!Initialising
<1>14. RacedInv'
  BY <1>1, <1>2, <1>13 DEF RacedInv
<1>15. IndexInv'
  BY <1>1, <1>2, <1>11 DEF IndexInv
<1>16. AttemptsInv'
  <2> SUFFICES ASSUME NEW o \in Requests PROVE RoutedTo(o)' /\ Tried(o)' /\ Replied(o)'
    BY DEF AttemptsInv
  <2>1. CASE o # q
    BY <1>1, <1>2, <1>7, <1>10, <1>11, <2>1, SameAttempts
  <2>2. CASE o = q
    <3>1. RoutedTo(q) /\ Tried(q) /\ Replied(q)
      BY <1>2 DEF AttemptsInv
    <3>2. RoutedTo(q)'
      BY <1>1, <3>1 DEF RoutedTo
    <3>3. Routes!Limit(q)' = Routes!Limit(q)
      BY <1>1 DEF Routes!Limit
    <3>4. \A i \in 1..n : attempts[q][i].outcome # "success"
      BY <1>1, <3>1 DEF Replied
    <3>5. \A i \in 1..(n + 1) : i \in 1..n \/ i = n + 1
      BY <1>4
    <3>6. 1..Len(attempts'[q]) - 1 = 1..n
      BY <1>4, <1>8
    <3>7. \A i \in 1..Len(attempts'[q]) : attempts'[q][i].skill = routed'[q][i]
      BY <1>1, <1>6, <1>8, <3>1, <3>5 DEF Tried
    <3>8. Tried(q)'
      BY <1>5, <1>8, <3>3, <3>4, <3>6, <3>7 DEF Tried
    <3>9. reply'[q] = "none" => \A i \in 1..Len(attempts'[q]) : attempts'[q][i].outcome # "success"
      BY <1>6, <1>8, <1>9, <1>10, <3>4, <3>5
    <3>10. reply'[q] = "skill" =>
             /\ Len(attempts'[q]) > 0
             /\ attempts'[q][Len(attempts'[q])].outcome
                  \in IF front'[q] = "gateway" THEN {"success", "failed"} ELSE {"success"}
      BY <1>1, <1>4, <1>6, <1>8, <1>9, <1>10
    <3>11. reply'[q] # "model"
      BY <1>9, <1>10
    <3>12. Replied(q)'
      BY <1>11, <3>9, <3>10, <3>11 DEF Replied
    <3> QED BY <2>2, <3>2, <3>8, <3>12
  <2> QED BY <2>1, <2>2
<1> QED BY <1>12, <1>14, <1>15, <1>16 DEF RoutingInv

LEMMA FallbackKeeps == ASSUME RoutingInv, NEW q \in Requests, Routes!Fallback(q) PROVE RoutingInv'
<1>1. /\ Len(attempts[q]) = Routes!Limit(q) /\ Routes!At(q, "running", "answered")
      /\ UNCHANGED <<front, routers, initialized, ownRouter, raced, misrouted, previous, routed, attempts>>
  BY DEF Routes!Fallback, Routes!webRouter
<1>2. RoutingTypes /\ RacedInv /\ IndexInv /\ AttemptsInv
  BY DEF RoutingInv
<1>3. /\ request[q] = "running" /\ request'[q] = "answered"
      /\ \A o \in Requests : o # q => request'[o] = request[o]
      /\ request' \in [Requests -> {"new", "loading", "indexing", "routing", "running", "answered"}]
  BY <1>1, <1>2, AtShape
<1>4. PICK r \in {"model", "error"} : reply' = [reply EXCEPT ![q] = r]
  BY DEF Routes!Fallback
<1>5. /\ reply' \in [Requests -> {"none", "model", "skill", "missing", "error"}]
      /\ reply'[q] \in {"model", "error"} /\ \A o \in Requests : o # q => reply'[o] = reply[o]
  BY <1>2, <1>4 DEF RoutingTypes
<1>6. RoutingTypes'
  BY <1>1, <1>2, <1>3, <1>5 DEF RoutingTypes
<1>7. Routes!Initialising' = Routes!Initialising
  BY <1>3 DEF Routes!Initialising
<1>8. RacedInv'
  BY <1>1, <1>2, <1>7 DEF RacedInv
<1>9. IndexInv'
  BY <1>1, <1>2, <1>3 DEF IndexInv
<1>10. AttemptsInv'
  <2> SUFFICES ASSUME NEW o \in Requests PROVE RoutedTo(o)' /\ Tried(o)' /\ Replied(o)'
    BY DEF AttemptsInv
  <2>1. CASE o # q
    BY <1>1, <1>2, <1>3, <1>5, <2>1, SameAttempts
  <2>2. CASE o = q
    <3>1. RoutedTo(q) /\ Tried(q) /\ Replied(q)
      BY <1>2 DEF AttemptsInv
    <3>2. RoutedTo(q)'
      BY <1>1, <3>1 DEF RoutedTo
    <3>3. Routes!Limit(q)' = Routes!Limit(q)
      BY <1>1 DEF Routes!Limit
    <3>4. Tried(q)'
      BY <1>1, <3>1, <3>3 DEF Tried
    <3>5. Replied(q)'
      BY <1>1, <1>3, <1>5, <3>1, <3>3 DEF Replied
    <3> QED BY <2>2, <3>2, <3>4, <3>5
  <2> QED BY <2>1, <2>2
<1> QED BY <1>6, <1>8, <1>9, <1>10 DEF RoutingInv

LEMMA RoutingKeeps == RoutingInv /\ [Routes!RoutingNext]_(Routes!routingVars) => RoutingInv'
<1> SUFFICES ASSUME RoutingInv, [Routes!RoutingNext]_(Routes!routingVars) PROVE RoutingInv'
  OBVIOUS
<1>1. CASE UNCHANGED Routes!routingVars
  <2>1. UNCHANGED <<front, routers, initialized, request, ownRouter, raced, misrouted, previous,
                    routed, attempts, reply>>
    BY <1>1 DEF Routes!routingVars
  <2>2. Routes!Initialising' = Routes!Initialising
    BY <2>1 DEF Routes!Initialising
  <2>3. RoutingTypes' /\ IndexInv' /\ RacedInv'
    BY <2>1, <2>2 DEF RoutingInv, RoutingTypes, IndexInv, RacedInv
  <2>4. \A q \in Requests : RoutedTo(q)' /\ Tried(q)' /\ Replied(q)'
    BY <2>1, SameAttempts DEF RoutingInv
  <2>5. AttemptsInv'
    BY <2>4 DEF AttemptsInv
  <2> QED BY <2>3, <2>5 DEF RoutingInv
<1> QED BY <1>1, WebBeginsKeeps, WebRouterKeeps, WebReadyKeeps, WebFailsKeeps, OwnIndexKeeps,
           RouteKeeps, RunKeeps, FallbackKeeps DEF Routes!RoutingNext

LEMMA RoutingFollows == RoutingInv => Routes!RoutedWhole /\ Routes!AnswerEarned /\ Routes!RoutingTypeOK
<1> SUFFICES ASSUME RoutingInv PROVE Routes!RoutedWhole /\ Routes!AnswerEarned /\ Routes!RoutingTypeOK
  OBVIOUS
<1>1. misrouted # {} => Routes!Cardinality(raced) > 1
  <2> SUFFICES ASSUME misrouted # {} PROVE Cardinality(raced) > 1
    BY RoutingFacts
  <2>1. PICK a, b \in raced : a # b
    BY DEF RoutingInv, RacedInv
  <2>2. IsFiniteSet(raced)
    BY DEF RoutingInv, RacedInv
  <2>3. Cardinality(raced) \in Nat /\ raced # {}
    BY <2>1, <2>2, FS_CardinalityType
  <2>4. Cardinality(raced) # 0
    BY <2>2, <2>3, FS_EmptySet
  <2>5. Cardinality(raced) # 1
    <3> SUFFICES ASSUME Cardinality(raced) = 1 PROVE FALSE
      OBVIOUS
    <3>1. IsFiniteSet(raced \ {a}) /\ Cardinality(raced \ {a}) = 0
      BY <2>1, <2>2, FS_RemoveElement
    <3>2. raced \ {a} = {}
      BY <3>1, FS_EmptySet
    <3> QED BY <2>1, <3>2
  <2> QED BY <2>3, <2>4, <2>5
<1>2. Routes!RoutedWhole
  BY <1>1, RoutedAfterRace DEF Routes!RoutedWhole
<1>3. ASSUME NEW q \in Requests
      PROVE  /\ \A i \in 1..Len(attempts[q]) :
                  /\ attempts[q][i].skill \in Eligible \cup previous[q]
                  /\ \A j \in 1..Len(attempts[q]) :
                       attempts[q][i].skill = attempts[q][j].skill => i = j
             /\ Len(attempts[q]) <= MaxAttempts
  <2>1. RoutedTo(q) /\ Tried(q) /\ routed[q] \in Seq(Skill) /\ attempts[q] \in Seq(Routes!Attempt)
    BY DEF RoutingInv, AttemptsInv, RoutingTypes
  <2>2. /\ Routes!Limit(q) \in Nat /\ Routes!Limit(q) <= MaxAttempts
        /\ Routes!Limit(q) <= Len(routed[q]) /\ MaxAttempts \in Nat
    BY <2>1, LimitIs, RoutingFacts
  <2>3. Len(attempts[q]) <= Routes!Limit(q)
    BY <2>1 DEF Tried
  <2>4. \A i \in 1..Len(attempts[q]) : i \in 1..Len(routed[q]) /\ attempts[q][i].skill = routed[q][i]
    BY <2>1, <2>2, <2>3 DEF Tried
  <2>5. Len(attempts[q]) <= MaxAttempts
    BY <2>1, <2>2, <2>3
  <2> QED BY <2>1, <2>4, <2>5 DEF RoutedTo
<1>4. Routes!AnswerEarned
  BY <1>3 DEF RoutingInv, AttemptsInv, Tried, Replied, Routes!AnswerEarned
<1>5. Routes!RoutingTypeOK
  BY DEF RoutingInv, RoutingTypes, Routes!RoutingTypeOK
<1> QED BY <1>2, <1>4, <1>5

(***************************************************************************)
(* The registry's cache.  What a load has read of a file is what is on     *)
(* disk unless a change was masked; a cache is what one load has read,     *)
(* under the hash it then made.                                            *)
(***************************************************************************)
LoadingAt == {"listing", "finding", "reading", "saving"}
\* The loads that have read files themselves, and those that have hashed them.
ReadSome(q) == loader[q] \in {"reading", "saving", "loaded"} /\ ~restored[q]
HashedOwn(q) == loader[q] \in {"saving", "loaded"} /\ ~restored[q]
IsMasked(f, content) == <<f, content>> \in masked \cup unseen
Had(p, f) == {Cache!Loaded(content) : content \in during[p][f]}
Missed(p, f) == skillMap[p][f] = 0 /\ \E content \in during[p][f] : <<f, content>> \in unseen

CacheTypes ==
  /\ disk \in [SkillFile -> [content : Cache!Contents, at : 1..MaxTicks]]
  /\ written \in Cache!Contents /\ tick \in 2..MaxTicks
  /\ loader \in [Loader -> {"new", "listing", "finding", "reading", "saving", "loaded"}]
  /\ listed \in [Loader -> SUBSET SkillFile] /\ unread \in [Loader -> SUBSET SkillFile]
  /\ skillMap \in [Loader -> [SkillFile -> Cache!Contents]]
  /\ during \in [Loader -> [SkillFile -> SUBSET Cache!Contents]]
  /\ masked \subseteq SkillFile \X Cache!Contents /\ unseen \subseteq SkillFile \X Cache!Contents
  /\ \A f \in SkillFile : disk[f].at <= tick

LoaderTypes ==
  /\ hashed \in [Loader -> Cache!Hashes] /\ restored \in [Loader -> BOOLEAN]
  /\ \A q \in Loader : restored[q] => loader[q] = "loaded"
  /\ \A q \in Loader : loader[q] \in {"new", "listing", "finding"} => skillMap[q] = Cache!NoSkill

\* A load under way has seen what is on disk, and no file that it did not list.
DuringInv ==
  /\ \A p \in Loader, f \in SkillFile : loader[p] \in LoadingAt => disk[f].content \in during[p][f]
  /\ \A p \in Loader, f \in SkillFile :
       loader[p] = "finding" /\ f \notin listed[p] => 0 \in during[p][f]

ReadInv ==
  \A q \in Loader, f \in SkillFile : loader[q] = "reading" /\ f \notin unread[q] =>
    /\ skillMap[q][f] = Cache!Loaded(disk[f].content) \/ IsMasked(f, disk[f].content)
    /\ skillMap[q][f] \in Had(q, f) \/ Missed(q, f)

HashInv ==
  \A q \in Loader : HashedOwn(q) =>
    /\ DOMAIN hashed[q] = listed[q]
    /\ \A f \in listed[q] :
         /\ hashed[q][f] \in Int /\ hashed[q][f] <= disk[f].at
         /\ hashed[q][f] = disk[f].at =>
              skillMap[q][f] = Cache!Loaded(disk[f].content) \/ IsMasked(f, disk[f].content)
         /\ hashed[q][f] = 0 => skillMap[q][f] = 0 \/ IsMasked(f, 0)

\* A skill of a file that a load read and had not listed: the file is still there, or its
\* removal is masked; and a load that has not listed it either had it meanwhile.
UnlistedInv ==
  /\ \A q \in Loader, f \in SkillFile :
       ReadSome(q) /\ f \notin listed[q] /\ skillMap[q][f] # 0 =>
         disk[f].content # 0 \/ IsMasked(f, 0)
  /\ \A q, p \in Loader, f \in SkillFile :
       ReadSome(q) /\ loader[p] = "finding" /\ f \notin listed[q] /\ f \notin listed[p] =>
         skillMap[q][f] \in Had(p, f) \/ IsMasked(f, 0)

CacheFileInv ==
  \/ cacheFile \in {Cache!NoCache, Cache!TornCache}
  \/ \E q \in Loader : /\ loader[q] = "loaded" /\ ~restored[q]
                       /\ cacheFile = Cache!Cached(hashed[q], skillMap[q])

\* What a load has when it is done, or, once its files are hashed, will have.
FreshInv ==
  \A p \in Loader, f \in SkillFile : loader[p] \in {"saving", "loaded"} =>
    \/ skillMap[p][f] \in Had(p, f) \/ Missed(p, f)
    \/ restored[p] /\ \E content \in during[p][f] : IsMasked(f, content)

CacheInv ==
  /\ CacheTypes /\ LoaderTypes /\ DuringInv /\ ReadInv /\ HashInv /\ UnlistedInv
  /\ CacheFileInv /\ FreshInv

LEMMA CacheFacts ==
  /\ MaxContent \in Nat \ {0} /\ MaxTicks \in Nat /\ MaxTicks >= 2
  /\ 0 \in Cache!Contents /\ 0 \notin Malformed
  /\ \A c \in Cache!Contents : Cache!Loaded(c) \in Cache!Contents
  /\ Cache!Loaded(0) = 0
  /\ Cache!NoSkill \in [SkillFile -> Cache!Contents]
  /\ \A f \in SkillFile : Cache!NoSkill[f] = 0
<1>1. /\ MaxContent \in Nat \ {0} /\ MaxTicks \in Nat \ 0..1 /\ Malformed \subseteq 2..MaxContent
  BY ServicesAssumption DEF ServicesAssumption, Cache!CacheAssumption
<1>2. MaxTicks >= 2 /\ 0 \in Cache!Contents /\ 0 \notin Malformed
  BY <1>1 DEF Cache!Contents
<1> QED BY <1>1, <1>2 DEF Cache!Loaded, Cache!NoSkill

LEMMA NoHashTyped == Cache!NoHash \in Cache!Hashes
<1>1. Cache!NoHash \in [{} -> 0..MaxTicks]
  BY DEF Cache!NoHash
<1> QED BY <1>1 DEF Cache!Hashes

LEMMA CacheStarts == Cache!CacheInit => CacheInv
<1> SUFFICES ASSUME Cache!CacheInit PROVE CacheInv
  OBVIOUS
<1> USE CacheFacts DEF Cache!CacheInit
<1>1. CacheTypes
  BY DEF CacheTypes, Cache!Contents
<1>2. LoaderTypes
  BY NoHashTyped DEF LoaderTypes
<1>3. DuringInv /\ ReadInv /\ HashInv /\ UnlistedInv /\ FreshInv
  BY DEF DuringInv, ReadInv, HashInv, UnlistedInv, FreshInv, LoadingAt, HashedOwn, ReadSome
<1>4. CacheFileInv
  BY DEF CacheFileInv
<1> QED BY <1>1, <1>2, <1>3, <1>4 DEF CacheInv

\* What the edits of a file do.
LEMMA BecomesShape ==
  ASSUME CacheInv, NEW f \in SkillFile, NEW content \in Cache!Contents, Cache!Becomes(f, content)
  PROVE  /\ disk' = [disk EXCEPT ![f] = [content |-> content, at |-> tick]]
         /\ disk'[f].content = content /\ disk'[f].at = tick
         /\ \A g \in SkillFile \ {f} : disk'[g] = disk[g]
         /\ masked \subseteq masked' /\ masked' \subseteq masked \cup {<<f, content>>}
         /\ Cache!Masked(f, content) => IsMasked(f, content)'
         /\ during' \in [Loader -> [SkillFile -> SUBSET Cache!Contents]]
         /\ \A p \in Loader, g \in SkillFile : during[p][g] \subseteq during'[p][g]
         /\ \A p \in Loader : loader[p] \in LoadingAt => content \in during'[p][f]
         /\ UNCHANGED <<tick, cacheFile, loader, listed, unread, hashed, skillMap, restored, unseen>>
<1> USE DEF CacheInv, CacheTypes
<1>1. /\ disk' = [disk EXCEPT ![f] = [content |-> content, at |-> tick]]
      /\ during' = [p \in Loader |-> IF loader[p] \in {"new", "loaded"} THEN during[p]
                                     ELSE [during[p] EXCEPT ![f] = @ \cup {content}]]
      /\ masked' = IF Cache!Masked(f, content) THEN masked \cup {<<f, content>>} ELSE masked
      /\ UNCHANGED <<tick, cacheFile, loader, listed, unread, hashed, skillMap, restored, unseen>>
  BY DEF Cache!Becomes
<1>2. disk'[f].content = content /\ disk'[f].at = tick /\ \A g \in SkillFile \ {f} : disk'[g] = disk[g]
  BY <1>1
<1>3. during' \in [Loader -> [SkillFile -> SUBSET Cache!Contents]]
  BY <1>1
<1>4. \A p \in Loader, g \in SkillFile : during[p][g] \subseteq during'[p][g]
  BY <1>1
<1>5. \A p \in Loader : loader[p] \in LoadingAt => content \in during'[p][f]
  BY <1>1 DEF LoadingAt
<1> QED BY <1>1, <1>2, <1>3, <1>4, <1>5 DEF IsMasked

LEMMA Squeezed == \A a, b \in Int : a <= b /\ b <= a => a = b
OBVIOUS

LEMMA BecomesKeeps ==
  ASSUME CacheInv, NEW f \in SkillFile, NEW content \in Cache!Contents, Cache!Becomes(f, content),
         written' \in Cache!Contents
  PROVE  CacheInv'
<1> USE CacheFacts, BecomesShape DEF CacheInv
<1>1. CacheTypes'
  <2>1. disk' \in [SkillFile -> [content : Cache!Contents, at : 1..MaxTicks]]
    <3>1. tick \in 1..MaxTicks
      BY DEF CacheTypes
    <3>2. [content |-> content, at |-> tick] \in [content : Cache!Contents, at : 1..MaxTicks]
      BY <3>1
    <3> QED BY <3>2 DEF CacheTypes
  <2>2. masked' \subseteq SkillFile \X Cache!Contents
    BY DEF CacheTypes
  <2>3. ASSUME NEW g \in SkillFile PROVE disk'[g].at <= tick'
    <3>1. CASE g = f
      BY <3>1 DEF CacheTypes
    <3>2. CASE g # f
      BY <3>2 DEF CacheTypes
    <3> QED BY <3>1, <3>2
  <2> QED BY <2>1, <2>2, <2>3 DEF CacheTypes
<1>2. LoaderTypes'
  BY DEF LoaderTypes
<1>3. \A p \in Loader, g \in SkillFile :
        Had(p, g) \subseteq Had(p, g)' /\ (Missed(p, g) => Missed(p, g)')
  BY DEF Had, Missed, Cache!Loaded
<1>4. DuringInv'
  BY DEF DuringInv, LoadingAt
<1>5. ReadInv'
  <2> SUFFICES ASSUME NEW q \in Loader, NEW g \in SkillFile, loader[q] = "reading", g \notin unread[q]
               PROVE  /\ skillMap[q][g] = Cache!Loaded(disk'[g].content) \/ IsMasked(g, disk[g].content)'
                      /\ skillMap[q][g] \in Had(q, g)' \/ Missed(q, g)'
    BY DEF ReadInv
  <2>1. skillMap[q][g] \in Had(q, g)' \/ Missed(q, g)'
    BY <1>3 DEF ReadInv
  <2>2. CASE g = f
    <3>1. Cache!Masked(f, content)
      BY <2>2 DEF Cache!Masked
    <3>2. <<f, content>> \in masked' \cup unseen'
      BY <3>1 DEF IsMasked
    <3>3. <<g, disk'[g].content>> \in masked' \cup unseen'
      BY <2>2, <3>2
    <3> QED BY <2>1, <3>3 DEF IsMasked
  <2>3. CASE g # f
    <3>1. disk'[g] = disk[g]
      BY <2>3
    <3>2. \/ skillMap[q][g] = Cache!Loaded(disk[g].content)
          \/ <<g, disk[g].content>> \in masked \cup unseen
      BY DEF ReadInv, IsMasked, Missed
    <3>3. \/ skillMap[q][g] = Cache!Loaded(disk'[g].content)
          \/ <<g, disk'[g].content>> \in masked' \cup unseen'
      BY <3>1, <3>2
    <3> QED BY <2>1, <3>3 DEF IsMasked
  <2> QED BY <2>2, <2>3
<1>6. HashInv'
  <2> SUFFICES ASSUME NEW q \in Loader, HashedOwn(q)
               PROVE  /\ DOMAIN hashed[q] = listed[q]
                      /\ \A g \in listed[q] :
                           /\ hashed[q][g] \in Int /\ hashed[q][g] <= disk'[g].at
                           /\ hashed[q][g] = disk'[g].at =>
                                skillMap[q][g] = Cache!Loaded(disk'[g].content)
                                  \/ IsMasked(g, disk[g].content)'
                           /\ hashed[q][g] = 0 => skillMap[q][g] = 0 \/ IsMasked(g, 0)'
    BY DEF HashInv, HashedOwn
  <2>1. DOMAIN hashed[q] = listed[q] /\ listed[q] \subseteq SkillFile
    BY DEF HashInv, CacheTypes
  <2>2. ASSUME NEW g \in listed[q]
        PROVE  /\ hashed[q][g] \in Int /\ hashed[q][g] <= disk'[g].at
               /\ hashed[q][g] = disk'[g].at =>
                    skillMap[q][g] = Cache!Loaded(disk'[g].content) \/ IsMasked(g, disk[g].content)'
               /\ hashed[q][g] = 0 => skillMap[q][g] = 0 \/ IsMasked(g, 0)'
    <3>1. /\ hashed[q][g] \in Int /\ hashed[q][g] <= disk[g].at
          /\ hashed[q][g] = disk[g].at =>
               skillMap[q][g] = Cache!Loaded(disk[g].content) \/ IsMasked(g, disk[g].content)
          /\ hashed[q][g] = 0 => skillMap[q][g] = 0 \/ IsMasked(g, 0)
      BY DEF HashInv
    <3>2. disk[g].at <= tick /\ disk[g].at \in Int /\ tick \in Int
      BY <2>1 DEF CacheTypes
    <3>3. CASE g = f
      <4>1. disk'[g].at = tick /\ disk'[g].content = content
        BY <3>3
      <4>2. ASSUME hashed[q][g] = tick PROVE <<g, disk'[g].content>> \in masked' \cup unseen'
        <5>1. disk[f].at = tick
          BY Squeezed, <3>1, <3>2, <3>3, <4>2, Zenon
        <5>2. Cache!Masked(f, content)
          BY <5>1 DEF Cache!Masked
        <5> QED BY <3>3, <4>1, <5>2 DEF IsMasked
      <4>3. hashed[q][g] <= tick
        BY <3>1, <3>2
      <4>4. IsMasked(g, 0) => IsMasked(g, 0)'
        BY DEF IsMasked
      <4>5. hashed[q][g] = disk'[g].at => IsMasked(g, disk[g].content)'
        BY <4>1, <4>2 DEF IsMasked
      <4> QED BY <3>1, <4>1, <4>3, <4>4, <4>5
    <3>4. CASE g # f
      <4>1. disk'[g] = disk[g]
        BY <2>1, <3>4
      <4>2. masked \cup unseen \subseteq masked' \cup unseen'
        OBVIOUS
      <4> QED BY <3>1, <4>1, <4>2, Zenon DEF IsMasked
    <3> QED BY <3>3, <3>4
  <2> QED BY <2>1, <2>2
<1>7. UnlistedInv'
  <2>1. ASSUME NEW q \in Loader, NEW g \in SkillFile, ReadSome(q), g \notin listed[q], skillMap[q][g] # 0
        PROVE  disk'[g].content # 0 \/ IsMasked(g, 0)'
    <3>1. disk[g].content # 0 \/ IsMasked(g, 0)
      BY <2>1 DEF UnlistedInv
    <3>2. IsMasked(g, 0) => IsMasked(g, 0)'
      BY DEF IsMasked
    <3>3. CASE g = f /\ content = 0
      <4>1. q \in Loader /\ skillMap[q][f] # 0 /\ f \notin listed[q]
        BY <2>1, <3>3
      <4>2. Cache!Masked(f, content)
        BY <3>3, <4>1 DEF Cache!Masked
      <4> QED BY <3>3, <4>2
    <3>4. CASE g # f \/ content # 0
      BY <3>1, <3>2, <3>4
    <3> QED BY <3>3, <3>4
  <2>2. ASSUME NEW q \in Loader, NEW p \in Loader, NEW g \in SkillFile, ReadSome(q),
               loader[p] = "finding", g \notin listed[q], g \notin listed[p]
        PROVE  skillMap[q][g] \in Had(p, g)' \/ IsMasked(g, 0)'
    BY <1>3, <2>2 DEF UnlistedInv, IsMasked
  <2> QED BY <2>1, <2>2 DEF UnlistedInv, ReadSome
<1>8. CacheFileInv'
  BY DEF CacheFileInv
<1>9. FreshInv'
  <2> SUFFICES ASSUME NEW q \in Loader, NEW g \in SkillFile, loader[q] \in {"saving", "loaded"}
               PROVE  \/ skillMap[q][g] \in Had(q, g)' \/ Missed(q, g)'
                      \/ restored[q] /\ \E c \in during'[q][g] : IsMasked(g, c)'
    BY DEF FreshInv
  <2>1. \A c : IsMasked(g, c) => IsMasked(g, c)'
    BY DEF IsMasked
  <2>2. during[q][g] \subseteq during'[q][g]
    OBVIOUS
  <2> QED BY <1>3, <2>1, <2>2 DEF FreshInv
<1> QED BY <1>1, <1>2, <1>4, <1>5, <1>6, <1>7, <1>8, <1>9


\* A load takes a step: the files are as they were.
LEMMA LoadersStep ==
  ASSUME CacheInv, NEW p \in Loader, NEW from, NEW to \in {"listing", "finding", "reading", "saving", "loaded"},
         Cache!Goes(p, from, to)
  PROVE  /\ loader[p] = from /\ loader' = [loader EXCEPT ![p] = to] /\ loader'[p] = to
         /\ loader' \in [Loader -> {"new", "listing", "finding", "reading", "saving", "loaded"}]
         /\ \A q \in Loader \ {p} : loader'[q] = loader[q]
         /\ UNCHANGED <<disk, written, tick, masked>>
BY DEF CacheInv, CacheTypes, Cache!Goes

\* What is true of a load that the step leaves alone stays true.
LEMMA LoadStays ==
  ASSUME NEW q \in Loader, NEW f \in SkillFile, UNCHANGED <<disk, masked>>, unseen \subseteq unseen',
         UNCHANGED <<skillMap[q], during[q], restored[q]>>
  PROVE  /\ Had(q, f)' = Had(q, f) /\ (Missed(q, f) => Missed(q, f)')
         /\ IsMasked(f, disk[f].content) => IsMasked(f, disk[f].content)'
         /\ IsMasked(f, 0) => IsMasked(f, 0)'
         /\ (\E c \in during[q][f] : IsMasked(f, c)) => (\E c \in during[q][f] : IsMasked(f, c))'
         /\ skillMap'[q][f] = skillMap[q][f] /\ disk'[f] = disk[f]
<1>1. Had(q, f)' = Had(q, f)
  BY DEF Had
<1>2. skillMap'[q][f] = skillMap[q][f] /\ during'[q][f] = during[q][f] /\ disk'[f] = disk[f]
  OBVIOUS
<1>3. Missed(q, f) => Missed(q, f)'
  BY <1>2 DEF Missed
<1>4. masked \cup unseen \subseteq masked' \cup unseen'
  OBVIOUS
<1>5. IsMasked(f, disk[f].content) => IsMasked(f, disk[f].content)'
  BY <1>2, <1>4 DEF IsMasked
<1>6. (\E c \in during[q][f] : IsMasked(f, c)) => (\E c \in during[q][f] : IsMasked(f, c))'
  BY <1>2, <1>4, Zenon DEF IsMasked
<1>7. IsMasked(f, 0) => IsMasked(f, 0)'
  BY <1>4 DEF IsMasked
<1> QED BY <1>1, <1>2, <1>3, <1>5, <1>6, <1>7

LEMMA BeginKeepsCache ==
  ASSUME CacheInv, NEW p \in Loader, Cache!Begin(p) PROVE CacheInv'
<1> USE CacheFacts DEF CacheInv
<1>1. /\ loader[p] = "new" /\ loader'[p] = "listing" /\ loader' = [loader EXCEPT ![p] = "listing"]
      /\ loader' \in [Loader -> {"new", "listing", "finding", "reading", "saving", "loaded"}]
      /\ \A q \in Loader \ {p} : loader'[q] = loader[q]
      /\ during' = [during EXCEPT ![p] = [f \in SkillFile |-> {disk[f].content}]]
      /\ UNCHANGED <<disk, written, tick, masked, unseen, cacheFile, listed, unread, hashed, skillMap, restored>>
  BY LoadersStep DEF Cache!Begin
<1>2. /\ during' \in [Loader -> [SkillFile -> SUBSET Cache!Contents]]
      /\ \A f \in SkillFile : during'[p][f] = {disk[f].content}
      /\ \A q \in Loader \ {p} : during'[q] = during[q]
  BY <1>1 DEF CacheTypes
<1>3. CacheTypes'
  BY <1>1, <1>2 DEF CacheTypes
<1>4. LoaderTypes' /\ CacheFileInv'
  BY <1>1 DEF LoaderTypes, CacheFileInv
<1>5. DuringInv'
  BY <1>1, <1>2 DEF DuringInv, LoadingAt
<1>6. \A q \in Loader \ {p}, f \in SkillFile : Had(q, f)' = Had(q, f)
  BY <1>2 DEF Had, Cache!Loaded
<1>7. ReadInv' /\ FreshInv'
  <2>1. \A q \in Loader : loader'[q] \in {"reading", "saving", "loaded"} => q # p
    BY <1>1
  <2>2. ReadInv'
    BY <1>1, <1>2, <2>1, LoadStays DEF ReadInv
  <2>3. FreshInv'
    BY <1>1, <1>2, <2>1, LoadStays DEF FreshInv
  <2> QED BY <2>2, <2>3
<1>8. \A q \in Loader : (HashedOwn(q)' => HashedOwn(q)) /\ (ReadSome(q)' => ReadSome(q))
  BY <1>1 DEF HashedOwn, ReadSome
<1>9. HashInv'
  BY <1>1, <1>8 DEF HashInv, IsMasked
<1>10. UnlistedInv'
  BY <1>1, <1>6, <1>8 DEF UnlistedInv, IsMasked
<1> QED BY <1>3, <1>4, <1>5, <1>7, <1>9, <1>10

LEMMA EditsKeepCache ==
  ASSUME CacheInv, NEW f \in SkillFile, Cache!Edit(f) \/ Cache!Delete(f) PROVE CacheInv'
<1> USE CacheFacts DEF CacheInv
<1>1. CASE Cache!Edit(f)
  <2>1. written + 1 \in Cache!Contents /\ Cache!Becomes(f, written + 1) /\ written' = written + 1
    BY <1>1 DEF Cache!Edit, CacheTypes, Cache!Contents
  <2> QED BY <2>1, BecomesKeeps
<1>2. CASE Cache!Delete(f)
  BY <1>2, BecomesKeeps DEF Cache!Delete, CacheTypes
<1> QED BY <1>1, <1>2

\* A step that changes nothing but the clock.
LEMMA TickKeepsCache == ASSUME CacheInv, Cache!Tick PROVE CacheInv'
<1> USE CacheFacts DEF CacheInv
<1>1. /\ tick' \in 2..MaxTicks /\ tick' = tick + 1
      /\ UNCHANGED <<disk, written, cacheFile, loader, listed, unread, hashed, skillMap, restored,
                     during, masked, unseen>>
  BY DEF Cache!Tick, CacheTypes
<1>2. CacheTypes'
  <2>1. \A f \in SkillFile : disk'[f].at <= tick'
    BY <1>1 DEF CacheTypes
  <2> QED BY <1>1, <2>1 DEF CacheTypes
<1>3. LoaderTypes' /\ CacheFileInv' /\ DuringInv'
  BY <1>1 DEF LoaderTypes, CacheFileInv, DuringInv, LoadingAt
<1>4. ReadInv'
  BY <1>1, LoadStays DEF ReadInv
<1>5. HashInv'
  BY <1>1 DEF HashInv, IsMasked, HashedOwn
<1>6. UnlistedInv'
  BY <1>1 DEF UnlistedInv, IsMasked, ReadSome, Had
<1>7. FreshInv'
  BY <1>1, LoadStays DEF FreshInv
<1> QED BY <1>2, <1>3, <1>4, <1>5, <1>6, <1>7

LEMMA ListKeepsCache ==
  ASSUME CacheInv, NEW p \in Loader, Cache!List(p) PROVE CacheInv'
<1> USE CacheFacts DEF CacheInv
<1>1. /\ loader[p] = "listing" /\ loader'[p] = "finding"
      /\ loader' \in [Loader -> {"new", "listing", "finding", "reading", "saving", "loaded"}]
      /\ \A q \in Loader \ {p} : loader'[q] = loader[q]
      /\ listed' \in [Loader -> SUBSET SkillFile] /\ listed'[p] = Cache!OnDisk
      /\ \A q \in Loader \ {p} : listed'[q] = listed[q]
      /\ UNCHANGED <<disk, written, tick, masked, unseen, cacheFile, unread, hashed, skillMap, restored, during>>
  BY LoadersStep DEF Cache!List, CacheTypes, Cache!OnDisk
<1>2. CacheTypes'
  BY <1>1 DEF CacheTypes
<1>3. LoaderTypes' /\ CacheFileInv'
  BY <1>1 DEF LoaderTypes, CacheFileInv
<1>4. \A q \in Loader, f \in SkillFile : Had(q, f)' = Had(q, f)
  BY <1>1 DEF Had
<1>5. \A q \in Loader : (HashedOwn(q)' <=> HashedOwn(q)) /\ (ReadSome(q)' <=> ReadSome(q))
  BY <1>1 DEF HashedOwn, ReadSome
<1>6. DuringInv'
  <2>1. \A f \in SkillFile \ listed'[p] : disk[f].content = 0
    BY <1>1 DEF Cache!OnDisk
  <2>2. \A f \in SkillFile : disk[f].content \in during[p][f]
    BY <1>1 DEF DuringInv, LoadingAt
  <2>3. \A f \in SkillFile \ listed'[p] : 0 \in during'[p][f]
    BY <2>1, <2>2, <1>1
  <2>4. \A q \in Loader, f \in SkillFile : loader'[q] = "finding" /\ f \notin listed'[q] => 0 \in during'[q][f]
    BY <1>1, <2>3 DEF DuringInv
  <2>5. \A q \in Loader, f \in SkillFile : loader'[q] \in LoadingAt => disk'[f].content \in during'[q][f]
    BY <1>1 DEF DuringInv, LoadingAt
  <2> QED BY <2>4, <2>5 DEF DuringInv, LoadingAt
<1>7. ReadInv' /\ FreshInv'
  <2>1. \A q \in Loader : loader'[q] \in {"reading", "saving", "loaded"} => q # p
    BY <1>1
  <2>2. ReadInv'
    BY <1>1, <2>1, LoadStays DEF ReadInv
  <2>3. FreshInv'
    BY <1>1, <2>1, LoadStays DEF FreshInv
  <2> QED BY <2>2, <2>3
<1>8. \A q \in Loader : ReadSome(q) => q # p /\ listed'[q] = listed[q]
  BY <1>1 DEF ReadSome
<1>9. HashInv'
  <2>1. \A q \in Loader : HashedOwn(q) => listed'[q] = listed[q]
    BY <1>1 DEF HashedOwn
  <2> QED BY <1>1, <1>5, <2>1 DEF HashInv, IsMasked
<1>10. UnlistedInv'
  <2>1. ASSUME NEW q \in Loader, NEW f \in SkillFile, ReadSome(q), f \notin listed[q],
               disk[f].content = 0
        PROVE  skillMap[q][f] \in Had(p, f) \/ IsMasked(f, 0)
    <3>1. disk[f].content \in during[p][f]
      BY <1>1 DEF DuringInv, LoadingAt
    <3>2. 0 \in Had(p, f)
      BY <2>1, <3>1 DEF Had
    <3>3. skillMap[q][f] = 0 \/ IsMasked(f, 0)
      BY <2>1 DEF UnlistedInv
    <3> QED BY <3>2, <3>3
  <2>2. \A q \in Loader, f \in SkillFile : ReadSome(q) /\ f \notin listed'[q] /\ f \notin listed'[p] =>
          skillMap[q][f] \in Had(p, f) \/ IsMasked(f, 0)
    BY <1>1, <1>8, <2>1 DEF Cache!OnDisk
  <2>3. \A q, r \in Loader, f \in SkillFile :
          ReadSome(q) /\ loader'[r] = "finding" /\ f \notin listed'[q] /\ f \notin listed'[r] =>
          skillMap[q][f] \in Had(r, f) \/ IsMasked(f, 0)
    BY <1>1, <1>8, <2>2 DEF UnlistedInv
  <2>4. \A q \in Loader, f \in SkillFile :
         ReadSome(q) /\ f \notin listed'[q] /\ skillMap[q][f] # 0 =>
         disk[f].content # 0 \/ IsMasked(f, 0)
    BY <1>8 DEF UnlistedInv
  <2> QED BY <1>1, <1>4, <1>5, <2>3, <2>4 DEF UnlistedInv, IsMasked
<1> QED BY <1>2, <1>3, <1>6, <1>7, <1>9, <1>10

LEMMA HitKeepsCache ==
  ASSUME CacheInv, NEW p \in Loader, Cache!Hit(p) PROVE CacheInv'
<1> USE CacheFacts DEF CacheInv
<1>0. PICK q \in Loader : /\ loader[q] = "loaded" /\ ~restored[q]
                          /\ cacheFile = Cache!Cached(hashed[q], skillMap[q])
  BY DEF Cache!Hit, CacheFileInv, Cache!NoCache, Cache!TornCache
<1>a. cacheFile.hash = hashed[q] /\ cacheFile.skills = skillMap[q]
  BY <1>0 DEF Cache!Cached
<1>b. /\ skillMap[q] \in [SkillFile -> Cache!Contents] /\ hashed[q] = Cache!FilesHash(listed[p])
  BY <1>a DEF CacheTypes, Cache!Hit
<1>1. /\ loader[p] = "finding" /\ loader'[p] = "loaded"
      /\ loader' \in [Loader -> {"new", "listing", "finding", "reading", "saving", "loaded"}]
      /\ \A r \in Loader \ {p} : loader'[r] = loader[r]
      /\ UNCHANGED <<disk, written, tick, masked, unseen, cacheFile, unread, listed, hashed, during>>
  BY LoadersStep DEF Cache!Hit
<1>2. /\ skillMap' \in [Loader -> [SkillFile -> Cache!Contents]] /\ skillMap'[p] = skillMap[q]
      /\ \A r \in Loader \ {p} : skillMap'[r] = skillMap[r]
  BY <1>a, <1>b DEF Cache!Hit, CacheTypes
<1>3. /\ restored' \in [Loader -> BOOLEAN] /\ restored'[p]
      /\ \A r \in Loader \ {p} : restored'[r] = restored[r]
  BY DEF Cache!Hit, LoaderTypes
<1>4. CacheTypes'
  BY <1>1, <1>2 DEF CacheTypes
<1>5. LoaderTypes'
  BY <1>1, <1>2, <1>3 DEF LoaderTypes
<1>6. DuringInv'
  BY <1>1 DEF DuringInv, LoadingAt
<1>7. \A r \in Loader, f \in SkillFile : Had(r, f)' = Had(r, f)
  BY <1>1 DEF Had
<1>8. \A r \in Loader : loader'[r] = "reading" \/ HashedOwn(r)' \/ ReadSome(r)' => r # p
  BY <1>1, <1>3 DEF HashedOwn, ReadSome
<1>9. \A r \in Loader : (HashedOwn(r)' => HashedOwn(r)) /\ (ReadSome(r)' => ReadSome(r))
  BY <1>1, <1>3, <1>8 DEF HashedOwn, ReadSome
<1>10. ReadInv'
  BY <1>1, <1>2, <1>3, <1>8, LoadStays DEF ReadInv
<1>11. HashInv'
  BY <1>1, <1>2, <1>8, <1>9 DEF HashInv, IsMasked
<1>12. UnlistedInv'
  <2>1. \A r \in Loader, f \in SkillFile :
          ReadSome(r)' /\ f \notin listed'[r] /\ skillMap'[r][f] # 0 => disk'[f].content # 0 \/ IsMasked(f, 0)'
    BY <1>1, <1>2, <1>8, <1>9 DEF UnlistedInv, IsMasked
  <2>2. \A r \in Loader : loader'[r] = "finding" => loader[r] = "finding"
    BY <1>1
  <2>3. \A r, t \in Loader, f \in SkillFile :
          ReadSome(r)' /\ loader'[t] = "finding" /\ f \notin listed'[r] /\ f \notin listed'[t] =>
            skillMap'[r][f] \in Had(t, f)' \/ IsMasked(f, 0)'
    BY <1>1, <1>2, <1>7, <1>8, <1>9, <2>2 DEF UnlistedInv, IsMasked
  <2> QED BY <2>1, <2>3 DEF UnlistedInv
<1>13. CacheFileInv'
  BY <1>0, <1>1, <1>2, <1>3 DEF CacheFileInv
<1>14. HashedOwn(q) /\ ReadSome(q) /\ listed[q] = listed[p]
  BY <1>0, <1>b DEF HashInv, HashedOwn, ReadSome, Cache!FilesHash
<1>15. ASSUME NEW f \in SkillFile
       PROVE  skillMap[q][f] \in Had(p, f) \/ \E c \in during[p][f] : IsMasked(f, c)
  <2>1. disk[f].content \in during[p][f] /\ Cache!Loaded(disk[f].content) \in Had(p, f)
    BY <1>1 DEF DuringInv, LoadingAt, Had
  <2>2. CASE f \in listed[p] /\ disk[f].content # 0
    <3>1. hashed[q][f] = disk[f].at
      BY <1>b, <2>2 DEF Cache!FilesHash, Cache!OnDisk
    <3>2. skillMap[q][f] = Cache!Loaded(disk[f].content) \/ IsMasked(f, disk[f].content)
      BY <1>14, <2>2, <3>1 DEF HashInv
    <3> QED BY <2>1, <3>2
  <2>3. CASE f \in listed[p] /\ disk[f].content = 0
    <3>1. hashed[q][f] = 0
      BY <1>b, <2>3 DEF Cache!FilesHash, Cache!OnDisk
    <3>2. skillMap[q][f] = 0 \/ IsMasked(f, 0)
      BY <1>14, <2>3, <3>1 DEF HashInv
    <3> QED BY <2>1, <2>3, <3>2
  <2>4. CASE f \notin listed[p]
    <3>1. skillMap[q][f] \in Had(p, f) \/ IsMasked(f, 0)
      BY <1>1, <1>14, <2>4 DEF UnlistedInv
    <3>2. 0 \in during[p][f]
      BY <1>1, <2>4 DEF DuringInv
    <3> QED BY <3>1, <3>2
  <2> QED BY <2>2, <2>3, <2>4
<1>16. FreshInv'
  <2>1. \A f \in SkillFile : \/ skillMap'[p][f] \in Had(p, f)'
                             \/ restored'[p] /\ \E c \in during'[p][f] : IsMasked(f, c)'
    BY <1>1, <1>2, <1>3, <1>7, <1>15 DEF IsMasked
  <2>2. \A r \in Loader \ {p}, f \in SkillFile : loader'[r] \in {"saving", "loaded"} =>
          \/ skillMap'[r][f] \in Had(r, f)' \/ Missed(r, f)'
          \/ restored'[r] /\ \E c \in during'[r][f] : IsMasked(f, c)'
    <3> SUFFICES ASSUME NEW r \in Loader \ {p}, NEW f \in SkillFile,
                        loader'[r] \in {"saving", "loaded"}
                 PROVE  \/ skillMap'[r][f] \in Had(r, f)' \/ Missed(r, f)'
                        \/ restored'[r] /\ \E c \in during'[r][f] : IsMasked(f, c)'
      OBVIOUS
    <3>1. /\ loader[r] \in {"saving", "loaded"} /\ skillMap'[r] = skillMap[r]
          /\ restored'[r] = restored[r] /\ during' = during
          /\ masked' = masked /\ unseen' = unseen
          /\ Had(r, f)' = Had(r, f)
      BY <1>1, <1>2, <1>3, <1>7
    <3>2. \/ skillMap[r][f] \in Had(r, f) \/ Missed(r, f)
          \/ (restored[r] /\ \E c \in during[r][f] : IsMasked(f, c))
      BY <3>1 DEF FreshInv
    <3> QED BY <3>1, <3>2 DEF IsMasked, Missed
  <2> QED BY <2>1, <2>2 DEF FreshInv
<1> QED BY <1>4, <1>5, <1>6, <1>10, <1>11, <1>12, <1>13, <1>16

LEMMA MissKeepsCache ==
  ASSUME CacheInv, NEW p \in Loader, Cache!Miss(p) PROVE CacheInv'
<1> USE CacheFacts DEF CacheInv
<1>1. /\ loader[p] = "finding" /\ loader'[p] = "reading"
      /\ loader' \in [Loader -> {"new", "listing", "finding", "reading", "saving", "loaded"}]
      /\ \A r \in Loader \ {p} : loader'[r] = loader[r]
      /\ unread' \in [Loader -> SUBSET SkillFile] /\ unread'[p] \in {Cache!OnDisk, {}}
      /\ unseen \subseteq unseen' /\ unseen' \subseteq SkillFile \X Cache!Contents
      /\ unread'[p] = {} => (\A f \in Cache!OnDisk : <<f, disk[f].content>> \in unseen')
      /\ \A r \in Loader \ {p} : unread'[r] = unread[r]
      /\ UNCHANGED <<disk, written, tick, masked, cacheFile, listed, hashed, skillMap, restored, during>>
  <2>1. /\ loader[p] = "finding" /\ loader'[p] = "reading"
        /\ loader' \in [Loader -> {"new", "listing", "finding", "reading", "saving", "loaded"}]
        /\ \A r \in Loader \ {p} : loader'[r] = loader[r]
        /\ UNCHANGED <<disk, written, tick, masked, cacheFile, listed, hashed, skillMap, restored, during>>
    BY LoadersStep DEF Cache!Miss
  <2>2. Cache!OnDisk \subseteq SkillFile
    BY DEF Cache!OnDisk
  <2>3. CASE unread' = [unread EXCEPT ![p] = Cache!OnDisk] /\ UNCHANGED unseen
    <3>1. unread' \in [Loader -> SUBSET SkillFile] /\ unread'[p] = Cache!OnDisk
          /\ \A r \in Loader \ {p} : unread'[r] = unread[r]
      BY <2>2, <2>3 DEF CacheTypes
    <3>2. unseen' \subseteq SkillFile \X Cache!Contents
      BY <2>3 DEF CacheTypes
    <3> QED BY <2>1, <2>3, <3>1, <3>2
  <2>4. CASE /\ unread' = [unread EXCEPT ![p] = {}]
             /\ unseen' = unseen \cup {<<f, disk[f].content>> : f \in Cache!OnDisk}
    <3>1. unread' \in [Loader -> SUBSET SkillFile] /\ unread'[p] = {}
          /\ \A r \in Loader \ {p} : unread'[r] = unread[r]
      BY <2>4 DEF CacheTypes
    <3>2. unseen \subseteq SkillFile \X Cache!Contents /\ \A f \in SkillFile : disk[f].content \in Cache!Contents
      BY DEF CacheTypes
    <3>3. unseen' \subseteq SkillFile \X Cache!Contents
      BY <2>2, <2>4, <3>2
    <3>4. \A f \in Cache!OnDisk : <<f, disk[f].content>> \in unseen'
      BY <2>4
    <3> QED BY <2>1, <2>4, <3>1, <3>3, <3>4
  <2> QED BY <2>3, <2>4 DEF Cache!Miss
<1>2. CacheTypes'
  BY <1>1 DEF CacheTypes
<1>3. LoaderTypes'
  BY <1>1 DEF LoaderTypes
<1>4. DuringInv'
  BY <1>1 DEF DuringInv, LoadingAt
<1>5. \A r \in Loader, f \in SkillFile : Had(r, f)' = Had(r, f)
  BY <1>1 DEF Had
<1>6. skillMap[p] = Cache!NoSkill
  BY <1>1 DEF LoaderTypes
<1>a. \A f \in SkillFile : \A c : IsMasked(f, c) => IsMasked(f, c)'
  BY <1>1 DEF IsMasked
<1>b. \A r \in Loader, f \in SkillFile : Missed(r, f) => Missed(r, f)'
  BY <1>1 DEF Missed
<1>7. ReadInv'
  <2>1. ASSUME NEW f \in SkillFile, f \notin unread'[p], unread'[p] # {} \/ f \notin Cache!OnDisk
        PROVE  skillMap[p][f] = Cache!Loaded(disk[f].content) /\ skillMap[p][f] \in Had(p, f)
    <3>1. disk[f].content = 0 /\ skillMap[p][f] = 0
      BY <1>1, <1>6, <2>1 DEF Cache!OnDisk
    <3>2. 0 \in during[p][f]
      BY <1>1, <3>1 DEF DuringInv, LoadingAt
    <3> QED BY <3>1, <3>2 DEF Had
  <2>2. ASSUME NEW f \in SkillFile, unread'[p] = {}, f \in Cache!OnDisk
        PROVE  IsMasked(f, disk[f].content)' /\ Missed(p, f)'
    <3>1. <<f, disk[f].content>> \in unseen' /\ disk[f].content \in during[p][f]
      BY <1>1, <2>2 DEF DuringInv, LoadingAt
    <3>2. skillMap'[p][f] = 0 /\ UNCHANGED <<disk, during>>
      BY <1>1, <1>6
    <3> QED BY <3>1, <3>2 DEF IsMasked, Missed
  <2>3. ASSUME NEW r \in Loader, NEW f \in SkillFile, loader'[r] = "reading", f \notin unread'[r]
        PROVE  /\ skillMap'[r][f] = Cache!Loaded(disk'[f].content) \/ IsMasked(f, disk[f].content)'
               /\ skillMap'[r][f] \in Had(r, f)' \/ Missed(r, f)'
    <3>1. CASE r = p
      BY <1>1, <1>5, <2>1, <2>2, <2>3, <3>1
    <3>2. CASE r # p
      <4>1. loader[r] = "reading" /\ f \notin unread[r]
        BY <1>1, <2>3, <3>2
      <4>2. skillMap[r][f] = Cache!Loaded(disk[f].content) \/ <<f, disk[f].content>> \in masked \cup unseen
        BY <4>1 DEF ReadInv, IsMasked
      <4>3. skillMap[r][f] \in Had(r, f) \/ Missed(r, f)
        BY <4>1 DEF ReadInv
      <4>4. skillMap'[r][f] = Cache!Loaded(disk'[f].content) \/ IsMasked(f, disk[f].content)'
        BY <1>1, <4>2 DEF IsMasked
      <4> QED BY <1>1, <1>5, <1>b, <4>3, <4>4
    <3> QED BY <3>1, <3>2
  <2> QED BY <2>3 DEF ReadInv
<1>8. HashInv'
  <2>1. \A r \in Loader : HashedOwn(r)' => HashedOwn(r)
    BY <1>1 DEF HashedOwn
  <2>2. masked \cup unseen \subseteq masked' \cup unseen'
    BY <1>1
  <2> QED BY <1>1, <2>1, <2>2 DEF HashInv, IsMasked
<1>9. UnlistedInv'
  <2>1. \A r \in Loader : ReadSome(r)' => r = p \/ ReadSome(r)
    BY <1>1 DEF ReadSome
  <2>2. \A f \in SkillFile : skillMap[p][f] = 0
    BY <1>6
  <2>3. \A r \in Loader, f \in SkillFile :
          ReadSome(r)' /\ f \notin listed[r] /\ skillMap[r][f] # 0 => disk[f].content # 0 \/ IsMasked(f, 0)
    BY <2>1, <2>2 DEF UnlistedInv
  <2>4. \A t \in Loader, f \in SkillFile : loader[t] = "finding" /\ f \notin listed[t] => 0 \in Had(t, f)
    BY DEF DuringInv, Had
  <2>5. \A r, t \in Loader, f \in SkillFile :
          ReadSome(r)' /\ loader'[t] = "finding" /\ f \notin listed[r] /\ f \notin listed[t] =>
            skillMap[r][f] \in Had(t, f) \/ IsMasked(f, 0)
    <3>1. \A t \in Loader : loader'[t] = "finding" => loader[t] = "finding"
      BY <1>1
    <3> QED BY <2>1, <2>2, <2>4, <3>1 DEF UnlistedInv
  <2> QED BY <1>1, <1>5, <1>a, <2>3, <2>5 DEF UnlistedInv
<1>10. CacheFileInv'
  BY <1>1 DEF CacheFileInv
<1>11. FreshInv'
  <2>1. \A r \in Loader : loader'[r] \in {"saving", "loaded"} => loader[r] \in {"saving", "loaded"}
    BY <1>1
  <2> QED BY <1>1, <1>5, <1>a, <1>b, <2>1 DEF FreshInv
<1> QED BY <1>2, <1>3, <1>4, <1>7, <1>8, <1>9, <1>10, <1>11

LEMMA ReadFileKeepsCache ==
  ASSUME CacheInv, NEW p \in Loader, NEW f \in SkillFile, Cache!ReadFile(p, f) PROVE CacheInv'
<1> USE CacheFacts DEF CacheInv
<1>1. /\ loader[p] = "reading" /\ loader' = loader
      /\ unread' \in [Loader -> SUBSET SkillFile] /\ unread'[p] = unread[p] \ {f}
      /\ \A r \in Loader \ {p} : unread'[r] = unread[r]
      /\ UNCHANGED <<disk, written, tick, masked, cacheFile, listed, hashed, restored, during>>
  BY DEF Cache!ReadFile, CacheTypes, Cache!Goes
<1>2. /\ skillMap' \in [Loader -> [SkillFile -> Cache!Contents]]
      /\ \/ skillMap'[p][f] = Cache!Loaded(disk[f].content) /\ unseen' = unseen
         \/ skillMap'[p][f] = 0 /\ unseen' = unseen \cup {<<f, disk[f].content>>}
      /\ \A g \in SkillFile \ {f} : skillMap'[p][g] = skillMap[p][g]
      /\ \A r \in Loader \ {p} : skillMap'[r] = skillMap[r]
  <2>1. disk[f].content \in Cache!Contents
    BY DEF CacheTypes
  <2>2. 0 \in Cache!Contents /\ Cache!Loaded(disk[f].content) \in Cache!Contents
    BY <2>1
  <2>3. CASE skillMap' = [skillMap EXCEPT ![p][f] = Cache!Loaded(disk[f].content)] /\ UNCHANGED unseen
    BY <2>2, <2>3 DEF CacheTypes
  <2>4. CASE skillMap' = [skillMap EXCEPT ![p][f] = 0] /\ unseen' = unseen \cup {<<f, disk[f].content>>}
    BY <2>2, <2>4 DEF CacheTypes
  <2> QED BY <2>3, <2>4 DEF Cache!ReadFile
<1>3. CacheTypes'
  <2>1. unseen' \subseteq SkillFile \X Cache!Contents
    BY <1>2 DEF CacheTypes
  <2> QED BY <1>1, <1>2, <2>1 DEF CacheTypes
<1>4. LoaderTypes'
  BY <1>1, <1>2 DEF LoaderTypes
<1>5. DuringInv'
  BY <1>1 DEF DuringInv, LoadingAt
<1>6. \A r \in Loader, g \in SkillFile : Had(r, g)' = Had(r, g)
  BY <1>1 DEF Had
<1>7. \A r \in Loader : loader[r] \in LoadingAt => Cache!Loaded(disk[f].content) \in Had(r, f)
  BY DEF DuringInv, Had
<1>a. masked' = masked /\ unseen \subseteq unseen'
  BY <1>1, <1>2
<1>b. \A g \in SkillFile : \A c : IsMasked(g, c) => IsMasked(g, c)'
  BY <1>a DEF IsMasked
<1>c. skillMap'[p][f] = 0 \/ skillMap'[p][f] = Cache!Loaded(disk[f].content)
  BY <1>2
<1>8. ReadInv'
  <2>1. ASSUME NEW q \in Loader, NEW g \in SkillFile, loader[q] = "reading", g \notin unread'[q]
        PROVE  /\ skillMap'[q][g] = Cache!Loaded(disk[g].content) \/ IsMasked(g, disk[g].content)'
               /\ skillMap'[q][g] \in Had(q, g) \/ Missed(q, g)'
    <3>1. CASE q = p /\ g = f
      <4>1. CASE skillMap'[p][f] = Cache!Loaded(disk[f].content)
        BY <1>1, <1>7, <3>1, <4>1 DEF LoadingAt
      <4>2. CASE skillMap'[p][f] = 0 /\ unseen' = unseen \cup {<<f, disk[f].content>>}
        <5>1. disk[f].content \in during'[p][f]
          BY <1>1 DEF DuringInv, LoadingAt
        <5> QED BY <1>1, <3>1, <4>2, <5>1 DEF IsMasked, Missed
      <4> QED BY <1>2, <4>1, <4>2
    <3>2. CASE ~(q = p /\ g = f)
      <4>1. skillMap'[q][g] = skillMap[q][g] /\ g \notin unread[q]
        BY <1>1, <1>2, <2>1, <3>2
      <4>2. skillMap[q][g] = Cache!Loaded(disk[g].content) \/ <<g, disk[g].content>> \in masked \cup unseen
        BY <2>1, <4>1 DEF ReadInv, IsMasked
      <4>3. skillMap[q][g] \in Had(q, g) \/ Missed(q, g)
        BY <2>1, <4>1 DEF ReadInv
      <4>4. skillMap'[q][g] = Cache!Loaded(disk[g].content) \/ IsMasked(g, disk[g].content)'
        BY <1>1, <1>a, <4>1, <4>2 DEF IsMasked
      <4>5. Missed(q, g) => Missed(q, g)'
        BY <1>1, <1>a, <4>1 DEF Missed
      <4> QED BY <4>1, <4>3, <4>4, <4>5
    <3> QED BY <3>1, <3>2
  <2> QED BY <1>1, <1>6, <2>1 DEF ReadInv
<1>9. \A r \in Loader : (HashedOwn(r)' <=> HashedOwn(r)) /\ (ReadSome(r)' <=> ReadSome(r))
  BY <1>1 DEF HashedOwn, ReadSome
<1>10. HashInv'
  <2>1. \A r \in Loader : HashedOwn(r) => skillMap'[r] = skillMap[r]
    BY <1>1, <1>2 DEF HashedOwn
  <2>2. masked \cup unseen \subseteq masked' \cup unseen'
    BY <1>a
  <2> QED BY <1>1, <1>9, <2>1, <2>2 DEF HashInv, IsMasked
<1>11. UnlistedInv'
  <2>1. ASSUME NEW r \in Loader, NEW g \in SkillFile, ReadSome(r), g \notin listed[r]
        PROVE  skillMap'[r][g] # 0 => disk[g].content # 0 \/ IsMasked(g, 0)
    <3>1. CASE r = p /\ g = f
      BY <1>c, <3>1
    <3>2. CASE ~(r = p /\ g = f)
      BY <1>2, <2>1, <3>2 DEF UnlistedInv
    <3> QED BY <3>1, <3>2
  <2>2. ASSUME NEW r \in Loader, NEW t \in Loader, NEW g \in SkillFile,
               ReadSome(r), loader[t] = "finding", g \notin listed[r], g \notin listed[t]
        PROVE  skillMap'[r][g] \in Had(t, g) \/ IsMasked(g, 0)
    <3>1. CASE r = p /\ g = f
      <4>1. 0 \in Had(t, f)
        BY <2>2, <3>1 DEF DuringInv, Had
      <4> QED BY <1>7, <1>c, <2>2, <3>1, <4>1 DEF LoadingAt
    <3>2. CASE ~(r = p /\ g = f)
      BY <1>2, <2>2, <3>2 DEF UnlistedInv
    <3> QED BY <3>1, <3>2
  <2> QED BY <1>1, <1>6, <1>9, <1>b, <2>1, <2>2 DEF UnlistedInv
<1>12. \A r \in Loader : loader[r] \in {"saving", "loaded"} => skillMap'[r] = skillMap[r]
  BY <1>1, <1>2
<1>13. CacheFileInv'
  BY <1>1, <1>12 DEF CacheFileInv
<1>14. FreshInv'
  <2>1. \A r \in Loader, g \in SkillFile :
          loader[r] \in {"saving", "loaded"} /\ Missed(r, g) => Missed(r, g)'
    BY <1>1, <1>a, <1>12 DEF Missed
  <2> QED BY <1>1, <1>6, <1>b, <1>12, <2>1 DEF FreshInv
<1> QED BY <1>3, <1>4, <1>5, <1>8, <1>10, <1>11, <1>13, <1>14

LEMMA HashKeepsCache ==
  ASSUME CacheInv, NEW p \in Loader, Cache!Hash(p) PROVE CacheInv'
<1> USE CacheFacts DEF CacheInv
<1>1. /\ loader[p] = "reading" /\ loader'[p] = "saving" /\ unread[p] = {}
      /\ loader' \in [Loader -> {"new", "listing", "finding", "reading", "saving", "loaded"}]
      /\ \A r \in Loader \ {p} : loader'[r] = loader[r]
      /\ UNCHANGED <<disk, written, tick, masked, unseen, listed, unread, skillMap, restored, during>>
      /\ cacheFile' \in {Cache!TornCache, cacheFile}
  BY LoadersStep DEF Cache!Hash
<1>2. Cache!FilesHash(listed[p]) \in Cache!Hashes
  <2>1. \A f \in SkillFile : disk[f].at \in 0..MaxTicks
    BY DEF CacheTypes
  <2>2. listed[p] \subseteq SkillFile
    BY DEF CacheTypes
  <2>3. Cache!FilesHash(listed[p]) \in [listed[p] -> 0..MaxTicks]
    BY <2>1, <2>2 DEF Cache!FilesHash
  <2> QED BY <2>2, <2>3 DEF Cache!Hashes
<1>3. /\ hashed' \in [Loader -> Cache!Hashes] /\ hashed'[p] = Cache!FilesHash(listed[p])
      /\ \A r \in Loader \ {p} : hashed'[r] = hashed[r]
  BY <1>2 DEF Cache!Hash, LoaderTypes
<1>4. CacheTypes' /\ LoaderTypes' /\ DuringInv'
  BY <1>1, <1>3 DEF CacheTypes, LoaderTypes, DuringInv, LoadingAt
<1>5. \A r \in Loader, f \in SkillFile : Had(r, f)' = Had(r, f)
  BY <1>1 DEF Had
<1>6. ReadInv'
  BY <1>1, <1>5 DEF ReadInv, IsMasked, Missed
<1>7. \A f \in SkillFile :
        /\ skillMap[p][f] = Cache!Loaded(disk[f].content) \/ IsMasked(f, disk[f].content)
        /\ skillMap[p][f] \in Had(p, f) \/ Missed(p, f)
  BY <1>1 DEF ReadInv
<1>8. HashInv'
  <2>1. DOMAIN hashed'[p] = listed[p] /\ listed[p] \subseteq SkillFile
    BY <1>3 DEF Cache!FilesHash, CacheTypes
  <2>2. ASSUME NEW f \in listed[p]
        PROVE  /\ hashed'[p][f] \in Int /\ hashed'[p][f] <= disk[f].at
               /\ hashed'[p][f] = disk[f].at =>
                    skillMap[p][f] = Cache!Loaded(disk[f].content) \/ IsMasked(f, disk[f].content)
               /\ hashed'[p][f] = 0 => skillMap[p][f] = 0 \/ IsMasked(f, 0)
    <3>1. disk[f].at \in 1..MaxTicks
      BY <2>1 DEF CacheTypes
    <3>2. hashed'[p][f] = IF disk[f].content # 0 THEN disk[f].at ELSE 0
      BY <1>3, <2>1 DEF Cache!FilesHash, Cache!OnDisk
    <3>3. hashed'[p][f] \in Int /\ hashed'[p][f] <= disk[f].at
      BY <3>1, <3>2
    <3>4. hashed'[p][f] = 0 => disk[f].content = 0
      BY <3>1, <3>2
    <3>5. hashed'[p][f] = 0 => skillMap[p][f] = 0 \/ IsMasked(f, 0)
      BY <1>7, <2>1, <3>4
    <3> QED BY <1>7, <2>1, <3>3, <3>5
  <2>3. \A r \in Loader \ {p} : HashedOwn(r)' => HashedOwn(r)
    BY <1>1 DEF HashedOwn
  <2> QED BY <1>1, <1>3, <2>1, <2>2, <2>3 DEF HashInv, IsMasked
<1>9. UnlistedInv'
  <2>1. \A r \in Loader : ReadSome(r)' => ReadSome(r)
    BY <1>1 DEF ReadSome
  <2>2. \A r \in Loader : loader'[r] = "finding" => loader[r] = "finding"
    BY <1>1
  <2> QED BY <1>1, <1>5, <2>1, <2>2 DEF UnlistedInv, IsMasked
<1>10. CacheFileInv'
  BY <1>1, <1>3 DEF CacheFileInv
<1>11. FreshInv'
  <2>1. \A f \in SkillFile : skillMap'[p][f] \in Had(p, f)' \/ Missed(p, f)'
    BY <1>1, <1>5, <1>7 DEF Missed
  <2>2. \A r \in Loader \ {p}, f \in SkillFile : loader'[r] \in {"saving", "loaded"} =>
          \/ skillMap'[r][f] \in Had(r, f)' \/ Missed(r, f)'
          \/ restored'[r] /\ \E c \in during'[r][f] : IsMasked(f, c)'
    BY <1>1, <1>5 DEF FreshInv, IsMasked, Missed
  <2> QED BY <2>1, <2>2 DEF FreshInv
<1> QED BY <1>4, <1>6, <1>8, <1>9, <1>10, <1>11

LEMMA SaveKeepsCache ==
  ASSUME CacheInv, NEW p \in Loader, Cache!Save(p) PROVE CacheInv'
<1> USE CacheFacts DEF CacheInv
<1>1. /\ loader[p] = "saving" /\ loader'[p] = "loaded"
      /\ loader' \in [Loader -> {"new", "listing", "finding", "reading", "saving", "loaded"}]
      /\ \A r \in Loader \ {p} : loader'[r] = loader[r]
      /\ UNCHANGED <<disk, written, tick, masked, unseen, listed, unread, hashed, skillMap, restored, during>>
      /\ cacheFile' \in {Cache!Cached(hashed[p], skillMap[p]), cacheFile}
  BY LoadersStep DEF Cache!Save
<1>2. CacheTypes' /\ LoaderTypes' /\ DuringInv'
  BY <1>1 DEF CacheTypes, LoaderTypes, DuringInv, LoadingAt
<1>3. \A r \in Loader, f \in SkillFile : Had(r, f)' = Had(r, f)
  BY <1>1 DEF Had
<1>4. \A r \in Loader : (HashedOwn(r)' <=> HashedOwn(r)) /\ (ReadSome(r)' <=> ReadSome(r))
  BY <1>1 DEF HashedOwn, ReadSome
<1>5. ReadInv'
  BY <1>1, <1>3 DEF ReadInv, IsMasked, Missed
<1>6. HashInv'
  BY <1>1, <1>4 DEF HashInv, IsMasked
<1>7. UnlistedInv'
  <2>1. \A r \in Loader : loader'[r] = "finding" => loader[r] = "finding"
    BY <1>1
  <2> QED BY <1>1, <1>3, <1>4, <2>1 DEF UnlistedInv, IsMasked
<1>8. CacheFileInv'
  <2>1. ~restored[p]
    BY <1>1 DEF LoaderTypes
  <2>2. \A r \in Loader : loader[r] = "loaded" => loader'[r] = "loaded"
    BY <1>1
  <2> QED BY <1>1, <2>1, <2>2 DEF CacheFileInv
<1>9. FreshInv'
  <2>1. \A r \in Loader : loader'[r] \in {"saving", "loaded"} => loader[r] \in {"saving", "loaded"}
    BY <1>1
  <2> QED BY <1>1, <2>1, LoadStays DEF FreshInv
<1> QED BY <1>2, <1>5, <1>6, <1>7, <1>8, <1>9

LEMMA CacheKeeps == CacheInv /\ [Cache!CacheNext]_(Cache!cacheVars) => CacheInv'
<1> SUFFICES ASSUME CacheInv, [Cache!CacheNext]_(Cache!cacheVars) PROVE CacheInv'
  OBVIOUS
<1>1. CASE UNCHANGED Cache!cacheVars
  <2>1. UNCHANGED <<disk, written, tick, cacheFile, loader, listed, unread, hashed, skillMap,
               restored, during, masked, unseen>>
    BY <1>1 DEF Cache!cacheVars
  <2>2. CacheTypes' /\ LoaderTypes' /\ DuringInv' /\ CacheFileInv'
    BY <2>1 DEF CacheInv, CacheTypes, LoaderTypes, DuringInv, CacheFileInv
  <2>3. ReadInv' /\ HashInv'
    BY <2>1 DEF CacheInv, ReadInv, HashInv, IsMasked, Missed, Had, HashedOwn
  <2>4. UnlistedInv' /\ FreshInv'
    BY <2>1 DEF CacheInv, UnlistedInv, FreshInv, IsMasked, Missed, Had, ReadSome
  <2> QED BY <2>2, <2>3, <2>4 DEF CacheInv
<1>2. CASE Cache!CacheNext
  BY <1>2, EditsKeepCache, TickKeepsCache, BeginKeepsCache, ListKeepsCache, HitKeepsCache,
     MissKeepsCache, ReadFileKeepsCache, HashKeepsCache, SaveKeepsCache DEF Cache!CacheNext
<1> QED BY <1>1, <1>2

LEMMA CacheFollows == CacheInv => Cache!CacheFresh /\ Cache!CacheTypeOK
<1> SUFFICES ASSUME CacheInv PROVE Cache!CacheFresh /\ Cache!CacheTypeOK
  OBVIOUS
<1> USE DEF CacheInv
<1>1. Cache!CacheFresh
  BY DEF FreshInv, Cache!CacheFresh, Had, IsMasked, Missed
<1>2. \/ cacheFile \in {Cache!NoCache, Cache!TornCache}
      \/ /\ cacheFile = Cache!Cached(cacheFile.hash, cacheFile.skills)
         /\ cacheFile.hash \in Cache!Hashes /\ cacheFile.skills \in [SkillFile -> Cache!Contents]
  <2> SUFFICES ASSUME NEW q \in Loader, cacheFile = Cache!Cached(hashed[q], skillMap[q])
               PROVE  /\ cacheFile = Cache!Cached(cacheFile.hash, cacheFile.skills)
                      /\ cacheFile.hash \in Cache!Hashes
                      /\ cacheFile.skills \in [SkillFile -> Cache!Contents]
    BY DEF CacheFileInv
  <2>1. cacheFile.hash = hashed[q] /\ cacheFile.skills = skillMap[q]
    BY DEF Cache!Cached
  <2> QED BY <2>1 DEF LoaderTypes, CacheTypes
<1>3. \A p \in Loader :
       /\ listed[p] \subseteq SkillFile /\ unread[p] \subseteq SkillFile
       /\ hashed[p] \in Cache!Hashes /\ skillMap[p] \in [SkillFile -> Cache!Contents]
       /\ restored[p] \in BOOLEAN /\ during[p] \in [SkillFile -> SUBSET Cache!Contents]
  BY DEF CacheTypes, LoaderTypes
<1> QED BY <1>1, <1>2, <1>3 DEF Cache!CacheTypeOK, CacheTypes

(***************************************************************************)
(* The ratings.  While one process alone writes, what the records that     *)
(* returned have recorded is in the file and in that process.              *)
(***************************************************************************)
NewerFirst(notes) == \A i, j \in 1..Len(notes) : i < j => notes[i] > notes[j]

NotesAt(t) == {s \in Seq(1..t) : Len(s) <= MaxNotes /\ NewerFirst(s)}
EntryAt(t) == [runs : 0..(MaxRuns + t), notes : NotesAt(t)]
FileAt(t) == [kind : {"absent", "torn", "old", "whole"}, runs : 0..(MaxRuns + t), notes : NotesAt(t)]

RatingTypes ==
  /\ now \in 0..MaxTime
  /\ ratings \in FileAt(now) /\ ratingTmp \in FileAt(now)
  /\ store \in [Proc -> EntryAt(now)]
  /\ gist \in EntryAt(now) /\ device \in EntryAt(now) /\ syncEntry \in EntryAt(now)
  /\ saving \in [Proc -> {"down", "idle", "open", "write", "rename"}]
  /\ acked \in [runs : 0..(MaxRuns + now), notes : SUBSET (1..now)]
  /\ writers \subseteq Proc \cup {"sync"} /\ IsFiniteSet(writers)
  /\ migrating \subseteq Proc /\ forgot \subseteq Proc
  /\ sync \in {"off", "pull", "overwrite", "read", "version", "push"}
  /\ syncMode \in {"pull", "push", "both", "force"}

OneWriter == "sync" \notin writers /\ \A a, b \in writers : a = b

\* What the records recorded is in an entry, or newer feedback has pushed it out.
Keeps(e, done) ==
  /\ e.runs >= done.runs
  /\ \A t \in done.notes :
       \/ \E i \in 1..Len(e.notes) : e.notes[i] = t
       \/ Len(e.notes) = MaxNotes /\ \A i \in 1..Len(e.notes) : e.notes[i] > t

WriterInv ==
  /\ \A p \in Proc : saving[p] \in {"write", "rename"} => p \in writers
  /\ sync = "overwrite" => "sync" \in writers

DurableInv ==
  OneWriter =>
    /\ ratings.kind # "torn" /\ Keeps(ratings, acked)
    /\ \A p \in Proc : writers \subseteq {p} /\ saving[p] # "down" /\ p \notin forgot =>
         Keeps(store[p], acked)
    /\ \A p \in Proc : saving[p] = "rename" => ratingTmp = Ratings!Whole(store[p])

RatingsInv == RatingTypes /\ WriterInv /\ DurableInv

LEMMA RatingsFacts ==
  /\ MaxNotes \in Nat \ {0} /\ MaxTime \in Nat \ {0} /\ MaxRuns \in Nat
  /\ \A S : Ratings!Cardinality(S) = Cardinality(S)
<1>1. Ratings!RatingsAssumption
  BY ServicesAssumption DEF ServicesAssumption
<1>2. \A S : Ratings!Cardinality(S) = Cardinality(S)
  BY DEF Ratings!Cardinality, Cardinality, Ratings!IsFiniteSet, IsFiniteSet
<1> QED BY <1>1, <1>2 DEF Ratings!RatingsAssumption

LEMMA NotesGrow ==
  ASSUME NEW t \in Nat, NEW u \in Nat, t <= u
  PROVE  /\ NotesAt(t) \subseteq NotesAt(u) /\ EntryAt(t) \subseteq EntryAt(u)
         /\ FileAt(t) \subseteq FileAt(u)
<1>1. NotesAt(t) \subseteq NotesAt(u)
  <2> SUFFICES ASSUME NEW s \in NotesAt(t) PROVE s \in NotesAt(u)
    OBVIOUS
  <2>1. s \in Seq(1..t) /\ Len(s) <= MaxNotes /\ NewerFirst(s)
    BY DEF NotesAt
  <2>2. s \in Seq(1..u)
    BY <2>1
  <2> QED BY <2>1, <2>2 DEF NotesAt
<1>2. 0..(MaxRuns + t) \subseteq 0..(MaxRuns + u)
  BY RatingsFacts
<1> QED BY <1>1, <1>2 DEF EntryAt, FileAt

\* The first MaxNotes of a list, newest first.
LEMMA RecentShape ==
  ASSUME NEW S, NEW s \in Seq(S), NewerFirst(s)
  PROVE  /\ Ratings!Recent(s) \in Seq(S) /\ NewerFirst(Ratings!Recent(s))
         /\ Len(Ratings!Recent(s)) <= MaxNotes
         /\ Len(Ratings!Recent(s)) = Len(s) \/ (Len(Ratings!Recent(s)) = MaxNotes /\ Len(s) >= MaxNotes)
         /\ Len(Ratings!Recent(s)) <= Len(s)
         /\ \A i \in 1..Len(Ratings!Recent(s)) : Ratings!Recent(s)[i] = s[i]
<1> DEFINE r == Ratings!Recent(s)
           n == IF Len(s) < MaxNotes THEN Len(s) ELSE MaxNotes
<1>1. n \in 0..Len(s) /\ n <= MaxNotes /\ (n = Len(s) \/ (n = MaxNotes /\ Len(s) >= MaxNotes))
  BY RatingsFacts
<1>2. r = SubSeq(s, 1, n)
  BY DEF Ratings!Recent
<1> HIDE DEF r, n
<1>3. r \in Seq(S) /\ Len(r) = n /\ \A i \in 1..n : r[i] = s[i]
  BY <1>1, <1>2
<1>4. \A i \in 1..n : i \in 1..Len(s)
  BY <1>1
<1>5. NewerFirst(r)
  BY <1>3, <1>4 DEF NewerFirst
<1> QED BY <1>1, <1>3, <1>5 DEF r

\* A new feedback comes first, and pushes out none but the oldest.
LEMMA NotedKeeps ==
  ASSUME NEW t \in Nat, NEW e \in EntryAt(t)
  PROVE  /\ Ratings!Noted(e, t + 1) \in EntryAt(t + 1)
         /\ \A done \in [runs : Nat, notes : SUBSET (1..t)] :
              Keeps(e, done) => Keeps(Ratings!Noted(e, t + 1), done)
<1> DEFINE all == <<t + 1>> \o e.notes
           r == Ratings!Recent(all)
<1>1. e.notes \in Seq(1..t) /\ Len(e.notes) <= MaxNotes /\ NewerFirst(e.notes) /\ e.runs \in 0..(MaxRuns + t)
  BY DEF EntryAt, NotesAt
<1>2. /\ all \in Seq(1..(t + 1)) /\ Len(all) = Len(e.notes) + 1 /\ all[1] = t + 1
      /\ \A i \in 1..Len(all) : i # 1 => i - 1 \in 1..Len(e.notes) /\ all[i] = e.notes[i - 1]
      /\ \A i \in 1..Len(e.notes) : i + 1 \in 1..Len(all) /\ all[i + 1] = e.notes[i]
  <2>1. e.notes \in Seq(1..(t + 1)) /\ <<t + 1>> \in Seq(1..(t + 1))
    BY <1>1
  <2> DEFINE old == e.notes
  <2>2. all = <<t + 1>> \o old /\ old \in Seq(1..(t + 1))
    BY <2>1
  <2> HIDE DEF old, all
  <2>3. /\ all \in Seq(1..(t + 1)) /\ Len(all) = Len(old) + 1 /\ all[1] = t + 1
        /\ \A i \in 1..Len(all) : i # 1 => i - 1 \in 1..Len(old) /\ all[i] = old[i - 1]
        /\ \A i \in 1..Len(old) : i + 1 \in 1..Len(all) /\ all[i + 1] = old[i]
    BY <2>1, <2>2
  <2> QED BY <2>3 DEF old
<1>3. NewerFirst(all)
  <2> SUFFICES ASSUME NEW i \in 1..Len(all), NEW j \in 1..Len(all), i < j PROVE all[i] > all[j]
    BY DEF NewerFirst
  <2> HIDE DEF all
  <2>1. j # 1 /\ j - 1 \in 1..Len(e.notes) /\ all[j] = e.notes[j - 1] /\ e.notes[j - 1] \in 1..t
    <3>1. j # 1
      BY <1>2
    <3>2. j - 1 \in 1..Len(e.notes) /\ all[j] = e.notes[j - 1]
      BY <1>2, <3>1
    <3>3. e.notes[j - 1] \in 1..t
      BY <1>1, <3>2
    <3> QED BY <3>1, <3>2, <3>3
  <2>2. CASE i = 1
    BY <1>2, <2>1, <2>2
  <2>3. CASE i # 1
    <3>1. i - 1 \in 1..Len(e.notes) /\ all[i] = e.notes[i - 1] /\ i - 1 < j - 1
      <4>1. i - 1 \in 1..Len(e.notes) /\ all[i] = e.notes[i - 1]
        BY <1>2, <2>3
      <4>2. Len(all) \in Nat
        BY <1>2
      <4>3. i - 1 < j - 1
        BY <4>2
      <4> QED BY <4>1, <4>3
    <3> QED BY <1>1, <2>1, <3>1 DEF NewerFirst
  <2> QED BY <2>2, <2>3
<1> HIDE DEF all
<1>4. /\ r \in Seq(1..(t + 1)) /\ NewerFirst(r) /\ Len(r) <= MaxNotes
      /\ Len(r) = Len(all) \/ (Len(r) = MaxNotes /\ Len(all) >= MaxNotes)
      /\ Len(r) <= Len(all) /\ \A i \in 1..Len(r) : r[i] = all[i]
  BY <1>2, <1>3, RecentShape
<1>5. /\ Ratings!Noted(e, t + 1) = [e EXCEPT !.notes = r]
  BY DEF Ratings!Noted, all
<1> HIDE DEF r
<1>6. Ratings!Noted(e, t + 1).notes = r /\ Ratings!Noted(e, t + 1).runs = e.runs
  BY <1>5 DEF EntryAt
<1>7. Ratings!Noted(e, t + 1) \in EntryAt(t + 1)
  <2>1. r \in NotesAt(t + 1)
    BY <1>4 DEF NotesAt
  <2>2. e.runs \in 0..(MaxRuns + (t + 1))
    BY <1>1, RatingsFacts
  <2> QED BY <1>5, <2>1, <2>2 DEF EntryAt
<1>8. ASSUME NEW done \in [runs : Nat, notes : SUBSET (1..t)], Keeps(e, done), NEW u \in done.notes
      PROVE  \/ \E i \in 1..Len(r) : r[i] = u
             \/ Len(r) = MaxNotes /\ \A i \in 1..Len(r) : r[i] > u
  <2>1. u \in 1..t
    OBVIOUS
  <2>2. CASE \E i \in 1..Len(e.notes) : e.notes[i] = u
    <3>1. PICK k \in 1..Len(e.notes) : e.notes[k] = u
      BY <2>2
    <3>2. k + 1 \in 1..Len(all) /\ all[k + 1] = u
      BY <1>2, <3>1
    <3>3. CASE k + 1 <= Len(r)
      <4>1. k + 1 \in 1..Len(r)
        BY <1>1, <1>4, <3>1, <3>3
      <4> QED BY <1>4, <3>2, <4>1
    <3>4. CASE ~(k + 1 <= Len(r))
      <4>0. Len(r) \in Nat /\ Len(all) \in Nat /\ k \in Nat
        BY <1>1, <1>2, <1>4, <3>1
      <4>3. Len(r) = Len(all) \/ Len(r) = MaxNotes
        BY <1>4
      <4>1. Len(r) = MaxNotes
        BY <3>2, <3>4, <4>0, <4>3
      <4>2. \A i \in 1..Len(r) : i \in 1..Len(all) /\ i < k + 1
        BY <1>4, <3>2, <3>4, <4>0
      <4> QED BY <1>3, <1>4, <3>2, <4>1, <4>2 DEF NewerFirst
    <3> QED BY <3>3, <3>4
  <2>3. CASE Len(e.notes) = MaxNotes /\ \A i \in 1..Len(e.notes) : e.notes[i] > u
    <3>1. Len(r) = MaxNotes
      BY <1>2, <1>4, <2>3, RatingsFacts
    <3>2. \A i \in 1..Len(all) : all[i] > u
      <4> TAKE i \in 1..Len(all)
      <4>1. CASE i = 1
        BY <1>2, <2>1, <4>1
      <4>2. CASE i # 1
        <5>1. i - 1 \in 1..Len(e.notes) /\ all[i] = e.notes[i - 1]
          BY ONLY <1>2, <4>2, i \in 1..Len(all)
        <5> QED BY <2>3, <5>1
      <4> QED BY <4>1, <4>2
    <3>3. \A i \in 1..Len(r) : i \in 1..Len(all) /\ r[i] = all[i]
      BY <1>4
    <3> QED BY <3>1, <3>2, <3>3
  <2> QED BY <1>8, <2>2, <2>3 DEF Keeps
<1>9. \A done \in [runs : Nat, notes : SUBSET (1..t)] :
        Keeps(e, done) => Keeps(Ratings!Noted(e, t + 1), done)
  BY <1>6, <1>8 DEF Keeps
<1> QED BY <1>7, <1>9

LEMMA InvokedKeeps ==
  ASSUME NEW t \in Nat, NEW e \in EntryAt(t)
  PROVE  /\ Ratings!Invoked(e) \in EntryAt(t + 1)
         /\ \A done \in [runs : Nat, notes : SUBSET (1..t)] :
              Keeps(e, done) => Keeps(Ratings!Invoked(e), done)
<1>1. Ratings!Invoked(e) = [e EXCEPT !.runs = e.runs + 1]
  BY DEF Ratings!Invoked
<1>2. e.notes \in NotesAt(t + 1) /\ e.runs \in 0..(MaxRuns + t)
  BY NotesGrow DEF EntryAt
<1>3. e.runs + 1 \in 0..(MaxRuns + (t + 1))
  BY <1>2, RatingsFacts
<1>4. Ratings!Invoked(e) \in EntryAt(t + 1) /\ Ratings!Invoked(e).runs = e.runs + 1
      /\ Ratings!Invoked(e).notes = e.notes
  BY <1>1, <1>2, <1>3 DEF EntryAt
<1> QED BY <1>2, <1>4 DEF Keeps

LEMMA ElementTyped == ASSUME NEW S, NEW q \in Seq(S), NEW i \in 1..Len(q) PROVE q[i] \in S
OBVIOUS

LEMMA ToSetTyped == ASSUME NEW S, NEW q \in Seq(S) PROVE Ratings!ToSet(q) \subseteq S
BY DEF Ratings!ToSet

\* What is merged is sorted, each feedback once.
LEMMA MergeTyped ==
  ASSUME NEW t \in Nat, NEW a \in EntryAt(t), NEW b \in EntryAt(t), Ratings!Mergeable(a, b)
  PROVE  Ratings!MergeRatings(a, b) \in EntryAt(t)
<1> DEFINE T == Ratings!ToSet(a.notes) \cup Ratings!ToSet(b.notes)
           n == Cardinality(T)
           s == Ratings!NewestFirst(T)
           rank == [i \in Nat |-> i]
<1>1. a.notes \in Seq(1..t) /\ b.notes \in Seq(1..t) /\ a.runs \in Nat /\ b.runs \in Nat
  BY DEF EntryAt, NotesAt
<1>2. T \subseteq 1..t
  <2>1. \A q \in Seq(1..t) : Ratings!ToSet(q) \subseteq 1..t
    BY DEF Ratings!ToSet
  <2> QED BY <1>1, <2>1
<1> HIDE DEF T
<1>3. IsFiniteSet(T) /\ n \in Nat /\ T \in SUBSET Nat
  <2>1. IsFiniteSet(1..t)
    BY FS_Interval
  <2>2. IsFiniteSet(T)
    BY <1>2, <2>1, FS_Subset
  <2> QED BY <1>2, <2>2, FS_CardinalityType
<1>4. \E best : Descending(best, T, rank)
  <2>1. rank \in [Nat -> Nat] /\ \A i, j \in Nat : rank[i] = rank[j] => i = j
    OBVIOUS
  <2> HIDE DEF rank
  <2> QED BY <1>3, <2>1, DescendingExists
<1>5. \E best \in [1..n -> T] : \A i, j \in 1..n : i < j => best[i] > best[j]
  <2>1. PICK best : Descending(best, T, rank)
    BY <1>4
  <2>2. /\ best \in [1..n -> T]
        /\ \A i, j \in 1..n : i < j => rank[best[i]] > rank[best[j]]
    BY <2>1 DEF Descending
  <2>3. \A i \in 1..n : rank[best[i]] = best[i]
    BY <1>3, <2>2
  <2> QED BY <2>2, <2>3
<1>6. s = CHOOSE best \in [1..n -> T] : \A i, j \in 1..n : i < j => best[i] > best[j]
  BY RatingsFacts DEF Ratings!NewestFirst
<1>7. s \in [1..n -> T] /\ \A i, j \in 1..n : i < j => s[i] > s[j]
  <2> HIDE DEF s, n
  <2> QED BY <1>5, <1>6
<1> HIDE DEF s, n
<1>8. s \in Seq(1..t) /\ Len(s) = n
  <2>1. s \in [1..n -> 1..t]
    <3>1. \A i \in 1..n : s[i] \in 1..t
      BY <1>2, <1>7
    <3> QED BY <1>7, <3>1
  <2> QED BY <1>3, <2>1
<1>9. NewerFirst(s)
  BY <1>7, <1>8 DEF NewerFirst
<1>10. Ratings!MergeFeedback(a.notes, b.notes) = Ratings!Recent(s)
  BY DEF Ratings!MergeFeedback, s, T
<1>11. Ratings!Recent(s) \in NotesAt(t)
  BY <1>8, <1>9, RecentShape DEF NotesAt
<1>12. a.runs + b.runs \in 0..(MaxRuns + t)
  <2>1. a.runs + b.runs <= MaxRuns
    BY DEF Ratings!Mergeable
  <2> QED BY <1>1, <2>1, RatingsFacts
<1> QED BY <1>10, <1>11, <1>12 DEF Ratings!MergeRatings, EntryAt

LEMMA EmptyTyped ==
  ASSUME NEW t \in Nat
  PROVE  /\ Ratings!None \in EntryAt(t)
         /\ \A k \in {"absent", "torn", "old", "whole"} : Ratings!Empty(k) \in FileAt(t)
<1>1. 0 \in 0..(MaxRuns + t)
  BY RatingsFacts
<1>2. <<>> \in NotesAt(t)
  <2>1. <<>> \in Seq(1..t) /\ Len(<<>>) = 0 /\ 1..0 = {}
    OBVIOUS
  <2> QED BY <2>1, RatingsFacts DEF NotesAt, NewerFirst
<1> QED BY <1>1, <1>2 DEF Ratings!None, Ratings!Empty, EntryAt, FileAt

LEMMA HeldTyped ==
  ASSUME NEW t, NEW f \in FileAt(t)
  PROVE  Ratings!Held(f) \in EntryAt(t) /\ \A done : Keeps(f, done) => Keeps(Ratings!Held(f), done)
BY DEF Ratings!Held, FileAt, EntryAt, Keeps

LEMMA WholeTyped ==
  ASSUME NEW t, NEW e \in EntryAt(t)
  PROVE  /\ Ratings!Whole(e) \in FileAt(t) /\ Ratings!Whole(e).kind = "whole"
         /\ \A done : Keeps(e, done) => Keeps(Ratings!Whole(e), done)
BY DEF Ratings!Whole, FileAt, EntryAt, Keeps

LEMMA RatingsStarts == Ratings!RatingInit => RatingsInv
<1> SUFFICES ASSUME Ratings!RatingInit PROVE RatingsInv
  OBVIOUS
<1>1. /\ writers = {} /\ migrating = {} /\ forgot = {}
      /\ acked = [runs |-> ratings.runs, notes |-> Ratings!ToSet(ratings.notes)]
      /\ sync = "off" /\ syncMode = "both"
      /\ saving = [p \in Proc |-> "down"] /\ store = [p \in Proc |-> Ratings!None]
      /\ gist = Ratings!None /\ device = Ratings!None /\ syncEntry = Ratings!None
      /\ ratingTmp = Ratings!Empty("absent")
  BY DEF Ratings!RatingInit, Ratings!Absent
<1>2. /\ now \in 0..MaxTime /\ now \in Nat /\ ratings \in FileAt(now) /\ ratings.kind # "torn"
      /\ ratings.runs = 0
  <2>1. CASE ratings = Ratings!Absent /\ now = 0
    <3>1. 0 \in Nat /\ 0 \in 0..MaxTime
      BY RatingsFacts
    <3> QED BY <2>1, <3>1, EmptyTyped DEF Ratings!Absent, Ratings!Empty
  <2>2. CASE ratings = Ratings!Old(<<1>>) /\ now = 1
    <3>1. 1 \in Nat /\ 1 \in 0..MaxTime /\ 0 \in 0..(MaxRuns + 1) /\ 1 <= MaxNotes
      BY RatingsFacts
    <3>2. <<1>> \in Seq(1..1) /\ Len(<<1>>) = 1 /\ \A i, j \in 1..1 : ~(i < j)
      OBVIOUS
    <3>3. <<1>> \in NotesAt(1)
      BY <3>1, <3>2 DEF NotesAt, NewerFirst
    <3> QED BY <2>2, <3>1, <3>3 DEF Ratings!Old, FileAt
  <2> QED BY <2>1, <2>2 DEF Ratings!RatingInit
<1>3. ratings.notes \in Seq(1..now) /\ ratings.runs \in 0..(MaxRuns + now)
  BY <1>2 DEF FileAt, NotesAt
<1>4. acked \in [runs : 0..(MaxRuns + now), notes : SUBSET (1..now)]
  BY <1>1, <1>3, ToSetTyped
<1>5. RatingTypes
  <2>1. Ratings!None \in EntryAt(now) /\ ratingTmp \in FileAt(now)
    BY <1>1, <1>2, EmptyTyped
  <2>2. store \in [Proc -> EntryAt(now)]
    BY <1>1, <2>1
  <2>3. saving \in [Proc -> {"down", "idle", "open", "write", "rename"}]
    BY <1>1
  <2> QED BY <1>1, <1>2, <1>4, <2>1, <2>2, <2>3, FS_EmptySet DEF RatingTypes
<1>6. WriterInv
  BY <1>1 DEF WriterInv
<1>7. Keeps(ratings, acked)
  <2>1. \A t \in acked.notes : \E i \in 1..Len(ratings.notes) : ratings.notes[i] = t
    BY <1>1, <1>3 DEF Ratings!ToSet
  <2> QED BY <1>1, <1>2, <2>1 DEF Keeps
<1>8. DurableInv
  BY <1>1, <1>2, <1>7 DEF DurableInv
<1> QED BY <1>5, <1>6, <1>8 DEF RatingsInv

\* What is typed now is typed at the next record.
LEMMA TypesGrow ==
  ASSUME RatingTypes, now < MaxTime
  PROVE  /\ now + 1 \in 0..MaxTime /\ now \in Nat
         /\ ratings \in FileAt(now + 1) /\ ratingTmp \in FileAt(now + 1)
         /\ store \in [Proc -> EntryAt(now + 1)]
         /\ gist \in EntryAt(now + 1) /\ device \in EntryAt(now + 1) /\ syncEntry \in EntryAt(now + 1)
         /\ acked \in [runs : 0..(MaxRuns + (now + 1)), notes : SUBSET (1..(now + 1))]
         /\ acked \in [runs : Nat, notes : SUBSET (1..now)]
<1>1. now \in Nat /\ now + 1 \in Nat /\ now <= now + 1 /\ now + 1 \in 0..MaxTime
  BY RatingsFacts DEF RatingTypes
<1>2. EntryAt(now) \subseteq EntryAt(now + 1) /\ FileAt(now) \subseteq FileAt(now + 1)
  BY <1>1, NotesGrow
<1>3. 0..(MaxRuns + now) \subseteq 0..(MaxRuns + (now + 1)) /\ 0..(MaxRuns + now) \subseteq Nat
      /\ 1..now \subseteq 1..(now + 1)
  BY <1>1, RatingsFacts
<1>4. acked.runs \in 0..(MaxRuns + now) /\ acked.notes \in SUBSET (1..now)
      /\ acked = [runs |-> acked.runs, notes |-> acked.notes]
  BY DEF RatingTypes
<1>5. /\ acked \in [runs : 0..(MaxRuns + (now + 1)), notes : SUBSET (1..(now + 1))]
      /\ acked \in [runs : Nat, notes : SUBSET (1..now)]
  BY <1>3, <1>4
<1>6. store \in [Proc -> EntryAt(now + 1)]
  BY <1>2 DEF RatingTypes
<1> QED BY <1>1, <1>2, <1>5, <1>6 DEF RatingTypes

LEMMA LoadKeeps == ASSUME RatingsInv, NEW p \in Proc, Ratings!Load(p) PROVE RatingsInv'
<1>1. /\ saving[p] = "down" /\ store' = [store EXCEPT ![p] = Ratings!Held(ratings)]
      /\ saving' = [saving EXCEPT ![p] = IF ratings.kind = "old" THEN "open" ELSE "idle"]
      /\ UNCHANGED <<ratings, ratingTmp, now, acked, writers, gist, device, sync, syncMode, syncEntry, forgot>>
      /\ migrating' \in {migrating, migrating \cup {p}}
  BY DEF Ratings!Load, Ratings!syncVars, Ratings!loadVars
<1>2. RatingTypes /\ WriterInv /\ DurableInv
  BY DEF RatingsInv
<1>3. Ratings!Held(ratings) \in EntryAt(now) /\ (Keeps(ratings, acked) => Keeps(Ratings!Held(ratings), acked))
  BY <1>2, HeldTyped DEF RatingTypes
<1>4. /\ store' \in [Proc -> EntryAt(now)] /\ store'[p] = Ratings!Held(ratings)
      /\ \A q \in Proc : q # p => store'[q] = store[q]
  BY <1>1, <1>2, <1>3 DEF RatingTypes
<1>5. /\ saving' \in [Proc -> {"down", "idle", "open", "write", "rename"}]
      /\ saving'[p] \in {"open", "idle"} /\ \A q \in Proc : q # p => saving'[q] = saving[q]
  BY <1>1, <1>2 DEF RatingTypes
<1>6. RatingTypes'
  BY <1>1, <1>2, <1>4, <1>5 DEF RatingTypes
<1>7. WriterInv'
  BY <1>1, <1>2, <1>5 DEF WriterInv
<1>8. DurableInv'
  BY <1>1, <1>2, <1>3, <1>4, <1>5 DEF DurableInv, OneWriter
<1> QED BY <1>6, <1>7, <1>8 DEF RatingsInv

LEMMA LoadFailsKeeps == ASSUME RatingsInv, NEW p \in Proc, Ratings!LoadFails(p) PROVE RatingsInv'
<1>1. /\ saving[p] = "down" /\ saving' = [saving EXCEPT ![p] = "idle"] /\ forgot' = forgot \cup {p}
      /\ UNCHANGED <<ratings, ratingTmp, store, now, acked, writers, migrating,
                     gist, device, sync, syncMode, syncEntry>>
  BY DEF Ratings!LoadFails, Ratings!syncVars
<1>2. RatingTypes /\ WriterInv /\ DurableInv
  BY DEF RatingsInv
<1>3. /\ saving' \in [Proc -> {"down", "idle", "open", "write", "rename"}]
      /\ saving'[p] = "idle" /\ \A q \in Proc : q # p => saving'[q] = saving[q]
  BY <1>1, <1>2 DEF RatingTypes
<1>4. RatingTypes'
  BY <1>1, <1>2, <1>3 DEF RatingTypes
<1>5. WriterInv'
  BY <1>1, <1>2, <1>3 DEF WriterInv
<1>6. DurableInv'
  BY <1>1, <1>2, <1>3 DEF DurableInv, OneWriter
<1> QED BY <1>4, <1>5, <1>6 DEF RatingsInv

LEMMA RecordKeeps ==
  ASSUME RatingsInv, NEW p \in Proc, NEW e, Ratings!Record(p, e),
         e \in EntryAt(now + 1), Keeps(store[p], acked) => Keeps(e, acked)
  PROVE  RatingsInv'
<1>1. /\ saving[p] = "idle" /\ now < MaxTime /\ now' = now + 1 /\ store' = [store EXCEPT ![p] = e]
      /\ saving' = [saving EXCEPT ![p] = "open"]
      /\ UNCHANGED <<ratings, ratingTmp, acked, writers, gist, device, sync, syncMode, syncEntry, migrating, forgot>>
  BY DEF Ratings!Record, Ratings!syncVars, Ratings!loadVars
<1>2. RatingTypes /\ WriterInv /\ DurableInv
  BY DEF RatingsInv
<1>3. /\ now + 1 \in 0..MaxTime
      /\ ratings \in FileAt(now + 1) /\ ratingTmp \in FileAt(now + 1)
      /\ store \in [Proc -> EntryAt(now + 1)]
      /\ gist \in EntryAt(now + 1) /\ device \in EntryAt(now + 1) /\ syncEntry \in EntryAt(now + 1)
      /\ acked \in [runs : 0..(MaxRuns + (now + 1)), notes : SUBSET (1..(now + 1))]
  BY <1>1, <1>2, TypesGrow
<1>4. /\ store' \in [Proc -> EntryAt(now + 1)] /\ store'[p] = e
      /\ \A q \in Proc : q # p => store'[q] = store[q]
  BY <1>1, <1>3
<1>5. /\ saving' \in [Proc -> {"down", "idle", "open", "write", "rename"}]
      /\ saving'[p] = "open" /\ \A q \in Proc : q # p => saving'[q] = saving[q]
  BY <1>1, <1>2 DEF RatingTypes
<1>6. RatingTypes'
  <2>1. /\ writers' \subseteq Proc \cup {"sync"} /\ IsFiniteSet(writers')
        /\ migrating' \subseteq Proc /\ forgot' \subseteq Proc
        /\ sync' \in {"off", "pull", "overwrite", "read", "version", "push"}
        /\ syncMode' \in {"pull", "push", "both", "force"}
    BY <1>1, <1>2 DEF RatingTypes
  <2> QED BY <1>1, <1>3, <1>4, <1>5, <2>1 DEF RatingTypes
<1>7. WriterInv'
  BY <1>1, <1>2, <1>5 DEF WriterInv
<1>8. DurableInv'
  BY <1>1, <1>2, <1>4, <1>5 DEF DurableInv, OneWriter
<1> QED BY <1>6, <1>7, <1>8 DEF RatingsInv

LEMMA RecordsKeep ==
  ASSUME RatingsInv, NEW p \in Proc, Ratings!RecordInvocation(p) \/ Ratings!RecordFeedback(p)
  PROVE  RatingsInv'
<1>1. now < MaxTime
  BY DEF Ratings!RecordInvocation, Ratings!RecordFeedback, Ratings!Record
<1>2. now \in Nat /\ store[p] \in EntryAt(now) /\ acked \in [runs : Nat, notes : SUBSET (1..now)]
  BY <1>1, TypesGrow DEF RatingsInv, RatingTypes
<1>3. CASE Ratings!RecordInvocation(p)
  <2>1. Ratings!Record(p, Ratings!Invoked(store[p]))
    BY <1>3 DEF Ratings!RecordInvocation
  <2> QED BY <1>2, <2>1, InvokedKeeps, RecordKeeps
<1>4. CASE Ratings!RecordFeedback(p)
  <2>1. Ratings!Record(p, Ratings!Noted(store[p], now + 1))
    BY <1>4 DEF Ratings!RecordFeedback
  <2> QED BY <1>2, <2>1, NotedKeeps, RecordKeeps
<1> QED BY <1>3, <1>4

LEMMA OpenTmpKeeps == ASSUME RatingsInv, NEW p \in Proc, Ratings!OpenTmp(p) PROVE RatingsInv'
<1>1. /\ saving[p] = "open" /\ ratingTmp' = Ratings!Empty("torn") /\ writers' = writers \cup {p}
      /\ saving' = [saving EXCEPT ![p] = "write"]
      /\ UNCHANGED <<ratings, store, now, acked, gist, device, sync, syncMode, syncEntry, migrating, forgot>>
  BY DEF Ratings!OpenTmp, Ratings!syncVars, Ratings!loadVars, Ratings!Torn
<1>2. RatingTypes /\ WriterInv /\ DurableInv
  BY DEF RatingsInv
<1>3. /\ saving' \in [Proc -> {"down", "idle", "open", "write", "rename"}]
      /\ saving'[p] = "write" /\ \A q \in Proc : q # p => saving'[q] = saving[q]
  BY <1>1, <1>2 DEF RatingTypes
<1>4. ratingTmp' \in FileAt(now) /\ IsFiniteSet(writers')
  <2>1. now \in Nat
    BY <1>2, RatingsFacts DEF RatingTypes
  <2> QED BY <1>1, <1>2, <2>1, EmptyTyped, FS_AddElement DEF RatingTypes
<1>5. RatingTypes'
  BY <1>1, <1>2, <1>3, <1>4 DEF RatingTypes
<1>6. WriterInv'
  BY <1>1, <1>2, <1>3 DEF WriterInv
<1>7. DurableInv'
  <2> SUFFICES ASSUME OneWriter'
               PROVE  /\ ratings'.kind # "torn" /\ Keeps(ratings', acked')
                      /\ \A q \in Proc : writers' \subseteq {q} /\ saving'[q] # "down" /\ q \notin forgot' => Keeps(store'[q], acked')
                      /\ \A q \in Proc : saving'[q] = "rename" => ratingTmp' = Ratings!Whole(store'[q])
    BY DEF DurableInv
  <2>1. writers' = {p} /\ OneWriter /\ writers \subseteq {p}
    BY <1>1 DEF OneWriter
  <2>2. \A q \in Proc : saving'[q] = "rename" => q = p
    BY <1>2, <1>3, <2>1 DEF WriterInv
  <2>3. \A q \in Proc : writers' \subseteq {q} => q = p
    BY <2>1
  <2>4. /\ ratings.kind # "torn" /\ Keeps(ratings, acked)
        /\ p \notin forgot => Keeps(store[p], acked)
    BY <1>1, <1>2, <2>1 DEF DurableInv
  <2> QED BY <1>1, <1>3, <2>2, <2>3, <2>4
<1> QED BY <1>5, <1>6, <1>7 DEF RatingsInv

LEMMA WriteTmpKeeps == ASSUME RatingsInv, NEW p \in Proc, Ratings!WriteTmp(p) PROVE RatingsInv'
<1>1. /\ saving[p] = "write" /\ ratingTmp' = Ratings!Whole(store[p])
      /\ saving' = [saving EXCEPT ![p] = "rename"]
      /\ UNCHANGED <<ratings, store, now, acked, writers, gist, device, sync, syncMode, syncEntry, migrating, forgot>>
  BY DEF Ratings!WriteTmp, Ratings!syncVars, Ratings!loadVars
<1>2. RatingTypes /\ WriterInv /\ DurableInv
  BY DEF RatingsInv
<1>3. /\ saving' \in [Proc -> {"down", "idle", "open", "write", "rename"}]
      /\ saving'[p] = "rename" /\ \A q \in Proc : q # p => saving'[q] = saving[q]
  BY <1>1, <1>2 DEF RatingTypes
<1>4. ratingTmp' \in FileAt(now)
  BY <1>1, <1>2, WholeTyped DEF RatingTypes
<1>5. RatingTypes'
  BY <1>1, <1>2, <1>3, <1>4 DEF RatingTypes
<1>6. WriterInv'
  BY <1>1, <1>2, <1>3 DEF WriterInv
<1>7. DurableInv'
  <2> SUFFICES ASSUME OneWriter'
               PROVE  /\ ratings'.kind # "torn" /\ Keeps(ratings', acked')
                      /\ \A q \in Proc : writers' \subseteq {q} /\ saving'[q] # "down" /\ q \notin forgot' => Keeps(store'[q], acked')
                      /\ \A q \in Proc : saving'[q] = "rename" => ratingTmp' = Ratings!Whole(store'[q])
    BY DEF DurableInv
  <2>1. OneWriter /\ p \in writers
    BY <1>1, <1>2 DEF OneWriter, WriterInv
  <2>2. \A q \in Proc : saving'[q] = "rename" => q = p
    BY <1>2, <1>3, <2>1 DEF WriterInv, OneWriter
  <2>3. /\ ratings.kind # "torn" /\ Keeps(ratings, acked)
        /\ \A q \in Proc : writers \subseteq {q} /\ saving[q] # "down" /\ q \notin forgot => Keeps(store[q], acked)
    BY <1>2, <2>1 DEF DurableInv
  <2> QED BY <1>1, <1>3, <2>2, <2>3
<1> QED BY <1>5, <1>6, <1>7 DEF RatingsInv

LEMMA RenameKeeps == ASSUME RatingsInv, NEW p \in Proc, Ratings!Rename(p) PROVE RatingsInv'
<1>1. /\ saving[p] = "rename" /\ saving' = [saving EXCEPT ![p] = "idle"]
      /\ UNCHANGED <<store, now, writers, gist, device, sync, syncMode, syncEntry>>
      /\ migrating' = migrating \ {p} /\ forgot' = forgot \ {p}
      /\ ratings' = ratingTmp /\ ratingTmp' = Ratings!Empty("absent")
      /\ acked' = [runs |-> store[p].runs,
                   notes |-> Ratings!ToSet(store[p].notes) \cup IF p \in forgot THEN {} ELSE acked.notes]
  BY DEF Ratings!Rename, Ratings!syncVars, Ratings!loadVars, Ratings!Absent
<1>2. RatingTypes /\ WriterInv /\ DurableInv
  BY DEF RatingsInv
<1>3. /\ saving' \in [Proc -> {"down", "idle", "open", "write", "rename"}]
      /\ saving'[p] = "idle" /\ \A q \in Proc : q # p => saving'[q] = saving[q]
  BY <1>1, <1>2 DEF RatingTypes
<1>4. /\ store[p].runs \in 0..(MaxRuns + now) /\ store[p].notes \in Seq(1..now)
  BY <1>2 DEF RatingTypes, EntryAt, NotesAt
<1>5. /\ ratings' \in FileAt(now) /\ ratingTmp' \in FileAt(now)
      /\ acked' \in [runs : 0..(MaxRuns + now), notes : SUBSET (1..now)]
  <2>1. now \in Nat
    BY <1>2, RatingsFacts DEF RatingTypes
  <2>2. Ratings!ToSet(store[p].notes) \subseteq 1..now
    BY <1>4, ToSetTyped
  <2>3. acked.notes \in SUBSET (1..now)
    BY <1>2 DEF RatingTypes
  <2> QED BY <1>1, <1>2, <1>4, <2>1, <2>2, <2>3, EmptyTyped DEF RatingTypes
<1>6. RatingTypes'
  BY <1>1, <1>2, <1>3, <1>5 DEF RatingTypes
<1>7. p \in writers
  BY <1>1, <1>2 DEF WriterInv
<1>8. WriterInv'
  BY <1>1, <1>2, <1>3, <1>7 DEF WriterInv
<1>9. DurableInv'
  <2> SUFFICES ASSUME OneWriter'
               PROVE  /\ ratings'.kind # "torn" /\ Keeps(ratings', acked')
                      /\ \A q \in Proc : writers' \subseteq {q} /\ saving'[q] # "down" /\ q \notin forgot' => Keeps(store'[q], acked')
                      /\ \A q \in Proc : saving'[q] = "rename" => ratingTmp' = Ratings!Whole(store'[q])
    BY DEF DurableInv
  <2>1. OneWriter /\ writers \subseteq {p}
    BY <1>1, <1>7 DEF OneWriter
  <2>2. ratingTmp = Ratings!Whole(store[p]) /\ (p \notin forgot => Keeps(store[p], acked))
    BY <1>1, <1>2, <2>1 DEF DurableInv
  <2>3. ratingTmp.kind = "whole"
    BY <1>2, <2>2, WholeTyped DEF RatingTypes
  <2>4. /\ ratings' = Ratings!Whole(store[p])
        /\ acked'.runs = store[p].runs
        /\ acked'.notes = Ratings!ToSet(store[p].notes) \cup IF p \in forgot THEN {} ELSE acked.notes
    BY <1>1, <2>2, <2>3
  <2>5. Keeps(store[p], acked')
    <3>1. \A t \in Ratings!ToSet(store[p].notes) : \E i \in 1..Len(store[p].notes) : store[p].notes[i] = t
      BY <1>4 DEF Ratings!ToSet
    <3>2. store[p].runs >= store[p].runs
      BY <1>4, RatingsFacts, <1>2 DEF RatingTypes
    <3> QED BY <2>2, <2>4, <3>1, <3>2 DEF Keeps
  <2>6. Keeps(ratings', acked') /\ ratings'.kind = "whole"
    BY <1>2, <2>4, <2>5, WholeTyped DEF RatingTypes
  <2>7. \A q \in Proc : saving'[q] # "rename"
    BY <1>2, <1>3, <2>1 DEF WriterInv
  <2>8. \A q \in Proc : writers' \subseteq {q} => q = p
    BY <1>1, <1>7
  <2> QED BY <1>1, <2>5, <2>6, <2>7, <2>8
<1> QED BY <1>6, <1>8, <1>9 DEF RatingsInv

LEMMA CutShortKeeps ==
  ASSUME RatingsInv, NEW p \in Proc, Ratings!SaveFails(p) \/ Ratings!Crash(p) PROVE RatingsInv'
<1>1. /\ saving[p] # "down" /\ UNCHANGED <<ratings, ratingTmp, now, acked, writers, gist, device, sync, syncMode, syncEntry>>
      /\ \/ saving' = [saving EXCEPT ![p] = "idle"] /\ store' = store /\ forgot' = forgot
         \/ /\ saving' = [saving EXCEPT ![p] = "idle"] /\ store' = [store EXCEPT ![p] = Ratings!None]
            /\ forgot' = forgot \cup {p}
         \/ /\ saving' = [saving EXCEPT ![p] = "down"] /\ store' = [store EXCEPT ![p] = Ratings!None]
            /\ forgot' = forgot \ {p}
      /\ migrating' \in {migrating, migrating \ {p}}
  BY DEF Ratings!SaveFails, Ratings!Crash, Ratings!syncVars, Ratings!loadVars
<1>2. RatingTypes /\ WriterInv /\ DurableInv
  BY DEF RatingsInv
<1>3. /\ saving' \in [Proc -> {"down", "idle", "open", "write", "rename"}]
      /\ saving'[p] \in {"idle", "down"} /\ \A q \in Proc : q # p => saving'[q] = saving[q]
  BY <1>1, <1>2 DEF RatingTypes
<1>4. /\ store' \in [Proc -> EntryAt(now)]
      /\ forgot' \subseteq Proc /\ \A q \in Proc : q # p => (q \in forgot' <=> q \in forgot)
      /\ saving'[p] # "down" /\ p \notin forgot' => store'[p] = store[p] /\ p \notin forgot
      /\ \A q \in Proc : q # p => store'[q] = store[q]
  <2>1. now \in Nat
    BY <1>2, RatingsFacts DEF RatingTypes
  <2>2. Ratings!None \in EntryAt(now) /\ store \in [Proc -> EntryAt(now)] /\ forgot \subseteq Proc
    BY <1>2, <2>1, EmptyTyped DEF RatingTypes
  <2>3. CASE saving' = [saving EXCEPT ![p] = "idle"] /\ store' = store /\ forgot' = forgot
    BY <2>2, <2>3
  <2>5. CASE /\ saving' = [saving EXCEPT ![p] = "idle"] /\ store' = [store EXCEPT ![p] = Ratings!None]
             /\ forgot' = forgot \cup {p}
    BY <2>2, <2>5
  <2>4. CASE /\ saving' = [saving EXCEPT ![p] = "down"] /\ store' = [store EXCEPT ![p] = Ratings!None]
             /\ forgot' = forgot \ {p}
    <3>1. saving'[p] = "down"
      BY <1>2, <2>4 DEF RatingTypes
    <3> QED BY <2>2, <2>4, <3>1
  <2> QED BY <1>1, <2>3, <2>4, <2>5
<1>5. RatingTypes'
  BY <1>1, <1>2, <1>3, <1>4 DEF RatingTypes
<1>6. WriterInv'
  BY <1>1, <1>2, <1>3 DEF WriterInv
<1>7. DurableInv'
  BY <1>1, <1>2, <1>3, <1>4 DEF DurableInv, OneWriter
<1> QED BY <1>5, <1>6, <1>7 DEF RatingsInv

\* The steps of the sync and of the other device.
LEMMA SyncKeeps == ASSUME RatingsInv, Ratings!SyncStep PROVE RatingsInv'
<1> USE DEF Ratings!storeVars, Ratings!loadVars
<1>0. RatingTypes /\ WriterInv /\ DurableInv
  BY DEF RatingsInv
<1>a. now \in Nat /\ gist \in EntryAt(now) /\ device \in EntryAt(now) /\ syncEntry \in EntryAt(now)
      /\ ratings \in FileAt(now)
  BY <1>0, RatingsFacts DEF RatingTypes
<1>b. Ratings!None \in EntryAt(now)
  BY <1>a, EmptyTyped
\* A step that leaves the file and its writers alone.
<1>1. ASSUME UNCHANGED <<ratingTmp, store, saving, now, acked, ratings, writers, migrating, forgot>>,
             gist' \in EntryAt(now) /\ device' \in EntryAt(now) /\ syncEntry' \in EntryAt(now),
             sync' \in {"off", "pull", "overwrite", "read", "version", "push"},
             syncMode' \in {"pull", "push", "both", "force"},
             sync' = "overwrite" => sync = "overwrite"
      PROVE  RatingsInv'
  <2>1. RatingTypes'
    BY <1>0, <1>1 DEF RatingTypes
  <2>2. WriterInv' /\ DurableInv'
    BY <1>0, <1>1 DEF WriterInv, DurableInv, OneWriter
  <2> QED BY <2>1, <2>2 DEF RatingsInv
<1>2. CASE Ratings!SyncStart
  <2>1. Ratings!Held(ratings) \in EntryAt(now)
    BY <1>a, HeldTyped
  <2>2. sync' \in {"read", "pull"} /\ syncMode' \in {"pull", "push", "both", "force"}
    BY <1>2 DEF Ratings!SyncStart
  <2> QED BY <1>1, <1>2, <1>a, <2>1, <2>2 DEF Ratings!SyncStart
<1>3. CASE Ratings!Pulled
  <2>1. /\ ratings' = Ratings!Empty("torn") /\ writers' = writers \cup {"sync"} /\ sync' = "overwrite"
        /\ UNCHANGED <<ratingTmp, store, saving, now, acked, gist, device, syncMode, migrating, forgot>>
        /\ Ratings!Mergeable(syncEntry, gist)
        /\ syncEntry' \in {gist, Ratings!MergeRatings(syncEntry, gist)}
    BY <1>3 DEF Ratings!Pulled, Ratings!Torn
  <2>2. syncEntry' \in EntryAt(now)
    BY <1>a, <2>1, MergeTyped
  <2>3. ratings' \in FileAt(now) /\ IsFiniteSet(writers')
    BY <1>0, <1>a, <2>1, EmptyTyped, FS_AddElement DEF RatingTypes
  <2>4. RatingTypes'
    BY <1>0, <2>1, <2>2, <2>3 DEF RatingTypes
  <2>5. WriterInv' /\ DurableInv'
    BY <1>0, <2>1 DEF WriterInv, DurableInv, OneWriter
  <2> QED BY <2>4, <2>5 DEF RatingsInv
<1>4. CASE Ratings!Overwritten
  <2>1. /\ sync = "overwrite" /\ ratings' = Ratings!Whole(syncEntry) /\ sync' \in {"read", "off"}
        /\ syncMode' \in {syncMode, "both"} /\ syncEntry' \in {syncEntry, Ratings!None}
        /\ UNCHANGED <<ratingTmp, store, saving, now, acked, writers, gist, device, migrating, forgot>>
    BY <1>4 DEF Ratings!Overwritten, Ratings!SyncOver
  <2>2. ratings' \in FileAt(now)
    BY <1>a, <2>1, WholeTyped
  <2>3. RatingTypes'
    BY <1>0, <1>b, <2>1, <2>2 DEF RatingTypes
  <2>4. WriterInv' /\ DurableInv'
    BY <1>0, <2>1 DEF WriterInv, DurableInv, OneWriter
  <2> QED BY <2>3, <2>4 DEF RatingsInv
<1>5. CASE Ratings!PushRead
  <2>1. Ratings!Held(ratings) \in EntryAt(now)
    BY <1>a, HeldTyped
  <2> QED BY <1>0, <1>1, <1>5, <1>a, <2>1 DEF Ratings!PushRead, RatingTypes
<1>6. CASE Ratings!Versioned
  BY <1>0, <1>1, <1>6, <1>a DEF Ratings!Versioned, RatingTypes
<1>7. CASE Ratings!Push
  BY <1>0, <1>1, <1>7, <1>a, <1>b DEF Ratings!Push, Ratings!SyncOver, RatingTypes
<1>8. CASE Ratings!SyncEnds
  BY <1>0, <1>1, <1>8, <1>a, <1>b DEF Ratings!SyncEnds, Ratings!SyncOver, RatingTypes
<1>9. CASE Ratings!DeviceNotes
  <2>1. /\ now < MaxTime /\ now' = now + 1 /\ device' = Ratings!Noted(device, now + 1)
        /\ UNCHANGED <<ratings, ratingTmp, store, saving, acked, writers, gist, sync, syncMode, syncEntry, migrating, forgot>>
    BY <1>9 DEF Ratings!DeviceNotes
  <2>2. device' \in EntryAt(now + 1)
    BY <1>a, <2>1, NotedKeeps
  <2>3. /\ now + 1 \in 0..MaxTime
        /\ ratings \in FileAt(now + 1) /\ ratingTmp \in FileAt(now + 1)
        /\ store \in [Proc -> EntryAt(now + 1)]
        /\ gist \in EntryAt(now + 1) /\ syncEntry \in EntryAt(now + 1)
        /\ acked \in [runs : 0..(MaxRuns + (now + 1)), notes : SUBSET (1..(now + 1))]
    BY <1>0, <2>1, TypesGrow
  <2>4. RatingTypes'
    <3>1. /\ saving' \in [Proc -> {"down", "idle", "open", "write", "rename"}]
          /\ writers' \subseteq Proc \cup {"sync"} /\ IsFiniteSet(writers')
          /\ migrating' \subseteq Proc /\ forgot' \subseteq Proc
          /\ sync' \in {"off", "pull", "overwrite", "read", "version", "push"}
          /\ syncMode' \in {"pull", "push", "both", "force"}
      BY <1>0, <2>1 DEF RatingTypes
    <3> QED BY <2>1, <2>2, <2>3, <3>1 DEF RatingTypes
  <2>5. WriterInv' /\ DurableInv'
    BY <1>0, <2>1 DEF WriterInv, DurableInv, OneWriter
  <2> QED BY <2>4, <2>5 DEF RatingsInv
<1>10. CASE Ratings!DeviceSyncs
  <2>1. /\ UNCHANGED <<ratingTmp, store, saving, now, acked, ratings, writers, sync, syncMode, syncEntry, migrating, forgot>>
        /\ \/ Ratings!Mergeable(device, gist) /\ device' = Ratings!MergeRatings(device, gist) /\ gist' = gist
           \/ gist' = device /\ device' = device
    BY <1>10 DEF Ratings!DeviceSyncs
  <2>2. gist' \in EntryAt(now) /\ device' \in EntryAt(now)
    BY <1>a, <2>1, MergeTyped
  <2> QED BY <1>0, <1>1, <1>a, <2>1, <2>2 DEF RatingTypes
<1> QED BY <1>2, <1>3, <1>4, <1>5, <1>6, <1>7, <1>8, <1>9, <1>10 DEF Ratings!SyncStep

LEMMA RatingsKeeps == RatingsInv /\ [Ratings!RatingNext]_(Ratings!ratingVars) => RatingsInv'
<1> SUFFICES ASSUME RatingsInv, [Ratings!RatingNext]_(Ratings!ratingVars) PROVE RatingsInv'
  OBVIOUS
<1>1. CASE UNCHANGED Ratings!ratingVars
  <2>1. UNCHANGED <<ratings, ratingTmp, store, saving, now, acked, writers, gist, device,
                    sync, syncMode, syncEntry, migrating, forgot>>
    BY <1>1 DEF Ratings!ratingVars
  <2>2. RatingTypes' /\ WriterInv' /\ DurableInv'
    BY <2>1 DEF RatingsInv, RatingTypes, WriterInv, DurableInv, OneWriter
  <2> QED BY <2>2 DEF RatingsInv
<1>2. CASE Ratings!StoreStep
  BY <1>2, LoadKeeps, LoadFailsKeeps, RecordsKeep, OpenTmpKeeps, WriteTmpKeeps, RenameKeeps, CutShortKeeps
     DEF Ratings!StoreStep
<1> QED BY <1>1, <1>2, SyncKeeps DEF Ratings!RatingNext

LEMMA RatingsFollows == RatingsInv => Ratings!RecordsDurable /\ Ratings!FeedbackOnce /\ Ratings!RatingTypeOK
<1> SUFFICES ASSUME RatingsInv
             PROVE  Ratings!RecordsDurable /\ Ratings!FeedbackOnce /\ Ratings!RatingTypeOK
  OBVIOUS
<1>1. RatingTypes /\ DurableInv
  BY DEF RatingsInv
<1>2. Ratings!RecordsDurable
  <2> SUFFICES ASSUME Cardinality(writers) <= 1, "sync" \notin writers
               PROVE  /\ ratings.kind # "torn" /\ ratings.runs >= acked.runs
                      /\ \A t \in acked.notes :
                           \/ t \in Ratings!ToSet(ratings.notes)
                           \/ /\ Len(ratings.notes) = MaxNotes
                              /\ \A u \in Ratings!ToSet(ratings.notes) : u > t
    BY RatingsFacts DEF Ratings!RecordsDurable
  <2>1. \A a, b \in writers : a = b
    <3> SUFFICES ASSUME NEW a \in writers, NEW b \in writers, a # b PROVE FALSE
      OBVIOUS
    <3>1. IsFiniteSet(writers) /\ Cardinality(writers) \in Nat
      BY <1>1, FS_CardinalityType DEF RatingTypes
    <3>2. IsFiniteSet(writers \ {a}) /\ Cardinality(writers \ {a}) = Cardinality(writers) - 1
      BY <3>1, FS_RemoveElement
    <3>3. Cardinality(writers \ {a}) \in Nat
      BY <3>2, FS_CardinalityType
    <3>4. Cardinality(writers \ {a}) = 0
      BY <3>1, <3>2, <3>3
    <3>5. writers \ {a} = {}
      BY <3>2, <3>4, FS_EmptySet
    <3> QED BY <3>5
  <2>2. OneWriter
    BY <2>1 DEF OneWriter
  <2>3. ratings.kind # "torn" /\ Keeps(ratings, acked)
    BY <1>1, <2>2 DEF DurableInv
  <2>4. ratings.notes \in Seq(1..now)
    BY <1>1 DEF RatingTypes, FileAt, NotesAt
  <2>5. Ratings!ToSet(ratings.notes) = {ratings.notes[i] : i \in 1..Len(ratings.notes)}
    BY <2>4 DEF Ratings!ToSet
  <2> QED BY <2>3, <2>5 DEF Keeps
<1>3. \A e \in {ratings, ratingTmp, gist, device, syncEntry} \cup {store[p] : p \in Proc} :
        e.notes \in NotesAt(now)
  BY <1>1 DEF RatingTypes, FileAt, EntryAt
<1>4. Ratings!FeedbackOnce
  BY <1>3 DEF NotesAt, NewerFirst, Ratings!FeedbackOnce
<1>5. Ratings!RatingTypeOK
  <2>1. now \in 0..MaxTime /\ now \in Nat /\ MaxTime \in Nat /\ MaxRuns \in Nat /\ MaxNotes \in Nat
    BY <1>1, RatingsFacts DEF RatingTypes
  <2>2. 0..(MaxRuns + now) \subseteq 0..(MaxRuns + MaxTime) /\ 1..now \subseteq 1..MaxTime
    BY <2>1
  <2>3. NotesAt(now) \subseteq Ratings!SeqOf(1..MaxTime, MaxNotes)
    <3> SUFFICES ASSUME NEW s \in NotesAt(now) PROVE s \in Ratings!SeqOf(1..MaxTime, MaxNotes)
      OBVIOUS
    <3>1. s \in Seq(1..now) /\ Len(s) <= MaxNotes
      BY DEF NotesAt
    <3>2. Len(s) \in 0..MaxNotes /\ s \in [1..Len(s) -> 1..MaxTime]
      <4>1. \A i \in 1..Len(s) : s[i] \in 1..MaxTime
        <5> TAKE i \in 1..Len(s)
        <5>1. s[i] \in 1..now
          BY <3>1, ElementTyped
        <5> QED BY <2>2, <5>1
      <4> QED BY <2>1, <3>1, <4>1
    <3> QED BY <3>2 DEF Ratings!SeqOf
  <2>4. EntryAt(now) \subseteq Ratings!Entry /\ FileAt(now) \subseteq Ratings!File
    BY <2>2, <2>3 DEF EntryAt, FileAt, Ratings!Entry, Ratings!File
  <2>5. /\ ratings \in Ratings!File /\ ratingTmp \in Ratings!File
        /\ store \in [Proc -> Ratings!Entry] /\ gist \in Ratings!Entry /\ device \in Ratings!Entry
        /\ syncEntry \in Ratings!Entry
    BY <1>1, <2>4 DEF RatingTypes
  <2>6. acked.runs \in 0..(MaxRuns + MaxTime) /\ acked.notes \subseteq 1..MaxTime
    BY <1>1, <2>2 DEF RatingTypes
  <2> QED BY <1>1, <2>5, <2>6 DEF RatingTypes, Ratings!RatingTypeOK
<1> QED BY <1>2, <1>4, <1>5

(***************************************************************************)
(* Evolution.  Every text that SKILL.md had is of approved changes and     *)
(* safe ones; while one process makes the snapshots, its counter is the    *)
(* number of the newest.                                                   *)
(***************************************************************************)
Clean(s) == s \in SUBSET Change /\ s \cap Risky \subseteq approved

EvolutionShape ==
  /\ skillMd \in SUBSET Change /\ proposal \in SUBSET Change
  /\ seen \in SUBSET Change /\ approved \in SUBSET Change

HistoryInv ==
  /\ DOMAIN history \subseteq 1..MaxSeq
  /\ \A n \in DOMAIN history : history[n] \in SUBSET Change

CountInv ==
  /\ seqOf \in [{"host", "cli"} -> 0..MaxSeq]
  /\ author \in {"none", "gone", "many", "host", "cli"}

AskedInv ==
  /\ asked \in {"no", "review", "rollback"} /\ index \in 0..MaxSeq
  /\ replaced \in {{}} \cup {{c} : c \in SUBSET Change}

ApprovedInv == Clean(skillMd) /\ \A n \in DOMAIN history : Clean(history[n])

NewestInv ==
  /\ author = "none" => DOMAIN history = {}
  /\ author \in {"host", "cli"} =>
       /\ DOMAIN history \subseteq 1..seqOf[author]
       /\ replaced # {} => /\ seqOf[author] \in DOMAIN history
                           /\ replaced = {history[seqOf[author]]}

EvolutionInv ==
  EvolutionShape /\ HistoryInv /\ CountInv /\ AskedInv /\ ApprovedInv /\ NewestInv

LEMMA EvolutionFacts ==
  /\ Risky \subseteq Change /\ MaxHistory \in Nat \ {0} /\ MaxSeq \in Nat
  /\ \A S : Evolution!Cardinality(S) = Cardinality(S)
BY ServicesAssumption
   DEF ServicesAssumption, Evolution!EvolutionAssumption, Evolution!Cardinality, Cardinality

LEMMA EvolutionStarts == Evolution!EvolutionInit => EvolutionInv
<1> SUFFICES ASSUME Evolution!EvolutionInit PROVE EvolutionInv
  OBVIOUS
<1>1. /\ history = << >> /\ skillMd = {} /\ proposal = {} /\ seen = {} /\ approved = {}
      /\ seqOf = [p \in {"host", "cli"} |-> 0] /\ author = "none" /\ asked = "no"
      /\ index = 0 /\ replaced = {}
  BY DEF Evolution!EvolutionInit, Evolution!Process
<1>2. DOMAIN history = {}
  BY <1>1
<1>3. EvolutionShape /\ ApprovedInv /\ NewestInv
  BY <1>1, <1>2 DEF EvolutionShape, ApprovedInv, NewestInv, Clean
<1>4. HistoryInv
  BY <1>2 DEF HistoryInv
<1>5. CountInv
  BY <1>1, EvolutionFacts DEF CountInv
<1>6. AskedInv
  BY <1>1, EvolutionFacts DEF AskedInv
<1> QED BY <1>3, <1>4, <1>5, <1>6 DEF EvolutionInv

\* What shadowCopy() leaves: some of the old snapshots, and the new one.
LEMMA CopyMade ==
  ASSUME EvolutionInv, NEW p \in {"host", "cli"}, NEW max \in Nat \ {0},
         NEW kept, kept = Evolution!Snapshots(p, max), seqOf[p] < MaxSeq
  PROVE  /\ DOMAIN kept \subseteq DOMAIN history \cup {seqOf[p] + 1}
         /\ \A n \in DOMAIN kept : kept[n] = IF n = seqOf[p] + 1 THEN skillMd ELSE history[n]
         /\ DOMAIN history \subseteq 1..seqOf[p] => seqOf[p] + 1 \in DOMAIN kept
         /\ DOMAIN kept \subseteq 1..MaxSeq
         /\ \A n \in DOMAIN kept : Clean(kept[n])
<1> DEFINE new == seqOf[p] + 1
           all == [n \in DOMAIN history \cup {new} |-> IF n = new THEN skillMd ELSE history[n]]
           last == {n \in DOMAIN all : Cardinality({m \in DOMAIN all : m > n}) < max}
<1>1. kept = [n \in last |-> all[n]]
  BY EvolutionFacts
     DEF Evolution!Snapshots, Evolution!Pruned, Evolution!Restrict
<1>2. seqOf[p] \in 0..MaxSeq /\ MaxSeq \in Nat /\ new \in 1..MaxSeq
  BY EvolutionFacts DEF EvolutionInv, CountInv
<1>3. /\ last \subseteq DOMAIN history \cup {new} /\ DOMAIN kept = last
      /\ \A n \in last : kept[n] = IF n = new THEN skillMd ELSE history[n]
  BY <1>1
<1>4. ASSUME DOMAIN history \subseteq 1..seqOf[p] PROVE new \in last
  <2>1. {m \in DOMAIN all : m > new} = {}
    BY <1>2, <1>4
  <2>2. Cardinality({m \in DOMAIN all : m > new}) < max
    BY <2>1, FS_EmptySet
  <2>3. new \in DOMAIN all
    OBVIOUS
  <2> HIDE DEF all, new
  <2> QED BY <2>2, <2>3
<1> HIDE DEF last, all
<1>5. last \subseteq 1..MaxSeq
  BY <1>2, <1>3 DEF EvolutionInv, HistoryInv
<1>6. \A n \in last : Clean(kept[n])
  BY <1>3 DEF EvolutionInv, ApprovedInv
<1> QED BY <1>3, <1>4, <1>5, <1>6

\* A snapshot keeps the texts clean and, in a history of one process, is the newest.
LEMMA CopyKeeps ==
  ASSUME EvolutionInv, NEW p \in {"host", "cli"}, NEW max \in Nat \ {0},
         Evolution!ShadowCopy(p, max), approved \subseteq approved'
  PROVE  /\ HistoryInv' /\ CountInv' /\ NewestInv'
         /\ replaced' \in {{c} : c \in SUBSET Change}
         /\ (\A n \in DOMAIN history : Clean(history[n]))'
<1>1. /\ seqOf[p] < MaxSeq /\ history' = Evolution!Snapshots(p, max)
      /\ seqOf' = [seqOf EXCEPT ![p] = @ + 1]
      /\ author' = IF author \in {"none", p} THEN p ELSE "many"
      /\ replaced' = {skillMd}
  BY DEF Evolution!ShadowCopy
<1>2. /\ DOMAIN history' \subseteq DOMAIN history \cup {seqOf[p] + 1}
      /\ \A n \in DOMAIN history' : history'[n] = IF n = seqOf[p] + 1 THEN skillMd ELSE history[n]
      /\ DOMAIN history \subseteq 1..seqOf[p] => seqOf[p] + 1 \in DOMAIN history'
      /\ DOMAIN history' \subseteq 1..MaxSeq
      /\ \A n \in DOMAIN history' : Clean(history'[n])
  BY <1>1, CopyMade
<1>3. /\ MaxSeq \in Nat /\ seqOf \in [{"host", "cli"} -> 0..MaxSeq]
      /\ seqOf'[p] = seqOf[p] + 1 /\ seqOf' \in [{"host", "cli"} -> 0..MaxSeq]
  <2>1. MaxSeq \in Nat /\ seqOf \in [{"host", "cli"} -> 0..MaxSeq]
    BY EvolutionFacts DEF EvolutionInv, CountInv
  <2>2. seqOf[p] + 1 \in 0..MaxSeq
    BY <1>1, <2>1
  <2>3. seqOf' = [seqOf EXCEPT ![p] = seqOf[p] + 1]
    BY <1>1
  <2>4. seqOf'[p] = seqOf[p] + 1
    BY <2>1, <2>3
  <2>5. seqOf' \in [{"host", "cli"} -> 0..MaxSeq]
    BY <2>1, <2>2, <2>3, Zenon
  <2> QED BY <2>1, <2>4, <2>5
<1>4. (\A n \in DOMAIN history : Clean(history[n]))'
  BY <1>2 DEF Clean
<1>5. HistoryInv'
  BY <1>2 DEF HistoryInv, Clean
<1>6. CountInv'
  BY <1>1, <1>3 DEF CountInv
<1>7. NewestInv'
  <2>1. CASE author \in {"none", p}
    <3>1. author' = p /\ author' \in {"host", "cli"}
      BY <1>1, <2>1
    <3>2. DOMAIN history \subseteq 1..seqOf[p]
      BY <2>1 DEF EvolutionInv, NewestInv
    <3>3. DOMAIN history' \subseteq 1..seqOf'[p]
      BY <1>2, <1>3, <3>2
    <3>4. seqOf'[p] \in DOMAIN history' /\ history'[seqOf'[p]] = skillMd
      BY <1>2, <1>3, <3>2
    <3> QED BY <1>1, <3>1, <3>3, <3>4 DEF NewestInv
  <2>2. CASE author \notin {"none", p}
    <3>1. author' = "many"
      BY <1>1, <2>2
    <3> QED BY <3>1 DEF NewestInv
  <2> QED BY <2>1, <2>2
<1>8. replaced' \in {{c} : c \in SUBSET Change}
  BY <1>1 DEF EvolutionInv, EvolutionShape
<1> QED BY <1>4, <1>5, <1>6, <1>7, <1>8

LEMMA NoCopyKeeps ==
  ASSUME EvolutionInv, Evolution!NoCopy
  PROVE  HistoryInv' /\ CountInv' /\ NewestInv'
BY DEF EvolutionInv, HistoryInv, CountInv, NewestInv, Evolution!NoCopy

\* Only what is safe is applied.
LEMMA ApplyKeeps ==
  ASSUME EvolutionInv, NEW p \in {"host", "cli"}, NEW changes \in SUBSET Change,
         Evolution!ApplySafe(p, changes), approved' \in SUBSET Change,
         approved \subseteq approved', asked' \in {"no", "review", "rollback"},
         index' = index
  PROVE  HistoryInv' /\ CountInv' /\ AskedInv' /\ ApprovedInv' /\ NewestInv' /\ skillMd' \in SUBSET Change
<1>1. CASE Evolution!Safe(changes) = {}
  <2>1. Evolution!NoCopy /\ skillMd' = skillMd
    BY <1>1 DEF Evolution!ApplySafe
  <2>2. HistoryInv' /\ CountInv' /\ NewestInv'
    BY <2>1, NoCopyKeeps
  <2>3. AskedInv' /\ ApprovedInv' /\ skillMd' \in SUBSET Change
    BY <2>1 DEF EvolutionInv, EvolutionShape, AskedInv, ApprovedInv, Clean, Evolution!NoCopy
  <2> QED BY <2>2, <2>3
<1>2. CASE Evolution!Safe(changes) # {}
  <2>1. /\ skillMd' = skillMd \cup Evolution!Safe(changes)
        /\ Evolution!ShadowCopy(p, MaxHistory)
    BY <1>2 DEF Evolution!ApplySafe
  <2>2. /\ HistoryInv' /\ CountInv' /\ NewestInv'
        /\ replaced' \in {{c} : c \in SUBSET Change}
        /\ (\A n \in DOMAIN history : Clean(history[n]))'
    BY <2>1, CopyKeeps, EvolutionFacts
  <2>3. Clean(skillMd)'
    BY <2>1 DEF EvolutionInv, ApprovedInv, Clean, Evolution!Safe
  <2>4. AskedInv'
    <3>1. index' \in 0..MaxSeq
      BY DEF EvolutionInv, AskedInv
    <3> QED BY <2>2, <3>1, Zenon DEF AskedInv
  <2> QED BY <2>2, <2>3, <2>4 DEF ApprovedInv, Clean
<1> QED BY <1>1, <1>2

LEMMA ConfirmEvolution == ASSUME EvolutionInv, Evolution!Confirm PROVE EvolutionInv'
<1> DEFINE kept == Evolution!Snapshots("cli", 1000)
<1>1. /\ \/ skillMd' = skillMd
         \/ \E n \in DOMAIN kept : skillMd' = kept[n]
      /\ Evolution!ShadowCopy("cli", 1000) /\ asked' = "no"
      /\ UNCHANGED <<proposal, seen, index, approved>>
  BY DEF Evolution!Confirm
<1>2. history' = kept
  BY <1>1 DEF Evolution!ShadowCopy
<1> HIDE DEF kept
<1>3. /\ HistoryInv' /\ CountInv' /\ NewestInv'
      /\ replaced' \in {{c} : c \in SUBSET Change}
      /\ (\A n \in DOMAIN history : Clean(history[n]))'
  BY <1>1, CopyKeeps
<1>4. Clean(skillMd)'
  <2>1. CASE skillMd' = skillMd
    BY <1>1, <2>1 DEF EvolutionInv, ApprovedInv, Clean
  <2>2. CASE \E n \in DOMAIN kept : skillMd' = kept[n]
    BY <1>2, <1>3, <2>2 DEF Clean
  <2> QED BY <1>1, <2>1, <2>2
<1>5. AskedInv'
  <2>1. index' \in 0..MaxSeq /\ asked' = "no"
    BY <1>1 DEF EvolutionInv, AskedInv
  <2> QED BY <1>3, <2>1, Zenon DEF AskedInv
<1> QED BY <1>1, <1>3, <1>4, <1>5 DEF EvolutionInv, EvolutionShape, ApprovedInv, Clean

\* A new process begins to count anew.
LEMMA CountedAnew ==
  ASSUME EvolutionInv, NEW p \in {"host", "cli"}, UNCHANGED <<history, replaced>>,
         seqOf' = [seqOf EXCEPT ![p] = 0],
         author' = IF author = p THEN "gone" ELSE author
  PROVE  HistoryInv' /\ CountInv' /\ NewestInv'
<1>1. HistoryInv'
  BY DEF EvolutionInv, HistoryInv
<1>2. CountInv'
  BY EvolutionFacts DEF EvolutionInv, CountInv
<1>3. CASE author = p
  <2>1. author' = "gone"
    BY <1>3
  <2>2. NewestInv'
    BY <2>1 DEF NewestInv
  <2> QED BY <1>1, <1>2, <2>2
<1>4. CASE author # p
  <2>1. author' = author /\ (author \in {"host", "cli"} => seqOf'[author] = seqOf[author])
    BY <1>4 DEF EvolutionInv, CountInv
  <2>2. CASE author \in {"host", "cli"}
    <3>1. author' \in {"host", "cli"} /\ seqOf'[author'] = seqOf[author]
      BY <2>1, <2>2
    <3> QED BY <1>1, <1>2, <2>1, <2>2, <3>1 DEF EvolutionInv, NewestInv
  <2>3. CASE author \notin {"host", "cli"}
    <3>1. NewestInv'
      BY <2>1, <2>3 DEF EvolutionInv, NewestInv
    <3> QED BY <1>1, <1>2, <3>1
  <2> QED BY <2>2, <2>3
<1> QED BY <1>1, <1>2, <1>3, <1>4

LEMMA RollbackToIndex ==
  ASSUME HistoryInv, NEW i \in 0..(Cardinality(DOMAIN history) - 1)
  PROVE  i \in 0..MaxSeq
<1>1. IsFiniteSet(1..MaxSeq) /\ Cardinality(1..MaxSeq) = MaxSeq
  BY EvolutionFacts, FS_Interval
<1>2. Cardinality(DOMAIN history) <= MaxSeq /\ Cardinality(DOMAIN history) \in Nat
  BY <1>1, FS_Subset, FS_CardinalityType, EvolutionFacts DEF HistoryInv
<1> QED BY <1>2, EvolutionFacts

LEMMA EvolutionKeeps == EvolutionInv /\ [Evolution!EvolutionNext]_(Evolution!evolutionVars) => EvolutionInv'
<1> SUFFICES ASSUME EvolutionInv, [Evolution!EvolutionNext]_(Evolution!evolutionVars)
             PROVE  EvolutionInv'
  OBVIOUS
<1>1. ASSUME UNCHANGED <<skillMd, history, seqOf, author, asked, index, replaced>>,
             proposal' \in SUBSET Change, seen' \in SUBSET Change, approved' = approved
      PROVE  EvolutionInv'
  <2>1. EvolutionShape' /\ HistoryInv' /\ CountInv'
    BY <1>1 DEF EvolutionInv, EvolutionShape, HistoryInv, CountInv
  <2>2. AskedInv' /\ ApprovedInv' /\ NewestInv'
    BY <1>1 DEF EvolutionInv, AskedInv, ApprovedInv, NewestInv, Clean
  <2> QED BY <2>1, <2>2 DEF EvolutionInv
<1>2. CASE UNCHANGED Evolution!evolutionVars
  BY <1>1, <1>2 DEF Evolution!evolutionVars, EvolutionInv, EvolutionShape
<1>3. ASSUME NEW changes \in Evolution!Proposals, Evolution!HostApplies(changes) PROVE EvolutionInv'
  <2>1. changes \in SUBSET Change
    BY DEF Evolution!Proposals, Evolution!Content
  <2>2. /\ Evolution!ApplySafe("host", changes)
        /\ proposal' = IF changes \cap Risky = {} THEN proposal ELSE changes \cap Risky
        /\ UNCHANGED <<asked, seen, index, approved>>
    BY <1>3 DEF Evolution!HostApplies
  <2>3. proposal' \in SUBSET Change
    BY <2>1, <2>2 DEF EvolutionInv, EvolutionShape
  <2>4. HistoryInv' /\ CountInv' /\ AskedInv' /\ ApprovedInv' /\ NewestInv' /\ skillMd' \in SUBSET Change
    BY <2>1, <2>2, ApplyKeeps DEF EvolutionInv, EvolutionShape, AskedInv
  <2> QED BY <2>2, <2>3, <2>4 DEF EvolutionInv, EvolutionShape
<1>4. ASSUME NEW changes \in Evolution!Proposals, Evolution!HostStages(changes) PROVE EvolutionInv'
  BY <1>1, <1>4 DEF Evolution!HostStages, Evolution!NoCopy, Evolution!Proposals,
     Evolution!Content, EvolutionInv, EvolutionShape
<1>5. CASE Evolution!HostRestarts
  <2>1. /\ seqOf' = [seqOf EXCEPT !["host"] = 0]
        /\ author' = IF author = "host" THEN "gone" ELSE author
        /\ UNCHANGED <<skillMd, history, proposal, asked, seen, index, approved, replaced>>
    BY <1>5 DEF Evolution!HostRestarts
  <2>2. HistoryInv' /\ CountInv' /\ NewestInv'
    BY <2>1, CountedAnew
  <2> QED BY <2>1, <2>2 DEF EvolutionInv, EvolutionShape, AskedInv, ApprovedInv, Clean
<1>6. ASSUME NEW c \in Change, Evolution!UserEdits(c) PROVE EvolutionInv'
  <2>1. /\ skillMd' = skillMd \ {c} /\ replaced' = {}
        /\ UNCHANGED <<history, seqOf, author, proposal, asked, seen, index, approved>>
    BY <1>6 DEF Evolution!UserEdits
  <2>2. EvolutionShape' /\ HistoryInv' /\ CountInv'
    BY <2>1 DEF EvolutionInv, EvolutionShape, HistoryInv, CountInv
  <2>3. AskedInv' /\ ApprovedInv' /\ NewestInv'
    BY <2>1 DEF EvolutionInv, AskedInv, ApprovedInv, NewestInv, Clean
  <2> QED BY <2>2, <2>3 DEF EvolutionInv
<1>12. ASSUME NEW c \in Change, Evolution!UserWrites(c) PROVE EvolutionInv'
  <2>1. /\ skillMd' = skillMd \cup {c} /\ replaced' = {} /\ approved' = approved \cup {c}
        /\ UNCHANGED <<history, seqOf, author, proposal, asked, seen, index>>
    BY <1>12 DEF Evolution!UserWrites
  <2>2. EvolutionShape' /\ HistoryInv' /\ CountInv'
    BY <2>1 DEF EvolutionInv, EvolutionShape, HistoryInv, CountInv
  <2>3. AskedInv' /\ ApprovedInv' /\ NewestInv'
    BY <2>1 DEF EvolutionInv, EvolutionShape, AskedInv, ApprovedInv, NewestInv, Clean
  <2> QED BY <2>2, <2>3 DEF EvolutionInv
<1>7. ASSUME NEW what \in {"review", "rollback"}, Evolution!Command(what),
             seen' \in SUBSET Change, index' \in 0..MaxSeq
      PROVE  EvolutionInv'
  <2>1. /\ seqOf' = [seqOf EXCEPT !["cli"] = 0] /\ asked' = what
        /\ author' = IF author = "cli" THEN "gone" ELSE author
        /\ UNCHANGED <<skillMd, history, proposal, approved, replaced>>
    BY <1>7 DEF Evolution!Command
  <2>2. HistoryInv' /\ CountInv' /\ NewestInv'
    BY <2>1, CountedAnew
  <2>3. EvolutionShape' /\ AskedInv' /\ ApprovedInv'
    BY <1>7, <2>1 DEF EvolutionInv, EvolutionShape, AskedInv, ApprovedInv, Clean
  <2> QED BY <2>2, <2>3 DEF EvolutionInv
<1>8. CASE Evolution!Review
  BY <1>7, <1>8 DEF Evolution!Review, EvolutionInv, EvolutionShape, AskedInv
<1>9. CASE Evolution!RollbackTo
  <2>1. /\ Evolution!Command("rollback") /\ seen' = seen
        /\ index' \in 0..(Cardinality(DOMAIN history) - 1)
    BY <1>9, EvolutionFacts DEF Evolution!RollbackTo
  <2>2. index' \in 0..MaxSeq
    BY <2>1, RollbackToIndex DEF EvolutionInv
  <2> QED BY <1>7, <2>1, <2>2 DEF EvolutionInv, EvolutionShape
<1>10. CASE Evolution!Approve
  <2>1. /\ Evolution!ApplySafe("cli", seen) /\ approved' = approved \cup seen
        /\ proposal' = {} /\ asked' = "no" /\ UNCHANGED <<seen, index>>
    BY <1>10 DEF Evolution!Approve
  <2>2. HistoryInv' /\ CountInv' /\ AskedInv' /\ ApprovedInv' /\ NewestInv' /\ skillMd' \in SUBSET Change
    BY <2>1, ApplyKeeps DEF EvolutionInv, EvolutionShape
  <2> QED BY <2>1, <2>2 DEF EvolutionInv, EvolutionShape
<1>11. CASE Evolution!Reject \/ Evolution!Skip
  <2>1. Evolution!NoCopy /\ UNCHANGED <<skillMd, seen, index, approved>> /\ asked' = "no" /\ proposal' \in {proposal, {}}
    BY <1>11 DEF Evolution!Reject, Evolution!Skip
  <2>2. HistoryInv' /\ CountInv' /\ NewestInv'
    BY <2>1, NoCopyKeeps
  <2>3. EvolutionShape' /\ AskedInv' /\ ApprovedInv'
    BY <2>1 DEF EvolutionInv, EvolutionShape, AskedInv, ApprovedInv, Clean, Evolution!NoCopy
  <2> QED BY <2>2, <2>3 DEF EvolutionInv
<1> QED BY <1>2, <1>3, <1>4, <1>5, <1>6, <1>12, <1>8, <1>9, <1>10, <1>11, ConfirmEvolution
    DEF Evolution!EvolutionNext

LEMMA EvolutionFollows ==
  EvolutionInv => Evolution!RiskyOnlyApproved /\ Evolution!ReplacedIsNewest
<1> SUFFICES ASSUME EvolutionInv PROVE Evolution!RiskyOnlyApproved /\ Evolution!ReplacedIsNewest
  OBVIOUS
<1>1. Evolution!RiskyOnlyApproved
  BY DEF Evolution!RiskyOnlyApproved, EvolutionInv, ApprovedInv, Clean
<1>2. ASSUME author \in Evolution!Process, replaced # {}
      PROVE  history # << >> /\ replaced = {history[Evolution!Newest(history)]}
  <2>1. /\ DOMAIN history \subseteq 1..seqOf[author] /\ seqOf[author] \in DOMAIN history
        /\ replaced = {history[seqOf[author]]}
    BY <1>2 DEF EvolutionInv, NewestInv, Evolution!Process
  <2>2. seqOf[author] \in Nat
    BY <1>2, EvolutionFacts DEF EvolutionInv, CountInv, Evolution!Process
  <2>3. Evolution!Newest(history) = seqOf[author]
    <3>1. \A m \in DOMAIN history : m <= seqOf[author]
      BY <2>1, <2>2
    <3>2. /\ Evolution!Newest(history) \in DOMAIN history
          /\ \A m \in DOMAIN history : m <= Evolution!Newest(history)
      BY <2>1, <3>1 DEF Evolution!Newest
    <3> QED BY <2>1, <2>2, <3>1, <3>2
  <2>4. history # << >>
    BY <2>1
  <2> QED BY <2>1, <2>3, <2>4
<1> QED BY <1>1, <1>2 DEF Evolution!ReplacedIsNewest

LEMMA EvolutionTyped == EvolutionInv => Evolution!EvolutionTypeOK
BY DEF EvolutionInv, EvolutionShape, HistoryInv, CountInv, AskedInv, Evolution!EvolutionTypeOK,
   Evolution!Content, Evolution!Process

(***************************************************************************)
(* An installation: the id it carries from the directory it wipes to the   *)
(* one it leaves.                                                          *)
(***************************************************************************)
Untouched == {"download", "validate"}
Replacing == {"wipe", "fill", "identity"}

InstallTypes ==
  /\ skill \in Install!Skills /\ before \in Install!Skills /\ skillsIndex \in Install!Index
  /\ job \in [via : {"zip", "index"}, version : 1..MaxVersion, md : BOOLEAN, prior : 0..MaxIds]
  /\ ids \in 0..MaxIds /\ owed \in 0..MaxIds

InstallStages ==
  /\ installAt \in {"idle", "download", "validate", "wipe", "fill", "identity", "unlink", "delete"}
  /\ syncPhase \in {"off", "check", "bulk", "remove", "cloud"}
  /\ ended \in {"none", "ok", "refused", "failed", "crashed"}
  /\ installAt # "idle" => ended = "none"
  /\ installAt = "download" => job.via = "zip"
  /\ installAt = "validate" => job.via = "index"

IdInv ==
  /\ installAt \in {"idle", "unlink"} \cup Untouched => skill.id = owed
  /\ installAt \in Replacing => job.prior = owed
  /\ installAt \in Replacing \ {"wipe"} => skill.id = 0

FilesInv ==
  /\ installAt \in Untouched => skill = before
  /\ installAt = "identity" /\ job.via = "index" => skill.version = job.version /\ skill.files
  /\ Install!RefusedLeavesIntact /\ Install!UpdateSettles

InstallInv == InstallTypes /\ InstallStages /\ IdInv /\ FilesInv

LEMMA InstallFacts == MaxVersion \in Nat \ {0} /\ MaxIds \in Nat
BY ServicesAssumption DEF ServicesAssumption, Install!InstallAssumption

LEMMA InstallStarts == Install!InstallInit => InstallInv
BY InstallFacts DEF Install!InstallInit, InstallInv, InstallTypes, InstallStages, IdInv, FilesInv,
   Install!RefusedLeavesIntact, Install!UpdateSettles, Install!Gone, Install!Skills, Install!Index,
   Untouched, Replacing

LEMMA BeginTyped ==
  ASSUME InstallTypes, NEW via \in {"zip", "index"}, NEW version \in 1..MaxVersion,
         NEW md \in BOOLEAN, NEW by, Install!Begin(via, version, md, by)
  PROVE  /\ job' \in [via : {"zip", "index"}, version : 1..MaxVersion, md : BOOLEAN,
                      prior : 0..MaxIds]
         /\ before' \in Install!Skills
<1>1. 0 \in 0..MaxIds
  BY InstallFacts
<1>2. job' = [via |-> via, version |-> version, md |-> md, prior |-> 0] /\ before' = skill
  BY DEF Install!Begin
<1> QED BY <1>1, <1>2, Zenon DEF InstallTypes

LEMMA SkillTyped ==
  ASSUME NEW d \in BOOLEAN, NEW v \in 0..MaxVersion, NEW f \in BOOLEAN, NEW i \in 0..MaxIds
  PROVE  [dir |-> d, version |-> v, files |-> f, id |-> i] \in Install!Skills
BY Zenon DEF Install!Skills

LEMMA SkillChanges ==
  ASSUME NEW s \in Install!Skills
  PROVE  /\ s.dir \in BOOLEAN /\ s.version \in 0..MaxVersion /\ s.files \in BOOLEAN
         /\ s.id \in 0..MaxIds
         /\ \A i \in 0..MaxIds : [s EXCEPT !.id = i] \in Install!Skills
         /\ \A v \in 0..MaxVersion : [s EXCEPT !.version = v] \in Install!Skills
         /\ \A v \in 0..MaxVersion, f \in BOOLEAN :
              [s EXCEPT !.version = v, !.files = f] \in Install!Skills
         /\ [s EXCEPT !.dir = TRUE] \in Install!Skills
         /\ \A v \in 0..MaxVersion, f \in BOOLEAN :
              [s EXCEPT !.dir = TRUE, !.version = v, !.files = f] \in Install!Skills
         /\ \A v \in 0..MaxVersion, i \in 0..MaxIds :
              [s EXCEPT !.files = TRUE, !.id = i, !.version = v] \in Install!Skills
         /\ \A v \in 0..MaxVersion : [s EXCEPT !.files = TRUE, !.version = v] \in Install!Skills
BY DEF Install!Skills

JobType ==
  [via : {"zip", "index"}, version : 1..MaxVersion, md : BOOLEAN, prior : 0..MaxIds]

LEMMA JobChanges ==
  ASSUME InstallTypes
  PROVE  [job EXCEPT !.prior = skill.id] \in JobType /\ [job EXCEPT !.prior = 0] \in JobType
         /\ job \in JobType
         /\ job.version \in 1..MaxVersion /\ job.prior \in 0..MaxIds
<1>1. skill.id \in 0..MaxIds
  BY SkillChanges DEF InstallTypes
<1> QED BY <1>1, InstallFacts DEF InstallTypes, JobType

LEMMA GoneTyped == Install!Gone \in Install!Skills /\ [Install!Gone EXCEPT !.dir = TRUE] \in Install!Skills
<1>0. 0 \in 0..MaxVersion /\ 0 \in 0..MaxIds
  BY InstallFacts
<1>1. Install!Gone \in Install!Skills
  BY <1>0, Zenon DEF Install!Gone, Install!Skills
<1> QED BY <1>1, SkillChanges

LEMMA RemainsTyped ==
  ASSUME InstallTypes PROVE Install!Remains \subseteq Install!Skills
<1>1. skill.version \in 0..MaxVersion /\ skill.files \in BOOLEAN /\ skill.id \in 0..MaxIds
  BY SkillChanges DEF InstallTypes
<1>2. 0 \in 0..MaxVersion /\ 0 \in 0..MaxIds
  BY InstallFacts
<1> QED BY <1>1, <1>2 DEF Install!Remains, Install!Skills

LEMMA IdEnsured ==
  ASSUME InstallTypes, NEW prior \in 0..MaxIds, prior = 0 => ids < MaxIds
  PROVE  Install!Ensured(prior) \in 0..MaxIds /\ (prior = 0 => ids + 1 \in 0..MaxIds)
<1>1. skill.id \in 0..MaxIds
  BY SkillChanges DEF InstallTypes
<1> QED BY <1>1, InstallFacts DEF InstallTypes, Install!Ensured

LEMMA TypesStay ==
  ASSUME InstallTypes, skillsIndex' \in Install!Index, skill' \in Install!Skills, job' \in JobType,
         before' \in {before, skill, Install!Gone}, ids' \in 0..MaxIds, owed' \in 0..MaxIds
  PROVE  InstallTypes'
BY GoneTyped DEF InstallTypes, JobType

LEMMA BeginKeeps ==
  ASSUME InstallTypes, NEW via \in {"zip", "index"}, NEW version \in 1..MaxVersion,
         NEW md \in BOOLEAN, NEW by, Install!Begin(via, version, md, by),
         UNCHANGED <<skill, skillsIndex, ids, owed>>
  PROVE  InstallTypes'
BY BeginTyped DEF InstallTypes

LEMMA IndexFields ==
  ASSUME InstallTypes
  PROVE  skillsIndex.version \in 1..MaxVersion /\ skillsIndex.hasMd \in BOOLEAN
BY DEF InstallTypes, Install!Index

LEMMA VersionsKnown ==
  ASSUME InstallTypes
  PROVE  skill.version \in 0..MaxVersion /\ skillsIndex.version \in 0..MaxVersion
         /\ job.version \in 0..MaxVersion /\ skill.id \in 0..MaxIds
<1>1. skill.version \in 0..MaxVersion /\ skill.id \in 0..MaxIds
  BY SkillChanges DEF InstallTypes
<1>2. skillsIndex.version \in 1..MaxVersion /\ job.version \in 1..MaxVersion
  BY IndexFields, JobChanges
<1> QED BY <1>1, <1>2, InstallFacts

LEMMA InstallTypesKeep ==
  ASSUME InstallInv, Install!InstallNext PROVE InstallTypes'
<1> USE InstallFacts DEF InstallInv
<1>1. CASE \E version \in 1..MaxVersion, force \in BOOLEAN : Install!Add(version, force)
  <2>1. PICK version \in 1..MaxVersion, force \in BOOLEAN : Install!Add(version, force)
    BY <1>1
  <2>2. Install!Begin("zip", version, TRUE, "download")
        /\ UNCHANGED <<skill, skillsIndex, ids, owed>>
    BY <2>1 DEF Install!Add
  <2> QED BY <2>2, BeginKeeps
<1>2. CASE \E version \in 1..MaxVersion, force \in BOOLEAN : Install!BulkFallback(version, force)
  <2>1. PICK version \in 1..MaxVersion, force \in BOOLEAN : Install!BulkFallback(version, force)
    BY <1>2
  <2>2. CASE Install!Begin("zip", version, TRUE, "download")
    <3>1. UNCHANGED <<skill, skillsIndex, ids, owed>>
      BY <2>1 DEF Install!BulkFallback
    <3> QED BY <2>2, <3>1, BeginKeeps
  <2>3. CASE UNCHANGED <<job, before, skill, skillsIndex, ids, owed>>
    BY <2>3 DEF InstallTypes
  <2> QED BY <2>1, <2>2, <2>3 DEF Install!BulkFallback
<1>3. CASE \E version \in 1..MaxVersion, force \in BOOLEAN : Install!Cloud(version, force)
  <2>1. PICK version \in 1..MaxVersion, force \in BOOLEAN : Install!Cloud(version, force)
    BY <1>3
  <2>2. /\ \/ skill' = skill
           \/ \E v \in {0, skill.version, version}, f \in {skill.files, FALSE, TRUE} :
                skill' = [skill EXCEPT !.dir = TRUE, !.version = v, !.files = f]
        /\ before' \in {before, Install!Gone} /\ UNCHANGED <<skillsIndex, job, ids, owed>>
    BY <2>1 DEF Install!Cloud, Install!Forget
  <2>3. version \in 0..MaxVersion
    BY InstallFacts
  <2>4. skill' \in Install!Skills
    <3>1. /\ skill \in Install!Skills
          /\ \A v \in {0, skill.version, version}, f \in {skill.files, FALSE, TRUE} :
               [skill EXCEPT !.dir = TRUE, !.version = v, !.files = f] \in Install!Skills
      <4>1. {0, skill.version, version} \subseteq 0..MaxVersion
            /\ {skill.files, FALSE, TRUE} \subseteq BOOLEAN /\ skill \in Install!Skills
        <5>1. skill.version \in 0..MaxVersion /\ 0 \in 0..MaxVersion
          BY VersionsKnown, InstallFacts
        <5>2. skill.files \in BOOLEAN /\ skill \in Install!Skills
          BY SkillChanges DEF InstallTypes
        <5> QED BY <2>3, <5>1, <5>2
      <4> QED BY <4>1, SkillChanges
    <3> QED BY <2>2, <3>1
  <2> QED BY <2>2, <2>4, JobChanges, TypesStay DEF InstallTypes
<1>4. CASE \E force, category \in BOOLEAN : Install!Bulk(force, category)
  <2>1. PICK force \in BOOLEAN, category \in BOOLEAN : Install!Bulk(force, category)
    BY <1>4
  <2>2. CASE /\ Install!Begin("index", skillsIndex.version, skillsIndex.hasMd, "validate")
             /\ UNCHANGED <<skill, skillsIndex, ids, owed>>
    BY <2>2, IndexFields, BeginKeeps
  <2>3. CASE Install!Patch /\ Install!Forget /\ UNCHANGED <<job, skillsIndex>>
    <3>1. PICK known \in {skill.id, 0} :
            /\ known = 0 => ids < MaxIds
            /\ skill' = [skill EXCEPT
                 !.files = TRUE, !.id = IF known = 0 THEN ids + 1 ELSE known,
                 !.version = IF @ = 0 /\ skillsIndex.hasMd THEN skillsIndex.version ELSE @]
            /\ ids' = IF known = 0 THEN ids + 1 ELSE ids
            /\ owed' = IF owed = 0 \/ known = 0 THEN skill'.id ELSE owed
      BY <2>3 DEF Install!Patch, Install!Stamped
    <3>2. /\ skill.id \in 0..MaxIds /\ skill.version \in 0..MaxVersion
          /\ skillsIndex.version \in 0..MaxVersion /\ skill \in Install!Skills
      BY VersionsKnown DEF InstallTypes
    <3>3. (IF known = 0 THEN ids + 1 ELSE known) \in 0..MaxIds /\ ids' \in 0..MaxIds
      BY <3>1, <3>2 DEF InstallTypes
    <3>4. skill' \in Install!Skills
      BY <3>1, <3>2, <3>3, SkillChanges
    <3>5. skill'.id \in 0..MaxIds
      BY <3>4, SkillChanges
    <3>6. owed' \in 0..MaxIds /\ before' = Install!Gone
      BY <2>3, <3>1, <3>5 DEF Install!Forget, InstallTypes
    <3> QED BY <2>3, <3>3, <3>4, <3>6, JobChanges, TypesStay DEF InstallTypes
  <2>5. CASE Install!PatchFails /\ Install!Forget /\ UNCHANGED <<job, skillsIndex>>
    <3>1. \/ skill' = skill
          \/ \E v \in {skill.version, skillsIndex.version} :
               skill' = [skill EXCEPT !.files = TRUE, !.version = v]
      BY <2>5 DEF Install!PatchFails
    <3>2. skill' \in Install!Skills
      <4>1. {skill.version, skillsIndex.version} \subseteq 0..MaxVersion /\ skill \in Install!Skills
        BY VersionsKnown DEF InstallTypes
      <4>2. CASE skill' = skill
        BY <4>1, <4>2
      <4>3. CASE \E v \in {skill.version, skillsIndex.version} :
                   skill' = [skill EXCEPT !.files = TRUE, !.version = v]
        <5>1. PICK v \in {skill.version, skillsIndex.version} :
                skill' = [skill EXCEPT !.files = TRUE, !.version = v]
          BY <4>3
        <5> QED BY <4>1, <5>1, SkillChanges
      <4> QED BY <3>1, <4>2, <4>3
    <3>3. before' = Install!Gone /\ UNCHANGED <<ids, owed>>
      BY <2>5 DEF Install!PatchFails, Install!Forget
    <3> QED BY <2>5, <3>2, <3>3, JobChanges, TypesStay DEF InstallTypes
  <2>4. CASE UNCHANGED <<job, before, skill, skillsIndex, ids, owed>>
    BY <2>4 DEF InstallTypes
  <2> QED BY <2>1, <2>2, <2>3, <2>4, <2>5 DEF Install!Bulk
<1>5. CASE Install!Downloaded
  <2>1. /\ job' \in {job, [job EXCEPT !.prior = skill.id], [job EXCEPT !.prior = 0]}
        /\ before' = before /\ owed' \in {owed, 0} /\ UNCHANGED <<skill, skillsIndex, ids>>
    BY <1>5 DEF Install!Downloaded, Install!Proceed, Install!Ends, Install!Peeked
  <2> QED BY <2>1, JobChanges, TypesStay DEF InstallTypes
<1>6. CASE Install!Validate
  <2>1. /\ job' \in {job, [job EXCEPT !.prior = skill.id], [job EXCEPT !.prior = 0]}
        /\ before' = before /\ owed' \in {owed, 0} /\ UNCHANGED <<skill, skillsIndex, ids>>
    BY <1>6 DEF Install!Validate, Install!Proceed, Install!Ends, Install!Peeked
  <2> QED BY <2>1, JobChanges, TypesStay DEF InstallTypes
<1>7. CASE Install!Wipe
  <2>1. skill' = [Install!Gone EXCEPT !.dir = TRUE] /\ UNCHANGED <<skillsIndex, job, ids, owed, before>>
    BY <1>7 DEF Install!Wipe
  <2> QED BY <2>1, GoneTyped, JobChanges, TypesStay DEF InstallTypes
<1>8. CASE Install!WipeFails
  <2>1. /\ skill' \in {Install!Gone} \cup Install!Remains /\ owed' = skill'.id
        /\ before' = Install!Gone /\ UNCHANGED <<skillsIndex, job, ids>>
    BY <1>8 DEF Install!WipeFails, Install!Ends
  <2>2. skill' \in Install!Skills
    BY <2>1, GoneTyped, RemainsTyped
  <2> QED BY <2>1, <2>2, SkillChanges, JobChanges, TypesStay DEF InstallTypes
<1>9. CASE Install!Fill
  <2>1. /\ \E v \in 0..MaxVersion \cup {job.version}, f \in BOOLEAN :
             skill' = [skill EXCEPT !.version = v, !.files = f]
        /\ UNCHANGED <<skillsIndex, job, ids, owed, before>>
    BY <1>9 DEF Install!Fill, Install!Stamped
  <2>2. PICK v \in 0..MaxVersion \cup {job.version}, f \in BOOLEAN :
          skill' = [skill EXCEPT !.version = v, !.files = f]
    BY <2>1
  <2>3. skill' \in Install!Skills
    <3>1. v \in 0..MaxVersion /\ skill \in Install!Skills
      BY <2>2, VersionsKnown DEF InstallTypes
    <3> QED BY <2>2, <3>1, SkillChanges
  <2> QED BY <2>1, <2>3, JobChanges, TypesStay DEF InstallTypes
<1>10. CASE Install!FillFails
  <2>1. PICK v \in IF job.via = "zip" THEN 0..MaxVersion ELSE {0, job.version},
             f \in BOOLEAN : skill' = [skill EXCEPT !.version = v, !.files = f]
    BY <1>10 DEF Install!FillFails
  <2>2. before' = Install!Gone /\ owed' = 0 /\ UNCHANGED <<skillsIndex, job, ids>>
    BY <1>10 DEF Install!FillFails, Install!Ends
  <2>3. v \in 0..MaxVersion /\ skill \in Install!Skills
    BY <2>1, InstallFacts, VersionsKnown DEF InstallTypes
  <2>4. skill' \in Install!Skills
    BY <2>1, <2>3, SkillChanges
  <2> QED BY <2>2, <2>4, JobChanges, TypesStay DEF InstallTypes
<1>11. CASE Install!Identify
  <2>1. /\ job.prior \in 0..MaxIds /\ (job.prior = 0 => ids < MaxIds)
        /\ skill' = [skill EXCEPT !.id = Install!Ensured(job.prior)]
        /\ ids' = IF job.prior = 0 THEN ids + 1 ELSE ids
        /\ owed' = IF owed = 0 THEN skill'.id ELSE owed
        /\ before' = Install!Gone /\ UNCHANGED <<skillsIndex, job>>
    BY <1>11, JobChanges DEF Install!Identify, Install!Ends
  <2>2. Install!Ensured(job.prior) \in 0..MaxIds /\ (job.prior = 0 => ids + 1 \in 0..MaxIds)
    BY <2>1, IdEnsured
  <2>3. skill' \in Install!Skills /\ skill'.id \in 0..MaxIds
    BY <2>1, <2>2, SkillChanges DEF InstallTypes
  <2> QED BY <2>1, <2>2, <2>3, JobChanges, TypesStay DEF InstallTypes
<1>12. CASE Install!IdentifyFails
  <2>1. before' = Install!Gone /\ owed' = skill.id /\ UNCHANGED <<skill, skillsIndex, job, ids>>
    BY <1>12 DEF Install!IdentifyFails, Install!Ends
  <2> QED BY <2>1, SkillChanges, JobChanges, TypesStay DEF InstallTypes
<1>13. CASE Install!Crash
  <2>1. before' = Install!Gone /\ owed' = skill.id /\ UNCHANGED <<skill, skillsIndex, job, ids>>
    BY <1>13 DEF Install!Crash, Install!Ends
  <2> QED BY <2>1, SkillChanges, JobChanges, TypesStay DEF InstallTypes
<1>14. CASE Install!Remove
  <2>1. before' \in {before, Install!Gone} /\ UNCHANGED <<skill, job, skillsIndex, ids, owed>>
    BY <1>14 DEF Install!Remove, Install!Forget
  <2> QED BY <2>1, JobChanges, TypesStay DEF InstallTypes
<1>15. CASE Install!RemoveInstallationId
  <2>1. PICK id \in {0, skill.id} : skill' = [skill EXCEPT !.id = id]
    BY <1>15 DEF Install!RemoveInstallationId
  <2>2. UNCHANGED <<skillsIndex, job, ids, owed, before>>
    BY <1>15 DEF Install!RemoveInstallationId
  <2>3. id \in 0..MaxIds
    <3>1. skill.id \in 0..MaxIds
      BY SkillChanges DEF InstallTypes
    <3> QED BY <2>1, <3>1, InstallFacts
  <2>4. skill' \in Install!Skills
    BY <2>1, <2>3, SkillChanges DEF InstallTypes
  <2> QED BY <2>2, <2>4, JobChanges, TypesStay DEF InstallTypes
<1>16. CASE Install!Delete
  <2>1. skill' \in {Install!Gone} \cup Install!Remains /\ owed' = skill'.id
        /\ UNCHANGED <<skillsIndex, job, ids, before>>
    BY <1>16 DEF Install!Delete
  <2>2. skill' \in Install!Skills
    BY <2>1, GoneTyped, RemainsTyped
  <2> QED BY <2>1, <2>2, SkillChanges, JobChanges, TypesStay DEF InstallTypes
<1>17. CASE Install!SyncStart
  <2>1. before' \in {before, Install!Gone} /\ UNCHANGED <<skill, job, skillsIndex, ids, owed>>
    BY <1>17 DEF Install!SyncStart, Install!Forget
  <2> QED BY <2>1, JobChanges, TypesStay DEF InstallTypes
<1>18. CASE Install!Check
  <2>1. UNCHANGED <<skill, skillsIndex, ids, owed>>
    BY <1>18 DEF Install!Check
  <2>2. CASE Install!Begin("index", skillsIndex.version, skillsIndex.hasMd, "validate")
    BY <2>1, <2>2, IndexFields, BeginKeeps
  <2>3. CASE UNCHANGED <<job, before>>
    BY <2>1, <2>3 DEF InstallTypes
  <2> QED BY <1>18, <2>2, <2>3 DEF Install!Check
<1>19. CASE Install!RemoveUnlisted
  <2>1. before' \in {before, Install!Gone} /\ UNCHANGED <<skill, job, skillsIndex, ids, owed>>
    BY <1>19 DEF Install!RemoveUnlisted, Install!Forget
  <2> QED BY <2>1, JobChanges, TypesStay DEF InstallTypes
<1>20. CASE Install!SyncEnds
  <2>1. before' \in {before, Install!Gone} /\ UNCHANGED <<skill, job, skillsIndex, ids, owed>>
    BY <1>20 DEF Install!SyncEnds, Install!Forget
  <2> QED BY <2>1, JobChanges, TypesStay DEF InstallTypes
<1>21. CASE Install!Publish
  <2>1. skillsIndex' \in Install!Index /\ UNCHANGED <<skill, job, ids, owed, before>>
    BY <1>21 DEF Install!Publish
  <2> QED BY <2>1 DEF InstallTypes
<1> QED BY <1>1, <1>2, <1>3, <1>4, <1>5, <1>6, <1>7, <1>8, <1>9, <1>10, <1>11, <1>12,
    <1>13, <1>14, <1>15, <1>16, <1>17, <1>18, <1>19, <1>20, <1>21 DEF Install!InstallNext

LEMMA InstallStagesKeep ==
  ASSUME InstallInv, Install!InstallNext PROVE InstallStages'
<1> USE DEF InstallInv, InstallStages, InstallTypes
<1>1. CASE \E version \in 1..MaxVersion, force \in BOOLEAN : Install!Add(version, force)
    BY <1>1 DEF Install!Add, Install!Free, Install!Begin
<1>2. CASE \E version \in 1..MaxVersion, force \in BOOLEAN : Install!BulkFallback(version, force)
    BY <1>2 DEF Install!BulkFallback, Install!Begin
<1>3. CASE \E version \in 1..MaxVersion, force \in BOOLEAN : Install!Cloud(version, force)
    BY <1>3 DEF Install!Cloud, Install!Forget, Install!Gone
<1>4. CASE \E force, category \in BOOLEAN : Install!Bulk(force, category)
    BY <1>4 DEF Install!Bulk, Install!Begin, Install!Patch, Install!PatchFails, Install!Forget,
    Install!Stamped, Install!Ensured, Install!Gone
<1>5. CASE Install!Downloaded
    BY <1>5 DEF Install!Downloaded, Install!Proceed, Install!Ends, Install!Peeked, Install!Gone
<1>6. CASE Install!Validate
    BY <1>6 DEF Install!Validate, Install!Proceed, Install!Ends, Install!Peeked, Install!Gone
<1>7. CASE Install!Wipe
    BY <1>7 DEF Install!Wipe, Install!Gone
<1>8. CASE Install!WipeFails
    BY <1>8 DEF Install!WipeFails, Install!Ends, Install!Remains, Install!Gone
<1>9. CASE Install!Fill
    BY <1>9 DEF Install!Fill, Install!Stamped
<1>10. CASE Install!FillFails
    BY <1>10 DEF Install!FillFails, Install!Ends, Install!Gone
<1>11. CASE Install!Identify
    BY <1>11 DEF Install!Identify, Install!Ensured, Install!Ends, Install!Gone
<1>12. CASE Install!IdentifyFails
    BY <1>12 DEF Install!IdentifyFails, Install!Ends, Install!Gone
<1>13. CASE Install!Crash
    BY <1>13 DEF Install!Crash, Install!Ends, Install!Gone
<1>14. CASE Install!Remove
    BY <1>14 DEF Install!Remove, Install!Free, Install!Forget, Install!Gone
<1>15. CASE Install!RemoveInstallationId
    BY <1>15 DEF Install!RemoveInstallationId
<1>16. CASE Install!Delete
    BY <1>16 DEF Install!Delete, Install!Remains, Install!Gone
<1>17. CASE Install!SyncStart
    BY <1>17 DEF Install!SyncStart, Install!Free
<1>18. CASE Install!Check
    BY <1>18 DEF Install!Check, Install!Begin, Install!Behind
<1>19. CASE Install!RemoveUnlisted
    BY <1>19 DEF Install!RemoveUnlisted, Install!Forget, Install!Gone
<1>20. CASE Install!SyncEnds
    BY <1>20 DEF Install!SyncEnds
<1>21. CASE Install!Publish
    BY <1>21 DEF Install!Publish, Install!Index
<1> QED BY <1>1, <1>2, <1>3, <1>4, <1>5, <1>6, <1>7, <1>8, <1>9, <1>10, <1>11, <1>12,
    <1>13, <1>14, <1>15, <1>16, <1>17, <1>18, <1>19, <1>20, <1>21 DEF Install!InstallNext

LEMMA IdKeeps ==
  ASSUME InstallInv, Install!InstallNext PROVE IdInv'
<1> USE InstallFacts DEF InstallInv, InstallTypes, IdInv, Untouched, Replacing, Install!Skills
<1>1. CASE \E version \in 1..MaxVersion, force \in BOOLEAN : Install!Add(version, force)
    BY <1>1 DEF Install!Add, Install!Free, Install!Begin
<1>2. CASE \E version \in 1..MaxVersion, force \in BOOLEAN : Install!BulkFallback(version, force)
    BY <1>2 DEF Install!BulkFallback, Install!Begin
<1>3. CASE \E version \in 1..MaxVersion, force \in BOOLEAN : Install!Cloud(version, force)
    BY <1>3 DEF Install!Cloud, Install!Forget, Install!Gone
<1>4. CASE \E force, category \in BOOLEAN : Install!Bulk(force, category)
    BY <1>4 DEF Install!Bulk, Install!Begin, Install!Patch, Install!PatchFails, Install!Forget,
    Install!Stamped, Install!Ensured, Install!Gone
<1>5. CASE Install!Downloaded
    BY <1>5 DEF Install!Downloaded, Install!Proceed, Install!Ends, Install!Peeked, Install!Gone
<1>6. CASE Install!Validate
    BY <1>6 DEF Install!Validate, Install!Proceed, Install!Ends, Install!Peeked, Install!Gone
<1>7. CASE Install!Wipe
    BY <1>7 DEF Install!Wipe, Install!Gone
<1>8. CASE Install!WipeFails
    BY <1>8 DEF Install!WipeFails, Install!Ends, Install!Remains, Install!Gone
<1>9. CASE Install!Fill
    BY <1>9 DEF Install!Fill, Install!Stamped
<1>10. CASE Install!FillFails
    BY <1>10 DEF Install!FillFails, Install!Ends, Install!Gone
<1>11. CASE Install!Identify
    BY <1>11 DEF Install!Identify, Install!Ensured, Install!Ends, Install!Gone
<1>12. CASE Install!IdentifyFails
    BY <1>12 DEF Install!IdentifyFails, Install!Ends, Install!Gone
<1>13. CASE Install!Crash
    BY <1>13 DEF Install!Crash, Install!Ends, Install!Gone
<1>14. CASE Install!Remove
    BY <1>14 DEF Install!Remove, Install!Free, Install!Forget, Install!Gone
<1>15. CASE Install!RemoveInstallationId
    BY <1>15 DEF Install!RemoveInstallationId
<1>16. CASE Install!Delete
    BY <1>16 DEF Install!Delete, Install!Remains, Install!Gone
<1>17. CASE Install!SyncStart
    BY <1>17 DEF Install!SyncStart, Install!Free
<1>18. CASE Install!Check
    BY <1>18 DEF Install!Check, Install!Begin, Install!Behind
<1>19. CASE Install!RemoveUnlisted
    BY <1>19 DEF Install!RemoveUnlisted, Install!Forget, Install!Gone
<1>20. CASE Install!SyncEnds
    BY <1>20 DEF Install!SyncEnds
<1>21. CASE Install!Publish
    BY <1>21 DEF Install!Publish, Install!Index
<1> QED BY <1>1, <1>2, <1>3, <1>4, <1>5, <1>6, <1>7, <1>8, <1>9, <1>10, <1>11, <1>12,
    <1>13, <1>14, <1>15, <1>16, <1>17, <1>18, <1>19, <1>20, <1>21 DEF Install!InstallNext

LEMMA FilesKeep ==
  ASSUME InstallInv, Install!InstallNext PROVE FilesInv'
<1> USE InstallFacts DEF InstallInv, InstallTypes, InstallStages, FilesInv, Untouched, Install!Skills,
       Install!RefusedLeavesIntact, Install!UpdateSettles
<1>1. CASE \E version \in 1..MaxVersion, force \in BOOLEAN : Install!Add(version, force)
    BY <1>1 DEF Install!Add, Install!Free, Install!Begin
<1>2. CASE \E version \in 1..MaxVersion, force \in BOOLEAN : Install!BulkFallback(version, force)
    BY <1>2 DEF Install!BulkFallback, Install!Begin
<1>3. CASE \E version \in 1..MaxVersion, force \in BOOLEAN : Install!Cloud(version, force)
    BY <1>3 DEF Install!Cloud, Install!Forget, Install!Gone
<1>4. CASE \E force, category \in BOOLEAN : Install!Bulk(force, category)
    BY <1>4 DEF Install!Bulk, Install!Begin, Install!Patch, Install!PatchFails, Install!Forget,
    Install!Stamped, Install!Ensured, Install!Gone
<1>5. CASE Install!Downloaded
    BY <1>5 DEF Install!Downloaded, Install!Proceed, Install!Ends, Install!Peeked, Install!Gone
<1>6. CASE Install!Validate
    BY <1>6 DEF Install!Validate, Install!Proceed, Install!Ends, Install!Peeked, Install!Gone
<1>7. CASE Install!Wipe
    BY <1>7 DEF Install!Wipe, Install!Gone
<1>8. CASE Install!WipeFails
    BY <1>8 DEF Install!WipeFails, Install!Ends, Install!Remains, Install!Gone
<1>9. CASE Install!Fill
    BY <1>9 DEF Install!Fill, Install!Stamped
<1>10. CASE Install!FillFails
    BY <1>10 DEF Install!FillFails, Install!Ends, Install!Gone
<1>11. CASE Install!Identify
    BY <1>11 DEF Install!Identify, Install!Ensured, Install!Ends, Install!Gone
<1>12. CASE Install!IdentifyFails
    BY <1>12 DEF Install!IdentifyFails, Install!Ends, Install!Gone
<1>13. CASE Install!Crash
    BY <1>13 DEF Install!Crash, Install!Ends, Install!Gone
<1>14. CASE Install!Remove
    BY <1>14 DEF Install!Remove, Install!Free, Install!Forget, Install!Gone
<1>15. CASE Install!RemoveInstallationId
    BY <1>15 DEF Install!RemoveInstallationId
<1>16. CASE Install!Delete
    BY <1>16 DEF Install!Delete, Install!Remains, Install!Gone
<1>17. CASE Install!SyncStart
    BY <1>17 DEF Install!SyncStart, Install!Free
<1>18. CASE Install!Check
    BY <1>18 DEF Install!Check, Install!Begin, Install!Behind
<1>19. CASE Install!RemoveUnlisted
    BY <1>19 DEF Install!RemoveUnlisted, Install!Forget, Install!Gone
<1>20. CASE Install!SyncEnds
    BY <1>20 DEF Install!SyncEnds
<1>21. CASE Install!Publish
    BY <1>21 DEF Install!Publish, Install!Index
<1> QED BY <1>1, <1>2, <1>3, <1>4, <1>5, <1>6, <1>7, <1>8, <1>9, <1>10, <1>11, <1>12,
    <1>13, <1>14, <1>15, <1>16, <1>17, <1>18, <1>19, <1>20, <1>21 DEF Install!InstallNext

LEMMA InstallKeeps ==
  InstallInv /\ [Install!InstallNext]_(Install!installVars) => InstallInv'
<1> SUFFICES ASSUME InstallInv, [Install!InstallNext]_(Install!installVars)
             PROVE  InstallInv'
  OBVIOUS
<1>1. CASE UNCHANGED Install!installVars
  BY <1>1 DEF Install!installVars, InstallInv, InstallTypes, InstallStages, IdInv, FilesInv,
     Install!RefusedLeavesIntact, Install!UpdateSettles
<1>2. CASE Install!InstallNext
  BY <1>2, InstallTypesKeep, InstallStagesKeep, IdKeeps, FilesKeep DEF InstallInv
<1> QED BY <1>1, <1>2

LEMMA InstallFollows ==
  InstallInv => /\ Install!IdentityKept /\ Install!RefusedLeavesIntact /\ Install!UpdateSettles
                /\ Install!InstallTypeOK
BY DEF InstallInv, InstallTypes, InstallStages, IdInv, FilesInv, Install!IdentityKept,
   Install!InstallTypeOK

(***************************************************************************)
(* The parts together.                                                     *)
(***************************************************************************)

\* What holds of the part that moves, if it is one of these.
SkillInvs ==
  /\ part = "execution" => ExecInv
  /\ part = "plan" => PlanInv
  /\ part = "chain" => ChainInv
  /\ part = "routing" => RoutingInv
  /\ part = "cache" => CacheInv
  /\ part = "ratings" => RatingsInv
  /\ part = "evolution" => EvolutionInv
  /\ part = "install" => InstallInv

LEMMA SkillsStart == Init => SkillInvs
<1> SUFFICES ASSUME Init PROVE SkillInvs
  OBVIOUS
<1>1. ExecInv /\ PlanInv /\ ChainInv /\ RoutingInv
  BY ExecStarts, PlanStarts, ChainStarts, RoutingStarts DEF Init
<1>2. CacheInv /\ RatingsInv /\ EvolutionInv /\ InstallInv
  BY CacheStarts, RatingsStarts, EvolutionStarts, InstallStarts DEF Init
<1> QED BY <1>1, <1>2 DEF SkillInvs

LEMMA SkillsStill == SkillInvs /\ UNCHANGED vars => SkillInvs'
<1> SUFFICES ASSUME SkillInvs, UNCHANGED vars PROVE SkillInvs'
  OBVIOUS
<1>1. UNCHANGED <<part, execVars, planVars, chainVars, routingVars, cacheVars, ratingVars,
                  evolutionVars, installVars>>
  BY DEF vars
<1>2. part = "execution" => ExecInv'
  BY <1>1, ExecKeeps DEF SkillInvs, execVars, Exec!execVars
<1>3. part = "plan" => PlanInv'
  BY <1>1, PlanKeeps DEF SkillInvs, planVars, Planner!planVars
<1>4. part = "chain" => ChainInv'
  BY <1>1, ChainKeeps DEF SkillInvs, chainVars, Chain!chainVars
<1>5. part = "routing" => RoutingInv'
  BY <1>1, RoutingKeeps DEF SkillInvs, routingVars, Routes!routingVars
<1>6. part = "cache" => CacheInv'
  BY <1>1, CacheKeeps DEF SkillInvs, cacheVars, Cache!cacheVars
<1>7. part = "ratings" => RatingsInv'
  BY <1>1, RatingsKeeps DEF SkillInvs, ratingVars, Ratings!ratingVars
<1>8. part = "evolution" => EvolutionInv'
  BY <1>1, EvolutionKeeps DEF SkillInvs, evolutionVars, Evolution!evolutionVars
<1>9. part = "install" => InstallInv'
  BY <1>1, InstallKeeps DEF SkillInvs, installVars, Install!installVars
<1>10. part' = part
  BY <1>1
<1> QED BY <1>2, <1>3, <1>4, <1>5, <1>6, <1>7, <1>8, <1>9, <1>10 DEF SkillInvs

LEMMA SkillsKeep == SkillInvs /\ [Next]_vars => SkillInvs'
<1> SUFFICES ASSUME SkillInvs, [Next]_vars PROVE SkillInvs'
  OBVIOUS
<1>1. CASE ExecStep
  <2>1. part = "execution" /\ part' = "execution" /\ ExecInv'
    BY <1>1, PartStays, ExecKeeps DEF ExecStep, SkillInvs
  <2> QED BY <2>1 DEF SkillInvs
<1>2. CASE PlannerStep
  <2>1. part = "plan" /\ part' = "plan" /\ PlanInv'
    BY <1>2, PartStays, PlanKeeps DEF PlannerStep, SkillInvs
  <2> QED BY <2>1 DEF SkillInvs
<1>3. CASE ChainStep
  <2>1. part = "chain" /\ part' = "chain" /\ ChainInv'
    BY <1>3, PartStays, ChainKeeps DEF ChainStep, SkillInvs
  <2> QED BY <2>1 DEF SkillInvs
<1>4. CASE RoutesStep
  <2>1. part = "routing" /\ part' = "routing" /\ RoutingInv'
    BY <1>4, PartStays, RoutingKeeps DEF RoutesStep, SkillInvs
  <2> QED BY <2>1 DEF SkillInvs
<1>5. CASE CacheStep
  <2>1. part = "cache" /\ part' = "cache" /\ CacheInv'
    BY <1>5, PartStays, CacheKeeps DEF CacheStep, SkillInvs
  <2> QED BY <2>1 DEF SkillInvs
<1>6. CASE RatingsStep
  <2>1. part = "ratings" /\ part' = "ratings" /\ RatingsInv'
    BY <1>6, PartStays, RatingsKeeps DEF RatingsStep, SkillInvs
  <2> QED BY <2>1 DEF SkillInvs
<1>7. CASE EvolutionStep
  <2>1. part = "evolution" /\ part' = "evolution" /\ EvolutionInv'
    BY <1>7, PartStays, EvolutionKeeps DEF EvolutionStep, SkillInvs
  <2> QED BY <2>1 DEF SkillInvs
<1>8. CASE InstallStep
  <2>1. part = "install" /\ part' = "install" /\ InstallInv'
    BY <1>8, PartStays, InstallKeeps DEF InstallStep, SkillInvs
  <2> QED BY <2>1 DEF SkillInvs
<1>9. CASE EgressStep \/ LaunchStep \/ EngineStep \/ GuestStep
  <2>1. part' \in {"egress", "launch", "engine", "guest"}
    BY <1>9, PartStays DEF EgressStep, LaunchStep, EngineStep, GuestStep
  <2> QED BY <2>1 DEF SkillInvs
<1>10. CASE TopologyStep \/ ProbeStep \/ KeysStep
  <2>1. part' \in {"topology", "probe", "keys"}
    BY <1>10, PartStays DEF TopologyStep, ProbeStep, KeysStep
  <2> QED BY <2>1 DEF SkillInvs
<1>11. CASE SessionsStep \/ PairingStep \/ StartStep
  <2>1. part' \in {"sessions", "pairing", "start"}
    BY <1>11, PartStays DEF SessionsStep, PairingStep, StartStep
  <2> QED BY <2>1 DEF SkillInvs
<1>12. CASE UNCHANGED vars
  BY <1>12, SkillsStill
<1> QED BY <1>1, <1>2, <1>3, <1>4, <1>5, <1>6, <1>7, <1>8, <1>9, <1>10, <1>11, <1>12 DEF Next

\* The inductive invariant: one part moves, and its own invariant holds.
ServicesInv == part \in Parts /\ HostInvs /\ SkillInvs

LEMMA ServicesStart == Init => ServicesInv
BY HostStarts, SkillsStart DEF Init, ServicesInv

LEMMA ServicesKeep == ServicesInv /\ [Next]_vars => ServicesInv'
<1> SUFFICES ASSUME ServicesInv, [Next]_vars PROVE ServicesInv'
  OBVIOUS
<1>1. part' = part
  BY DEF Next, vars, Moves, EgressStep, LaunchStep, EngineStep, GuestStep, TopologyStep,
     ProbeStep, ExecStep, PlannerStep, ChainStep, RoutesStep, CacheStep, RatingsStep,
     EvolutionStep, InstallStep, KeysStep, SessionsStep, PairingStep, StartStep
<1> QED BY <1>1, HostKeep, SkillsKeep DEF ServicesInv

\* The inductive invariant of every part, with the fact that only one part moves, holds in
\* every state: what each of the theorems below is read off.
THEOREM ServicesInductive == Spec => []ServicesInv
<1> QED BY ServicesStart, ServicesKeep, PTL DEF Spec

\* TypeOK, about the state of every part: what its code assigns has its type.
THEOREM ServicesTypeOK == Spec => []TypeOK
<1>1. ServicesInv => TypeOK
  <2> SUFFICES ASSUME ServicesInv PROVE TypeOK
    OBVIOUS
  <2> USE DEF ServicesInv, HostInvs, SkillInvs
  <2>1. /\ part = "egress" => Egress!ProxyTypeOK
        /\ part = "launch" => Launch!LaunchTypeOK
        /\ part = "engine" => Engine!EngineTypeOK
    BY ProxyTyped, LaunchFollows, EngineFollows DEF EgressInv
  <2>2. /\ part = "guest" => Guest!GuestTypeOK
        /\ part = "topology" => Topology!TopologyTypeOK
        /\ part = "probe" => Probe!ProbeTypeOK
    BY GuestTyped, TopologyTyped DEF ProbeInv
  <2>3. /\ part = "execution" => Exec!ExecTypeOK
        /\ part = "plan" => Planner!PlanTypeOK
        /\ part = "chain" => Chain!ChainTypeOK
        /\ part = "routing" => Routes!RoutingTypeOK
    BY ExecFollows, PlanFollows, ChainFollows, RoutingFollows
  <2>4. /\ part = "cache" => Cache!CacheTypeOK
        /\ part = "ratings" => Ratings!RatingTypeOK
        /\ part = "evolution" => Evolution!EvolutionTypeOK
        /\ part = "install" => Install!InstallTypeOK
    BY CacheFollows, RatingsFollows, EvolutionTyped, InstallFollows
  <2>5. /\ part = "keys" => Keys!KeysTypeOK
        /\ part = "sessions" => Sessions!SessionsTypeOK
        /\ part = "pairing" => Pairing!PairingTypeOK
        /\ part = "start" => Start!StartTypeOK
    BY KeysTyped, SessionsFollows, StartFollows DEF KeysInv, PairingInv
  <2> QED BY <2>1, <2>2, <2>3, <2>4, <2>5 DEF TypeOK
<1> QED BY <1>1, ServicesInductive, PTL

\* LimitsExact, about the slots of the egress proxy (trackSocket(), release()) and the
\* quota and rate of a key (checkQuota(), rateLimiter()).
THEOREM ServicesLimitsExact == Spec => []LimitsExact
<1>1. ServicesInv => LimitsExact
  <2> SUFFICES ASSUME ServicesInv PROVE LimitsExact
    OBVIOUS
  <2>1. part = "egress" => Egress!SlotsExact
    BY EgressCardinality DEF ServicesInv, HostInvs, EgressInv, SlotInv, Egress!SlotsExact
  <2>2. part = "keys" => Keys!QuotaHeld /\ Keys!RateHeld
    BY QuotaFollows, RateFollows DEF ServicesInv, HostInvs, KeysInv
  <2> QED BY <2>1, <2>2 DEF LimitsExact
<1> QED BY <1>1, ServicesInductive, PTL

\* OnlyGranted, about what passes the proxy's policy, a topology before its process
\* continues, a probe, the keys of the gateway, pairing, and the changes of a skill.
THEOREM ServicesOnlyGranted == Spec => []OnlyGranted
<1>1. ServicesInv => OnlyGranted
  <2> SUFFICES ASSUME ServicesInv PROVE OnlyGranted
    OBVIOUS
  <2> USE DEF ServicesInv, HostInvs, SkillInvs
  <2>1. part = "egress" => Egress!UpstreamGranted
    BY GrantsImply, ServicesAssumption DEF EgressInv, ServicesAssumption
  <2>2. /\ part = "topology" => Topology!ConfinedBeforeContinue
        /\ part = "probe" => Probe!FullIsProven
    BY TopologyConfined, ProbeFollows
  <2>3. /\ part = "keys" => Keys!RevokedStaysOut
        /\ part = "pairing" => Pairing!AllowedEarned
    BY PairingFollows DEF KeysInv, RevokedInv
  <2>4. part = "evolution" => Evolution!RiskyOnlyApproved
    BY EvolutionFollows
  <2> QED BY <2>1, <2>2, <2>3, <2>4 DEF OnlyGranted
<1> QED BY <1>1, ServicesInductive, PTL

\* NothingLeftBehind, about abort() of the launcher, the engine's close(), a start() that
\* throws, and cleanup() of the OS topology.
THEOREM ServicesNothingLeftBehind == Spec => []NothingLeftBehind
<1>1. ServicesInv => NothingLeftBehind
  BY LaunchFollows, EngineFollows, GuestFollows, TopologyLeftovers
     DEF ServicesInv, HostInvs, NothingLeftBehind
<1> QED BY <1>1, ServicesInductive, PTL

\* OnDiskAsPromised, about the engine's verified files, an installed skill, an update and
\* the registry's cache.
THEOREM ServicesOnDiskAsPromised == Spec => []OnDiskAsPromised
<1>1. ServicesInv => OnDiskAsPromised
  BY EngineFollows, InstallFollows, CacheFollows
     DEF ServicesInv, HostInvs, SkillInvs, OnDiskAsPromised
<1> QED BY <1>1, ServicesInductive, PTL

\* NothingLost, about ratings and feedback, the history of a skill, and the sessions.
THEOREM ServicesNothingLost == Spec => []NothingLost
<1>1. ServicesInv => NothingLost
  BY RatingsFollows, EvolutionFollows, SessionsFollows
     DEF ServicesInv, HostInvs, SkillInvs, NothingLost
<1> QED BY <1>1, ServicesInductive, PTL

\* ResultsEarned, about a run's code, a proxy's handle, an execution, an answer, a plan, a
\* chain and a gateway that serves.
THEOREM ServicesResultsEarned == Spec => []ResultsEarned
<1>1. ServicesInv => ResultsEarned
  <2> SUFFICES ASSUME ServicesInv PROVE ResultsEarned
    OBVIOUS
  <2> USE DEF ServicesInv, HostInvs, SkillInvs
  <2>1. /\ part = "guest" => Guest!CodeReported
        /\ part = "launch" => Launch!HandleServed
        /\ part = "start" => Start!StartWhole
    BY GuestFollows, LaunchFollows, StartFollows
  <2>2. /\ part = "execution" => Exec!ObserversAgree /\ Exec!SuccessRan
        /\ part = "routing" => Routes!RoutedWhole /\ Routes!AnswerEarned
        /\ part = "plan" => Planner!ContextComplete /\ Planner!EachStepAnswered
        /\ part = "chain" => Chain!ValidGetsInputs /\ Chain!ChainWhole
    BY ExecFollows, RoutingFollows, PlanFollows, ChainFollows
  <2> QED BY <2>1, <2>2 DEF ResultsEarned
<1> QED BY <1>1, ServicesInductive, PTL
=============================================================================
