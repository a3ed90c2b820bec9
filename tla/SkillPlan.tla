------------------------------ MODULE SkillPlan ------------------------------
(***************************************************************************)
(* The planner: a request is cut by an LLM into steps that name the steps  *)
(* they depend on, the steps run in waves, each wave in parallel, and the  *)
(* answers are put together.  The LLM owes the planner nothing: two steps  *)
(* may carry one id, a dependency may name no step, dependencies may form  *)
(* a cycle.  What the planner promises under each is stated below.         *)
(***************************************************************************)
EXTENDS Integers, FiniteSets, Sequences

CONSTANTS Id,        \* ids the LLM may give to steps
          MaxSteps   \* the longest plan explored

PlanAssumption == MaxSteps \in Nat \ {0} /\ Id # {}

VARIABLES
  steps,     \* plan.steps: [id, dependsOn]
  pending,   \* ids without a result
  results,   \* id -> [from, verdict]
  wave,      \* positions whose executeStep is under way
  fallen,    \* the wave's answers that wait for the others: position -> verdict
  mode,      \* "plan", "waves", "wave", "remaining", "combine", "answered", "rejected"
  context    \* position -> the ids whose output was in its query

planVars == <<steps, pending, results, wave, fallen, mode, context>>

Verdicts == {"ok", "failed"}
Step == [id : Id, dependsOn : SUBSET Id]
At == DOMAIN steps
IdOf(i) == steps[i].id
Has(id) == id \in DOMAIN results

PlanInit ==
  /\ steps = <<>> /\ pending = {} /\ results = <<>> /\ wave = {} /\ fallen = <<>>
  /\ mode = "plan" /\ context = <<>>

\* The LLM's answer read as JSON, or one step when it fails or is unreadable.
\* `skill` is never set by this point, so no step is marked composite.
Plan ==
  /\ mode = "plan"
  /\ \E n \in 1..MaxSteps : steps' \in [1..n -> Step]
  /\ pending' = {steps'[i].id : i \in DOMAIN steps'}
  /\ mode' = "waves"
  /\ UNCHANGED <<results, wave, fallen, context>>

Ready == {i \in At : IdOf(i) \in pending /\ \A d \in steps[i].dependsOn : Has(d)}

\* executeStep takes the outputs that are there into its query
Begin(S) ==
  /\ wave' = S
  /\ context' = [i \in DOMAIN context \cup S |->
                   IF i \in S THEN {d \in steps[i].dependsOn : Has(d)} ELSE context[i]]

BeginWave ==
  /\ mode = "waves" /\ pending # {} /\ Ready # {}
  /\ Begin(Ready)
  /\ mode' = "wave" /\ fallen' = <<>>
  /\ UNCHANGED <<steps, pending, results>>

\* Routing, the skill or the LLM, in any order among the steps of a wave.  A
\* result without an adapterResult is a TypeError, caught like any other.
StepEnds(i) ==
  /\ mode = "wave" /\ i \in wave \ DOMAIN fallen
  /\ \E v \in Verdicts :
       fallen' = [j \in DOMAIN fallen \cup {i} |-> IF j = i THEN v ELSE fallen[j]]
  /\ UNCHANGED <<steps, pending, results, wave, mode, context>>

\* router.route() stands outside the try: the whole plan rejects
RouteThrows ==
  /\ mode \in {"wave", "remaining"} /\ \E i \in wave : i \notin DOMAIN fallen
  /\ mode' = "rejected"
  /\ UNCHANGED <<steps, pending, results, wave, fallen, context>>

\* Promise.all, then the results in the order of the plan
LastWith(id, S) == CHOOSE i \in S : IdOf(i) = id /\ \A j \in S : IdOf(j) = id => j <= i

WaveDone ==
  /\ mode = "wave" /\ wave = DOMAIN fallen
  /\ LET ids == {IdOf(i) : i \in wave}
     IN  /\ results' = [id \in DOMAIN results \cup ids |->
                          IF id \in ids
                            THEN LET i == LastWith(id, wave)
                                 IN  [from |-> i, verdict |-> fallen[i]]
                            ELSE results[id]]
         /\ pending' = pending \ ids
  /\ wave' = {} /\ fallen' = <<>> /\ mode' = "waves"
  /\ UNCHANGED <<steps, context>>

\* Nothing is ready: the rest one by one, in the order the ids came
Broken ==
  /\ mode = "waves" /\ pending # {} /\ Ready = {}
  /\ mode' = "remaining"
  /\ UNCHANGED <<steps, pending, results, wave, fallen, context>>

FirstWith(id) == CHOOSE i \in At : IdOf(i) = id /\ \A j \in At : IdOf(j) = id => i <= j
NextPending == CHOOSE id \in pending : \A other \in pending : FirstWith(id) <= FirstWith(other)

BeginRemaining ==
  /\ mode = "remaining" /\ wave = {} /\ pending # {}
  /\ Begin({FirstWith(NextPending)})
  /\ UNCHANGED <<steps, pending, results, fallen, mode>>

\* Slip: the sequential rest forgets to take the id out of pending.
RemainingKept ==
  /\ mode = "remaining" /\ wave # {}
  /\ \E i \in wave, v \in Verdicts :
       results' = [id \in DOMAIN results \cup {IdOf(i)} |->
                     IF id = IdOf(i) THEN [from |-> i, verdict |-> v] ELSE results[id]]
  /\ wave' = {}
  /\ UNCHANGED <<steps, pending, fallen, mode, context>>

RemainingEnds ==
  /\ mode = "remaining" /\ wave # {}
  /\ \E i \in wave, v \in Verdicts :
       /\ results' = [id \in DOMAIN results \cup {IdOf(i)} |->
                        IF id = IdOf(i) THEN [from |-> i, verdict |-> v] ELSE results[id]]
       /\ pending' = pending \ {IdOf(i)}
  /\ wave' = {}
  /\ UNCHANGED <<steps, fallen, mode, context>>

Ordered ==
  /\ mode \in {"waves", "remaining"} /\ pending = {} /\ wave = {}
  /\ mode' = "combine"
  /\ UNCHANGED <<steps, pending, results, wave, fallen, context>>

\* One result is the answer; several are put together by the LLM, or in a row
\* when it fails
Combine ==
  /\ mode = "combine" /\ mode' = "answered"
  /\ UNCHANGED <<steps, pending, results, wave, fallen, context>>

StepAnswers == RemainingEnds \/ \E i \in 1..MaxSteps : i \in At /\ StepEnds(i)

PlanNext ==
  \/ Plan \/ BeginWave \/ StepAnswers \/ RouteThrows \/ WaveDone
  \/ Broken \/ BeginRemaining \/ Ordered \/ Combine

\* A skill, a route and the LLM are bounded by their own timeouts; the rest is
\* the planner's own turn of the event loop
PlanGoesOn ==
  BeginWave \/ StepAnswers \/ WaveDone \/ Broken \/ BeginRemaining \/ Ordered \/ Combine

PlanSpec == PlanInit /\ [][PlanNext]_planVars /\ WF_planVars(PlanGoesOn)
-----------------------------------------------------------------------------
PlanTypeOK ==
  /\ steps \in Seq(Step) /\ Len(steps) <= MaxSteps
  /\ pending \subseteq {IdOf(i) : i \in At}
  /\ \A id \in DOMAIN results : results[id].from \in At /\ results[id].verdict \in Verdicts
  /\ wave \subseteq At /\ DOMAIN fallen \subseteq wave /\ DOMAIN context \subseteq At
  /\ mode \in {"plan", "waves", "wave", "remaining", "combine", "answered", "rejected"}

UniqueIds == \A i, j \in At : IdOf(i) = IdOf(j) => i = j
\* steps that can run in an order in which each follows what it depends on
Reaches(S) == \A i \in At \ S : \E d \in steps[i].dependsOn : \A j \in S : IdOf(j) # d
Settles == \A S \in SUBSET At : (Reaches(S) /\ S # At) => FALSE

\* A step runs with the output of every step it depends on, in whatever order
\* the steps of a wave end, when the plan can be ordered at all.  In a plan that
\* cannot, the steps that could run have run before a step goes without.
ContextComplete ==
  /\ Settles => \A i \in DOMAIN context : context[i] = steps[i].dependsOn
  /\ \A i \in DOMAIN context :
       context[i] # steps[i].dependsOn => mode \notin {"waves", "wave"}

\* A plan is answered with one result for each step, of a step with its id; with
\* ids of their own each step runs, and each gets its own result, not another's.
EachStepAnswered ==
  mode \in {"combine", "answered"} =>
    /\ \A i \in At : Has(IdOf(i)) /\ IdOf(results[IdOf(i)].from) = IdOf(i)
    /\ UniqueIds => At = DOMAIN context /\ \A i \in At : results[IdOf(i)].from = i

\* Every plan comes to an answer or a rejection, a cyclic or broken one too.
PlanEnded == mode \in {"answered", "rejected"}
=============================================================================
