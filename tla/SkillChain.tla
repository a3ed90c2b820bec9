----------------------------- MODULE SkillChain -----------------------------
(***************************************************************************)
(* A composed skill: SkillComposer.executeChain() runs its steps in order, *)
(* each with the context keys its inputMapping names, and adds each output *)
(* to the context under the step's outputAs.  validateComposition() says   *)
(* beforehand whether every key will be there.                             *)
(***************************************************************************)
EXTENDS Integers, Sequences, FiniteSets, SequencesExt

CONSTANTS
  ContextKey, \* keys of the context
  Query,      \* the key the caller gives
  NoOutput,   \* a step without outputAs
  MaxChain    \* bound: steps of a chain

ChainAssumption == Query \in ContextKey /\ NoOutput \notin ContextKey /\ MaxChain \in Nat

VARIABLES
  chain,     \* compose.steps: the keys each step reads and the one it writes
  chainStep, \* the step whose turn it is
  present,   \* keys of the context
  given,     \* per step begun, the keys its query was built from
  stepEnds,  \* per step: ok, failed, skipped, missing or refused
  chainEnd   \* running, answered, failed or rejected

chainVars == <<chain, chainStep, present, given, stepEnds, chainEnd>>

ChainStep == [inputs : SUBSET ContextKey, out : ContextKey \cup {NoOutput}]
Ends == {"ok", "failed", "skipped", "missing", "refused"}

ChainTypeOK ==
  /\ chain \in SeqOf(ChainStep, MaxChain) /\ chainStep \in 1..(MaxChain + 1)
  /\ present \subseteq ContextKey
  /\ given \in SeqOf(SUBSET ContextKey, MaxChain) /\ stepEnds \in SeqOf(Ends, MaxChain)
  /\ Len(given) = Len(stepEnds)
  /\ chainEnd \in {"none", "running", "answered", "failed", "rejected"}

ChainInit ==
  /\ chain = <<>> /\ chainStep = 1 /\ present = {Query} /\ given = <<>> /\ stepEnds = <<>>
  /\ chainEnd = "none"

\* A chain without steps is refused.
ChainBegins ==
  /\ chainEnd = "none"
  /\ chain' \in SeqOf(ChainStep, MaxChain)
  /\ chainEnd' = IF chain' = <<>> THEN "failed" ELSE "running"
  /\ UNCHANGED <<chainStep, present, given, stepEnds>>

\* buildStepQuery(): what the mapping names and the context has.
Built(step) == step.inputs \cap present

Turn == chainEnd = "running" /\ chainStep <= Len(chain)

Note(how) ==
  /\ given' = Append(given, Built(chain[chainStep])) /\ stepEnds' = Append(stepEnds, how)
  /\ chainStep' = chainStep + 1
  /\ UNCHANGED chain

\* A skill the registry does not have, or an execution that is refused, ends the chain.
StepStops ==
  /\ Turn /\ \E how \in {"missing", "refused"} : Note(how)
  /\ chainEnd' = "failed" /\ UNCHANGED present

\* The LLM finds the step's condition false.
StepSkipped == Turn /\ Note("skipped") /\ UNCHANGED <<present, chainEnd>>

\* With or without a matching route the step runs; its output is kept though it failed.
StepRuns ==
  /\ Turn /\ \E how \in {"ok", "failed"} : Note(how)
  /\ present' = present \cup ({chain[chainStep].out} \ {NoOutput})
  /\ UNCHANGED chainEnd

\* route() or execute() rejects, and executeChain() with it.
ChainRejects ==
  /\ Turn /\ chainEnd' = "rejected"
  /\ UNCHANGED <<chain, chainStep, present, given, stepEnds>>

\* The LLM, or plain concatenation, makes one answer of the outputs.
ChainAnswers ==
  /\ chainEnd = "running" /\ chainStep > Len(chain)
  /\ chainEnd' = "answered"
  /\ UNCHANGED <<chain, chainStep, present, given, stepEnds>>

ChainNext ==
  ChainBegins \/ StepStops \/ StepSkipped \/ StepRuns \/ ChainRejects \/ ChainAnswers

ChainSpec == ChainInit /\ [][ChainNext]_chainVars

\* validateComposition(): no output key twice, and every input a key of the
\* context or the output of an earlier step.
Outputs(steps, n) == {steps[i].out : i \in 1..n} \ {NoOutput}
Available(steps, i) == {Query} \cup Outputs(steps, i - 1)
ValidComposition(steps) ==
  /\ \A i, j \in DOMAIN steps : i # j /\ steps[i].out # NoOutput => steps[i].out # steps[j].out
  /\ \A i \in DOMAIN steps : steps[i].inputs \subseteq Available(steps, i)

\* What validateComposition() accepts the composer can run: a step of a valid
\* chain is asked with every key it names, whichever earlier steps failed, but
\* for the outputs of steps whose condition was false.
ValidGetsInputs ==
  ValidComposition(chain) =>
    \A i \in DOMAIN given, key \in ContextKey :
      key \in chain[i].inputs \ given[i] =>
        \E j \in 1..(i - 1) : chain[j].out = key /\ stepEnds[j] = "skipped"

\* A chain is answered only if each of its steps was run or skipped, in their
\* order, and fails only at its last step taken.
ChainWhole ==
  /\ chainEnd = "answered" => Len(stepEnds) = Len(chain)
  /\ \A i \in DOMAIN stepEnds :
       stepEnds[i] \in {"missing", "refused"} => chainEnd = "failed" /\ i = Len(stepEnds)

=============================================================================
