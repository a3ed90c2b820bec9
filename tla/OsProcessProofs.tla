-------------------------- MODULE OsProcessProofs --------------------------
(***************************************************************************)
(* Invariants of one guest of the os backend, for any cap, any sizes of    *)
(* chunks and any amount of output.                                        *)
(***************************************************************************)
EXTENDS OsProcess, TLAPS

\* The output: what is buffered never exceeds the cap.
CapInv == Buffered <= OutputMax /\ CapExact

\* The kill: a run that was cut short has asked for one, and once the child
\* has closed nothing cuts it short any more.
KillInv ==
  /\ timedOut \/ overflow => kill # "no"
  /\ settled # "no" => /\ Watching /\ helper = "exited" /\ ~timer
                       /\ guest = "running" => muted
                       /\ timedOut \/ overflow => settled = "137"
  /\ result # "none yet" => settled # "no"
  /\ KillAnswered

\* The processes: past attach() there is a guest, and it is in the cgroup.
ProcessInv ==
  /\ Watching => attached /\ guest # "none" /\ helper # "stopped"
  /\ ~Watching => guest # "running"
  /\ outcome = "returned" => Watching
  /\ RunLeavesNothing

Inductive == TypeOK /\ CapInv /\ KillInv /\ ProcessInv

\* The parts of TypeOK: counts, flags, and where things stand.
Counts == collected \in [Stream -> 0..OutputMax] /\ arrived \in 0..ArrivedMax

Flags ==
  /\ muted \in BOOLEAN /\ attached \in BOOLEAN /\ doomed \in BOOLEAN /\ killOk \in BOOLEAN
  /\ overflow \in BOOLEAN /\ timer \in BOOLEAN /\ timedOut \in BOOLEAN

Processes ==
  /\ helper \in {"stopped", "running", "exited"}
  /\ code   \in {"none", "zero", "nonzero", "signal"}
  /\ guest  \in {"none", "running", "gone"}
  /\ kill   \in {"no", "writing", "draining", "done"}

Answers ==
  /\ settled \in {"no", "zero", "nonzero", "137"}
  /\ result  \in {"none yet", "full", "none"}
  /\ flow    \in {"attach", "failed", "await", "waitEmpty", "close", "done", "held"}
  /\ outcome \in {"none yet", "returned", "threw"}
  /\ closing \in {"no", "kill", "await", "done"}
  /\ killer  \in {"no", "kill", "done"}

LEMMA Parts == TypeOK <=> Counts /\ Flags /\ Processes /\ Answers
<1>1. TypeOK => Counts /\ Flags
  BY DEF TypeOK, Counts, Flags
<1>2. TypeOK => Processes
  BY DEF TypeOK, Processes
<1>3. TypeOK => Answers
  BY DEF TypeOK, Answers
<1>4. Counts /\ Flags /\ Processes /\ Answers => TypeOK
  BY Zenon DEF TypeOK, Counts, Flags, Processes, Answers
<1> QED BY <1>1, <1>2, <1>3, <1>4

LEMMA InitInductive == Init => Inductive
<1> SUFFICES ASSUME Init PROVE Inductive
  OBVIOUS
<1>1. TypeOK
  <2>1. Counts
    <3>1. 0 \in 0..OutputMax /\ 0 \in 0..ArrivedMax
      BY SizesAssumption
    <3> QED BY <3>1 DEF Init, Counts
  <2>2. Flags
    BY DEF Init, Flags
  <2>3. Processes /\ Answers
    BY DEF Init, Processes, Answers
  <2> QED BY <2>1, <2>2, <2>3, Parts
<1>2. CapInv
  <2>1. collected["out"] = 0 /\ collected["err"] = 0 /\ arrived = 0 /\ overflow = FALSE
    BY DEF Init, Stream
  <2> QED BY <2>1, SizesAssumption DEF CapInv, CapExact, Buffered
<1>3. KillInv /\ ProcessInv
  BY DEF Init, KillInv, KillAnswered, ProcessInv, RunLeavesNothing, Watching
<1> QED BY <1>1, <1>2, <1>3 DEF Inductive

\* A chunk: what still fits is kept, below the cap the whole of it.
LEMMA KeepsFitting ==
  ASSUME TypeOK, CapInv, ~overflow, NEW w \in Stream, NEW n \in Chunk, collected' = Kept(w, n)
  PROVE  /\ collected' \in [Stream -> 0..OutputMax]
         /\ Buffered' = IF Crosses(w, n) THEN OutputMax ELSE arrived + n
         /\ Buffered' <= OutputMax
<1> DEFINE fits == IF Buffered + n > OutputMax THEN OutputMax - Buffered ELSE n
<1>1. /\ collected["out"] \in 0..OutputMax /\ collected["err"] \in 0..OutputMax
      /\ n \in Nat /\ arrived \in Nat /\ OutputMax \in Nat
  <2>1. collected["out"] \in 0..OutputMax /\ collected["err"] \in 0..OutputMax
    BY Parts DEF Counts, Stream
  <2>2. n \in Nat /\ arrived \in Nat /\ OutputMax \in Nat
    BY Parts, SizesAssumption DEF Counts
  <2> QED BY <2>1, <2>2
<1>2. Buffered \in 0..OutputMax /\ Buffered = arrived
  BY <1>1 DEF CapInv, CapExact, Buffered
<1>3. fits \in 0..OutputMax /\ Buffered + fits <= OutputMax
  BY <1>1, <1>2
<1>4. collected' = [collected EXCEPT ![w] = @ + fits]
  BY DEF Kept
<1> HIDE DEF fits
<1>5. /\ collected'[w] = collected[w] + fits
      /\ \A v \in Stream \ {w} : collected'[v] = collected[v]
  BY <1>4 DEF TypeOK
<1>6. Buffered' = Buffered + fits
  BY <1>1, <1>3, <1>5 DEF Buffered, Stream
<1>7. collected[w] + fits \in 0..OutputMax
  BY <1>1, <1>2, <1>3 DEF Buffered, Stream
<1>8. collected' \in [Stream -> 0..OutputMax]
  BY <1>4, <1>7 DEF TypeOK
<1>9. Buffered' = IF Crosses(w, n) THEN OutputMax ELSE arrived + n
  BY <1>1, <1>2, <1>6 DEF fits, Crosses
<1>10. Buffered' <= OutputMax
  BY <1>1, <1>2, <1>3, <1>6
<1> QED BY <1>8, <1>9, <1>10

LEMMA StepCounts ==
  ASSUME TypeOK, CapInv, Next
  PROVE  Counts'
<1>1. CASE Data
  <2>1. PICK w \in Stream, n \in Chunk :
          /\ arrived + n <= ArrivedMax
          /\ arrived' = arrived + n
          /\ IF overflow
             THEN UNCHANGED <<collected, overflow, kill>>
             ELSE collected' = Kept(w, n) /\ overflow' = Crosses(w, n)
    BY <1>1 DEF Data
  <2>2. collected' \in [Stream -> 0..OutputMax]
    <3>1. CASE overflow
      BY <2>1, <3>1 DEF TypeOK
    <3>2. CASE ~overflow
      BY <2>1, <3>2, KeepsFitting
    <3> QED BY <3>1, <3>2
  <2>3. arrived' \in 0..ArrivedMax
    BY <2>1, SizesAssumption, Parts DEF Counts
  <2> QED BY <2>2, <2>3 DEF Counts
<1>2. CASE ~Data
  <2>1. UNCHANGED <<collected, arrived>>
    BY <1>2 DEF Next, Program, Environment, Attach, WriteKill, DrainKill, Timeout,
       ChildClose, Answer, EndKill, CloseKillsHelper, EndClose, RunAnswered, CheckEmpty,
       CallKill, CallClose, CloseStdio, GuestEnds, HelperEnds, Die, Continue, outputVars
  <2> QED BY <2>1, Parts DEF Counts
<1> QED BY <1>1, <1>2

LEMMA StepFlags ==
  ASSUME Flags, Next
  PROVE  Flags'
<1> USE DEF Flags, processVars, killVars, outputVars, answerVars, callerVars
<1>1. CASE Attach
  BY <1>1 DEF Attach, Continue, Gate
<1>2. CASE WriteKill
  BY <1>2 DEF WriteKill
<1>3. CASE DrainKill
  BY <1>3 DEF DrainKill
<1>4. CASE Timeout
  BY <1>4 DEF Timeout, TimerKill, KillStarted
<1>5. CASE ChildClose
  BY <1>5 DEF ChildClose, ExitCode, AnswersNow, FinalLevel, Watching
<1>6. CASE Answer
  BY <1>6 DEF Answer, FinalLevel
<1>7. CASE EndKill
  BY <1>7 DEF EndKill, KillHelper
<1>8. CASE CloseKillsHelper
  BY <1>8 DEF CloseKillsHelper, KillHelper
<1>9. CASE EndClose
  BY <1>9 DEF EndClose
<1>10. CASE RunAnswered
  BY <1>10 DEF RunAnswered
<1>11. CASE CheckEmpty
  BY <1>11 DEF CheckEmpty, Populated
<1>12. CASE Data
  <2>1. \A w \in Stream, n \in Chunk : Crosses(w, n) \in BOOLEAN
    BY DEF Crosses
  <2>2. overflow' \in BOOLEAN
    BY <1>12, <2>1 DEF Data
  <2> QED BY <1>12, <2>2 DEF Data
<1>13. CASE CallKill
  BY <1>13 DEF CallKill, KillStarted
<1>14. CASE CallClose
  BY <1>14 DEF CallClose, KillStarted
<1>15. CASE CloseStdio
  BY <1>15 DEF CloseStdio
<1>16. CASE GuestEnds
  BY <1>16 DEF GuestEnds
<1>17. CASE HelperEnds
  BY <1>17 DEF HelperEnds
<1>18. CASE Die
  BY <1>18 DEF Die
<1> QED BY <1>1, <1>2, <1>3, <1>4, <1>5, <1>6, <1>7, <1>8, <1>9, <1>10, <1>11, <1>12,
   <1>13, <1>14, <1>15, <1>16, <1>17, <1>18 DEF Next, Program, Environment

LEMMA StepProcesses ==
  ASSUME Processes, Next
  PROVE  Processes'
<1> USE DEF Processes, processVars, killVars, outputVars, answerVars, callerVars
<1>1. CASE Attach
  BY <1>1 DEF Attach, Continue, Gate
<1>2. CASE WriteKill
  BY <1>2 DEF WriteKill
<1>3. CASE DrainKill
  BY <1>3 DEF DrainKill
<1>4. CASE Timeout
  BY <1>4 DEF Timeout, TimerKill, KillStarted
<1>5. CASE ChildClose
  BY <1>5 DEF ChildClose
<1>6. CASE Answer
  BY <1>6 DEF Answer
<1>7. CASE EndKill
  BY <1>7 DEF EndKill, KillHelper
<1>8. CASE CloseKillsHelper
  BY <1>8 DEF CloseKillsHelper, KillHelper
<1>9. CASE EndClose
  BY <1>9 DEF EndClose
<1>10. CASE RunAnswered
  BY <1>10 DEF RunAnswered
<1>11. CASE CheckEmpty
  BY <1>11 DEF CheckEmpty, Populated
<1>12. CASE Data
  BY <1>12 DEF Data, KillStarted, Crosses
<1>13. CASE CallKill
  BY <1>13 DEF CallKill, KillStarted
<1>14. CASE CallClose
  BY <1>14 DEF CallClose, KillStarted
<1>15. CASE CloseStdio
  BY <1>15 DEF CloseStdio
<1>16. CASE GuestEnds
  BY <1>16 DEF GuestEnds
<1>17. CASE HelperEnds
  BY <1>17 DEF HelperEnds
<1>18. CASE Die
  BY <1>18 DEF Die
<1> QED BY <1>1, <1>2, <1>3, <1>4, <1>5, <1>6, <1>7, <1>8, <1>9, <1>10, <1>11, <1>12,
   <1>13, <1>14, <1>15, <1>16, <1>17, <1>18 DEF Next, Program, Environment

LEMMA StepAnswers ==
  ASSUME Answers, Next
  PROVE  Answers'
<1> USE DEF Answers, processVars, killVars, outputVars, answerVars, callerVars
<1>1. CASE Attach
  BY <1>1 DEF Attach, Continue, Gate
<1>2. CASE WriteKill
  BY <1>2 DEF WriteKill
<1>3. CASE DrainKill
  BY <1>3 DEF DrainKill
<1>4. CASE Timeout
  BY <1>4 DEF Timeout, TimerKill, KillStarted
<1>5. CASE ChildClose
  BY <1>5 DEF ChildClose, ExitCode, AnswersNow, FinalLevel, Watching
<1>6. CASE Answer
  BY <1>6 DEF Answer, FinalLevel
<1>7. CASE EndKill
  BY <1>7 DEF EndKill, KillHelper
<1>8. CASE CloseKillsHelper
  BY <1>8 DEF CloseKillsHelper, KillHelper
<1>9. CASE EndClose
  BY <1>9 DEF EndClose
<1>10. CASE RunAnswered
  BY <1>10 DEF RunAnswered
<1>11. CASE CheckEmpty
  BY <1>11 DEF CheckEmpty, Populated
<1>12. CASE Data
  BY <1>12 DEF Data, KillStarted, Crosses
<1>13. CASE CallKill
  BY <1>13 DEF CallKill, KillStarted
<1>14. CASE CallClose
  BY <1>14 DEF CallClose, KillStarted
<1>15. CASE CloseStdio
  BY <1>15 DEF CloseStdio
<1>16. CASE GuestEnds
  BY <1>16 DEF GuestEnds
<1>17. CASE HelperEnds
  BY <1>17 DEF HelperEnds
<1>18. CASE Die
  BY <1>18 DEF Die
<1> QED BY <1>1, <1>2, <1>3, <1>4, <1>5, <1>6, <1>7, <1>8, <1>9, <1>10, <1>11, <1>12,
   <1>13, <1>14, <1>15, <1>16, <1>17, <1>18 DEF Next, Program, Environment

LEMMA StepType ==
  ASSUME TypeOK, CapInv, Next
  PROVE  TypeOK'
<1>1. Counts' /\ Flags' /\ Processes' /\ Answers'
  BY Parts, StepCounts, StepFlags, StepProcesses, StepAnswers
<1> QED BY Zenon, <1>1 DEF TypeOK, Counts, Flags, Processes, Answers

LEMMA StepCap ==
  ASSUME TypeOK, CapInv, Next
  PROVE  CapInv'
<1>1. CASE Data
  <2>1. PICK w \in Stream, n \in Chunk :
          /\ arrived' = arrived + n
          /\ IF overflow
             THEN UNCHANGED <<collected, overflow, kill>>
             ELSE collected' = Kept(w, n) /\ overflow' = Crosses(w, n)
    BY <1>1 DEF Data
  <2>2. CASE overflow
    BY <2>1, <2>2 DEF CapInv, CapExact, Buffered
  <2>3. CASE ~overflow
    BY <2>1, <2>3, KeepsFitting DEF CapInv, CapExact
  <2> QED BY <2>2, <2>3
<1>2. CASE ~Data
  <2>1. UNCHANGED outputVars
    BY <1>2 DEF Next, Program, Environment, Attach, WriteKill, DrainKill, Timeout,
       ChildClose, Answer, EndKill, CloseKillsHelper, EndClose, RunAnswered, CheckEmpty,
       CallKill, CallClose, CloseStdio, GuestEnds, HelperEnds, Die, Continue, outputVars
  <2> QED BY <2>1 DEF CapInv, CapExact, Buffered, outputVars
<1> QED BY <1>1, <1>2

LEMMA StepKill ==
  ASSUME Processes, KillInv, ProcessInv, Next
  PROVE  KillInv'
<1> USE DEF Processes, KillInv, KillAnswered, ProcessInv, RunLeavesNothing, Watching,
            processVars, killVars, outputVars, answerVars, callerVars
<1>1. CASE Attach
  <2>1. settled = "no" /\ result = "none yet"
    BY <1>1 DEF Attach
  <2>2. settled' = settled /\ result' = result /\ kill' = kill
    BY <1>1 DEF Attach, Continue
  <2>3. timedOut' = timedOut /\ overflow' = overflow
    BY <1>1 DEF Attach, Continue
  <2> QED BY ONLY KillInv, <2>1, <2>2, <2>3 DEF KillInv, KillAnswered
<1>2. CASE WriteKill
  BY <1>2 DEF WriteKill
<1>3. CASE DrainKill
  BY <1>3 DEF DrainKill
<1>4. CASE Timeout
  BY <1>4 DEF Timeout, TimerKill, KillStarted
<1>5. CASE ChildClose
  BY <1>5 DEF ChildClose, ExitCode, AnswersNow, FinalLevel, Watching
<1>6. CASE Answer
  BY <1>6 DEF Answer, FinalLevel
<1>7. CASE EndKill
  BY <1>7 DEF EndKill, KillHelper
<1>8. CASE CloseKillsHelper
  BY <1>8 DEF CloseKillsHelper, KillHelper
<1>9. CASE EndClose
  BY <1>9 DEF EndClose
<1>10. CASE RunAnswered
  BY <1>10 DEF RunAnswered
<1>11. CASE CheckEmpty
  BY <1>11 DEF CheckEmpty, Populated
<1>12. CASE Data
  BY <1>12 DEF Data, KillStarted, Crosses
<1>13. CASE CallKill
  BY <1>13 DEF CallKill, KillStarted
<1>14. CASE CallClose
  BY <1>14 DEF CallClose, KillStarted
<1>15. CASE CloseStdio
  BY <1>15 DEF CloseStdio
<1>16. CASE GuestEnds
  BY <1>16 DEF GuestEnds
<1>17. CASE HelperEnds
  BY <1>17 DEF HelperEnds
<1>18. CASE Die
  BY <1>18 DEF Die
<1> QED BY <1>1, <1>2, <1>3, <1>4, <1>5, <1>6, <1>7, <1>8, <1>9, <1>10, <1>11, <1>12,
   <1>13, <1>14, <1>15, <1>16, <1>17, <1>18 DEF Next, Program, Environment

LEMMA StepProcess ==
  ASSUME Processes, ProcessInv, Next
  PROVE  ProcessInv'
<1> USE DEF Processes, ProcessInv, RunLeavesNothing, Watching,
            processVars, killVars, outputVars, answerVars, callerVars
<1>1. CASE Attach
  BY <1>1 DEF Attach, Continue, Gate
<1>2. CASE WriteKill
  BY <1>2 DEF WriteKill
<1>3. CASE DrainKill
  BY <1>3 DEF DrainKill
<1>4. CASE Timeout
  BY <1>4 DEF Timeout
<1>5. CASE ChildClose
  BY <1>5 DEF ChildClose
<1>6. CASE Answer
  BY <1>6 DEF Answer
<1>7. CASE EndKill
  BY <1>7 DEF EndKill, KillHelper
<1>8. CASE CloseKillsHelper
  BY <1>8 DEF CloseKillsHelper, KillHelper
<1>9. CASE EndClose
  BY <1>9 DEF EndClose
<1>10. CASE RunAnswered
  BY <1>10 DEF RunAnswered
<1>11. CASE CheckEmpty
  BY <1>11 DEF CheckEmpty, Populated
<1>12. CASE Data
  BY <1>12 DEF Data
<1>13. CASE CallKill
  BY <1>13 DEF CallKill
<1>14. CASE CallClose
  BY <1>14 DEF CallClose
<1>15. CASE CloseStdio
  BY <1>15 DEF CloseStdio
<1>16. CASE GuestEnds
  BY <1>16 DEF GuestEnds
<1>17. CASE HelperEnds
  BY <1>17 DEF HelperEnds
<1>18. CASE Die
  BY <1>18 DEF Die
<1> QED BY <1>1, <1>2, <1>3, <1>4, <1>5, <1>6, <1>7, <1>8, <1>9, <1>10, <1>11, <1>12,
   <1>13, <1>14, <1>15, <1>16, <1>17, <1>18 DEF Next, Program, Environment

LEMMA StepInductive == Inductive /\ [Next]_vars => Inductive'
<1> SUFFICES ASSUME Inductive, [Next]_vars PROVE Inductive'
  OBVIOUS
<1>1. CASE Next
  BY <1>1, Parts, StepType, StepCap, StepKill, StepProcess DEF Inductive
<1>2. CASE UNCHANGED vars
  <2> USE <1>2 DEF Inductive, vars, processVars, killVars, outputVars, answerVars, callerVars
  <2>1. Counts' /\ Flags' /\ Processes'
    BY Parts DEF Counts, Flags, Processes
  <2>2. Answers'
    BY Parts DEF Answers
  <2>3. TypeOK'
    BY Zenon, <2>1, <2>2 DEF TypeOK, Counts, Flags, Processes, Answers
  <2>4. CapInv'
    BY DEF CapInv, CapExact, Buffered
  <2>5. KillInv'
    BY DEF KillInv, KillAnswered, Watching
  <2>6. ProcessInv'
    BY DEF ProcessInv, RunLeavesNothing, Watching
  <2> QED BY <2>3, <2>4, <2>5, <2>6
<1> QED BY <1>1, <1>2

\* Where the guest, the kill and the answer can be at each stage of spawn()
\* and of its caller.
THEOREM GuestInductive == Spec => []Inductive
BY InitInductive, StepInductive, PTL DEF Spec

\* TypeOK, about every variable of the process and its collector.
THEOREM GuestTypeOK == Spec => []TypeOK
<1>1. Inductive => TypeOK
  BY DEF Inductive
<1> QED BY <1>1, GuestInductive, PTL

\* CapExact, about the collector: for any cap and chunks nothing is lost below
\* the cap and nothing kept beyond it.
THEOREM GuestCapExact == Spec => []CapExact
<1>1. Inductive => CapExact
  BY DEF Inductive, CapInv
<1> QED BY <1>1, GuestInductive, PTL

\* KillAnswered, about `exited` after the timer or the cap: answered after the
\* kill, as full only if it was written, never with code 0.
THEOREM GuestKillAnswered == Spec => []KillAnswered
<1>1. Inductive => KillAnswered
  BY DEF Inductive, KillInv
<1> QED BY <1>1, GuestInductive, PTL

\* RunLeavesNothing, about attach() and the look at cgroup.events in run().
THEOREM GuestRunLeavesNothing == Spec => []RunLeavesNothing
<1>1. Inductive => RunLeavesNothing
  BY DEF Inductive, ProcessInv
<1> QED BY <1>1, GuestInductive, PTL
----------------------------------------------------------------------------
(***************************************************************************)
(* What a step may never do to the kill and to the answer.                 *)
(***************************************************************************)

\* There is one kill: it goes on from where it is, and its outcome stays.
KillOnce ==
  /\ kill = "writing"  => kill' \in {"writing", "draining"}
  /\ kill = "draining" => kill' \in {"draining", "done"}
  /\ kill = "done"     => kill' = "done"
  /\ kill \in {"draining", "done"} => killOk' = killOk

\* Once the child has closed, output and exit code are what they will be, and
\* an answer given is never given again.
AnswerOnce ==
  /\ settled # "no" => settled' = settled /\ UNCHANGED <<collected, overflow, timedOut>>
  /\ result # "none yet" => result' = result
  /\ outcome # "none yet" => outcome' = outcome

\* Up to the look at the cgroup run() has not ended.
Unended == flow \notin {"close", "done"} => outcome = "none yet"

LEMMA StepOnce ==
  ASSUME Inductive, Unended, Next
  PROVE  KillOnce /\ AnswerOnce /\ Unended'
<1> USE DEF Inductive, KillInv, ProcessInv, KillOnce, AnswerOnce, Unended, Watching,
            processVars, killVars, outputVars, answerVars, callerVars
<1>1. CASE Attach
  BY <1>1 DEF Attach, Continue
<1>2. CASE WriteKill
  BY <1>2 DEF WriteKill
<1>3. CASE DrainKill
  BY <1>3 DEF DrainKill
<1>4. CASE Timeout
  BY <1>4 DEF Timeout, TimerKill, KillStarted
<1>5. CASE ChildClose
  BY <1>5 DEF ChildClose
<1>6. CASE Answer
  BY <1>6 DEF Answer
<1>7. CASE EndKill
  BY <1>7 DEF EndKill
<1>8. CASE CloseKillsHelper
  BY <1>8 DEF CloseKillsHelper
<1>9. CASE EndClose
  BY <1>9 DEF EndClose
<1>10. CASE RunAnswered
  BY <1>10 DEF RunAnswered
<1>11. CASE CheckEmpty
  BY <1>11 DEF CheckEmpty
<1>12. CASE Data
  BY <1>12 DEF Data, KillStarted
<1>13. CASE CallKill
  BY <1>13 DEF CallKill, KillStarted
<1>14. CASE CallClose
  BY <1>14 DEF CallClose, KillStarted
<1>15. CASE CloseStdio
  BY <1>15 DEF CloseStdio
<1>16. CASE GuestEnds
  BY <1>16 DEF GuestEnds
<1>17. CASE HelperEnds
  BY <1>17 DEF HelperEnds
<1>18. CASE Die
  BY <1>18 DEF Die
<1> QED BY <1>1, <1>2, <1>3, <1>4, <1>5, <1>6, <1>7, <1>8, <1>9, <1>10, <1>11, <1>12,
   <1>13, <1>14, <1>15, <1>16, <1>17, <1>18 DEF Next, Program, Environment

\* Timer, output cap, kill() and close() share one kill, whichever of them come
\* and in any order, and `exited` settles once, on output and an exit code that
\* nothing changes any more.
THEOREM GuestAnswersOnce == Spec => [][KillOnce /\ AnswerOnce]_vars
<1>1. Init => Unended
  BY DEF Init, Unended
<1>2. Inductive /\ Unended /\ [Next]_vars => Unended' /\ [KillOnce /\ AnswerOnce]_vars
  BY StepOnce DEF Unended, vars, callerVars
<1> QED BY <1>1, <1>2, GuestInductive, PTL DEF Spec
=============================================================================
