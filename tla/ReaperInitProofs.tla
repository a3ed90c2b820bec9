-------------------------- MODULE ReaperInitProofs --------------------------
EXTENDS ReaperInit, TLAPS

LEMMA ForkInductive ==
  ASSUME Inductive, NEW p \in Process, NEW d \in Descendant, Fork(p, d)
  PROVE  Inductive'
<1> USE ProcessAssumption DEF Inductive, Process, Code, Fork
<1>1. TypeOK'
  BY DEF TypeOK
<1>2. NoOrphans' => NoOrphans
  BY DEF NoOrphans, TypeOK
<1>5. \A q \in Process : state'[q] = "zombie" => status'[q] # "none"
  BY DEF TypeOK
<1>3. d # Worker /\ parent'[Worker] = Reaper /\ state'[Worker] = state[Worker]
  BY DEF TypeOK
<1> QED BY <1>1, <1>2, <1>5, <1>3

LEMMA EndInductive ==
  ASSUME Inductive, NEW p \in Process, NEW c \in Code, End(p, c)
  PROVE  Inductive'
<1> USE ProcessAssumption DEF Inductive, Process, Code, End
<1>1. TypeOK'
  BY DEF TypeOK
<1>2. NoOrphans' => NoOrphans
  BY DEF NoOrphans, TypeOK
<1>5. \A q \in Process : state'[q] = "zombie" => status'[q] # "none"
  BY DEF TypeOK
<1>3. parent'[Worker] = Reaper /\ (state'[Worker] = "reaped" <=> state[Worker] = "reaped")
  BY DEF TypeOK
<1>4. state[Worker] = "reaped" => status'[Worker] = status[Worker]
  BY DEF TypeOK
<1> QED BY <1>1, <1>2, <1>5, <1>3, <1>4

LEMMA ReapOwnInductive ==
  ASSUME Inductive, NEW p \in Process, ReapOwn(p)
  PROVE  Inductive'
<1> USE ProcessAssumption DEF Inductive, Process, Code, ReapOwn
<1>1. TypeOK'
  BY DEF TypeOK
<1>2. NoOrphans' => NoOrphans
  BY DEF NoOrphans, TypeOK
<1>5. \A q \in Process : state'[q] = "zombie" => status'[q] # "none"
  BY DEF TypeOK
<1>3. state'[Worker] = state[Worker]
  BY DEF TypeOK
<1> QED BY <1>1, <1>2, <1>5, <1>3

LEMMA ReapInductive ==
  ASSUME Inductive, Reap
  PROVE  Inductive'
<1> USE ProcessAssumption DEF Inductive, Process, Code
<1>1. PICK p \in Waitable :
        /\ state'        = [state EXCEPT ![p] = "reaped"]
        /\ wstatus'      = status[p]
        /\ workerReaped' = IF pc = "loop" THEN workerReaped \/ p = Worker ELSE workerReaped
  BY DEF Reap, StatusStored, ReapedWorker
<1>2. /\ pc \in {"loop", "drain"}
      /\ UNCHANGED <<status, parent, pc, code>>
  BY DEF Reap
<1>3. p \in Process /\ state[p] = "zombie" /\ parent[p] = Reaper
  BY DEF Waitable
<1>4. status[p] \in Code
  BY <1>3 DEF TypeOK
<1>5. TypeOK'
  BY <1>1, <1>2, <1>3, <1>4 DEF TypeOK
<1>6. \A q \in Process : state'[q] = "zombie" => status'[q] # "none"
  BY <1>1, <1>2 DEF TypeOK
<1>7. workerReaped' <=> state'[Worker] = "reaped"
  BY <1>1, <1>2, <1>3 DEF TypeOK
<1>8. NoOrphans' => p = Worker
  BY <1>1, <1>2, <1>3 DEF NoOrphans, TypeOK
<1> QED BY <1>1, <1>2, <1>5, <1>6, <1>7, <1>8

LEMMA LeaveInductive ==
  ASSUME Inductive, LeaveLoop \/ Exit
  PROVE  Inductive'
<1> USE DEF Inductive
<1>1. CASE LeaveLoop
  BY <1>1 DEF LeaveLoop, TypeOK, NoOrphans
<1>2. CASE Exit
  BY <1>2 DEF Exit, TypeOK, NoOrphans
<1> QED BY <1>1, <1>2

LEMMA InitInductive == Init => Inductive
  BY ProcessAssumption DEF Init, Inductive, TypeOK, NoOrphans, Process, Code

LEMMA StepInductive == Inductive /\ [Next]_vars => Inductive'
<1> SUFFICES ASSUME Inductive, [Next]_vars PROVE Inductive'
  OBVIOUS
<1>1. CASE UNCHANGED vars
  BY <1>1 DEF vars, Inductive, TypeOK, NoOrphans
<1>2. CASE Next
  BY <1>2, ForkInductive, EndInductive, ReapOwnInductive, ReapInductive, LeaveInductive DEF Next
<1> QED BY <1>1, <1>2

\* The invariant behind the others: the reaper knows whether the worker has
\* been reaped, and without orphans holds the worker's own status.
THEOREM ReaperInductive == Spec => []Inductive
<1>1. Init => Inductive
  BY InitInductive
<1>2. Inductive /\ [Next]_vars => Inductive'
  BY StepInductive
<1> QED BY <1>1, <1>2, PTL DEF Spec

\* TypeOK, about the states of PID 1 and of the processes it may reap.
THEOREM ReaperTypeOK == Spec => []TypeOK
<1>1. Inductive => TypeOK
  BY DEF Inductive
<1> QED BY <1>1, ReaperInductive, PTL

\* OwnCode, about the exit code of the reaper loop in helper.c: it is the
\* skill's own code when no process of the skill was left to PID 1.
THEOREM ReaperOwnCode == Spec => []OwnCode
<1>1. Inductive => OwnCode
  BY DEF Inductive, OwnCode
<1> QED BY <1>1, ReaperInductive, PTL

\* OutlivesWorker, about the end of that loop: PID 1 ends only after the
\* worker was reaped and no zombie is left to it.
THEOREM ReaperOutlivesWorker == Spec => OutlivesWorker
<1>1. Inductive /\ [Next]_vars
        => [pc' = "exited" => state[Worker] = "reaped" /\ Waitable = {}]_vars
  <2> SUFFICES ASSUME Inductive, Next, pc' = "exited"
               PROVE  state[Worker] = "reaped" /\ Waitable = {}
    OBVIOUS
  <2>1. Exit
    BY DEF Next, Fork, End, ReapOwn, Reap, LeaveLoop
  <2> QED BY <2>1 DEF Exit, Inductive
<1> QED BY <1>1, ReaperInductive, PTL DEF Spec, OutlivesWorker
=============================================================================
