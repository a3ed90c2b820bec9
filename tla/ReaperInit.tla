----------------------------- MODULE ReaperInit -----------------------------
(***************************************************************************)
(* PID 1 of the os backend's PID namespace: the child that helper.c leaves *)
(* between the trusted launcher and the skill.  It forks the worker, reaps *)
(* every zombie that is its child, and ends with an exit code once the     *)
(* worker has been reaped; the kernel then kills what is left.             *)
(*                                                                         *)
(* fork, exit, adoption by PID 1 and waitpid(-1) are the kernel's.         *)
(***************************************************************************)
EXTENDS FiniteSets

CONSTANTS
  Worker,      \* the process PID 1 forked: the skill
  Descendant,  \* processes the skill and its descendants may fork
  Reaper       \* PID 1 itself, as a parent

Process == {Worker} \cup Descendant

ASSUME ProcessAssumption == Worker \notin Descendant /\ Reaper \notin Process

VARIABLES
  state,         \* of each process
  status,        \* exit code of each process that has ended
  parent,        \* who may reap it
  pc,            \* PID 1: in the reaper loop, draining stragglers, or ended
  wstatus,       \* the status the last waitpid() of PID 1 returned
  workerReaped,
  code           \* exit code of PID 1

vars == <<state, status, parent, pc, wstatus, workerReaped, code>>

Code == {"zero", "nonzero"}

TypeOK ==
  /\ state        \in [Process -> {"unborn", "running", "zombie", "reaped"}]
  /\ status       \in [Process -> Code \cup {"none"}]
  /\ parent       \in [Process -> Process \cup {Reaper}]
  /\ pc           \in {"loop", "drain", "exited"}
  /\ wstatus      \in Code
  /\ workerReaped \in BOOLEAN
  /\ code         \in Code \cup {"none"}

\* `int wstatus = 0` reads as an exit with code 0.
Init ==
  /\ state  = [p \in Process |-> IF p = Worker THEN "running" ELSE "unborn"]
  /\ status = [p \in Process |-> "none"]
  /\ parent = [p \in Process |-> Reaper]
  /\ pc = "loop" /\ wstatus = "zero" /\ workerReaped = FALSE /\ code = "none"

----------------------------------------------------------------------------
(***************************************************************************)
(* The processes of the namespace.                                         *)
(***************************************************************************)
Fork(p, d) ==
  /\ pc # "exited"
  /\ state[p] = "running" /\ state[d] = "unborn"
  /\ state'  = [state EXCEPT ![d] = "running"]
  /\ parent' = [parent EXCEPT ![d] = p]
  /\ UNCHANGED <<status, pc, wstatus, workerReaped, code>>

\* The children of a process that ends become children of PID 1.
End(p, c) ==
  /\ pc # "exited"
  /\ state[p] = "running"
  /\ state'  = [state EXCEPT ![p] = "zombie"]
  /\ status' = [status EXCEPT ![p] = c]
  /\ parent' = [d \in Process |-> IF parent[d] = p THEN Reaper ELSE parent[d]]
  /\ UNCHANGED <<pc, wstatus, workerReaped, code>>

ReapOwn(p) ==
  /\ pc # "exited"
  /\ state[p] = "zombie"
  /\ parent[p] # Reaper
  /\ state' = [state EXCEPT ![p] = "reaped"]
  /\ UNCHANGED <<status, parent, pc, wstatus, workerReaped, code>>

----------------------------------------------------------------------------
(***************************************************************************)
(* The loop of PID 1.                                                      *)
(***************************************************************************)
\* Slip: a waitpid() that returned 0 is taken for a reaped process.
WaitableUnended == {p \in Process : state[p] \in {"running", "zombie"} /\ parent[p] = Reaper}

Waitable == {p \in Process : state[p] = "zombie" /\ parent[p] = Reaper}

\* Slips: any reaped process counts as the worker; the worker counts only
\* when it is the last one to be reaped; the status is not stored.
ReapedAny(p)       == TRUE
ReapedLast(p)      == workerReaped \/ (p = Worker /\ Cardinality(Waitable) = 1 /\ wstatus = "zero")
StatusNotStored(p) == wstatus

ReapedWorker(p)  == workerReaped \/ p = Worker
StatusStored(p)  == status[p]

\* waitpid(-1, &wstatus, WNOHANG) returns a process: every call overwrites
\* wstatus, in the loop and in the drain after it.
Reap ==
  /\ pc \in {"loop", "drain"}
  /\ \E p \in Waitable :
       /\ state'        = [state EXCEPT ![p] = "reaped"]
       /\ wstatus'      = StatusStored(p)
       /\ workerReaped' = IF pc = "loop" THEN ReapedWorker(p) ELSE workerReaped
  /\ UNCHANGED <<status, parent, pc, code>>

\* waitpid() returns 0 or ECHILD: sleep and poll again, or leave the loop.
LeaveLoop ==
  /\ pc = "loop" /\ Waitable = {} /\ workerReaped
  /\ pc' = "drain"
  /\ UNCHANGED <<state, status, parent, wstatus, workerReaped, code>>

Exit ==
  /\ pc = "drain" /\ Waitable = {}
  /\ pc' = "exited"
  /\ code' = wstatus
  /\ UNCHANGED <<state, status, parent, wstatus, workerReaped>>

Next ==
  \/ \E p \in Process, d \in Descendant : Fork(p, d)
  \/ \E p \in Process, c \in Code : End(p, c)
  \/ \E p \in Process : ReapOwn(p)
  \/ Reap \/ LeaveLoop \/ Exit

\* PID 1 polls for ever; the skill owes nothing.
Fairness == WF_vars(Reap) /\ WF_vars(LeaveLoop) /\ WF_vars(Exit)

Spec == Init /\ [][Next]_vars /\ Fairness

----------------------------------------------------------------------------
(***************************************************************************)
(* Correctness.                                                            *)
(***************************************************************************)

\* The namespace is not torn down under the skill: PID 1 ends only after
\* the worker, and after every zombie it could have left in the cgroup
\* (waitEmpty() of the backend would fail on one).
OutlivesWorker == [][pc' = "exited" => state[Worker] = "reaped" /\ Waitable = {}]_vars

\* Every process of the skill has its parent within the skill.
NoOrphans == \A d \in Descendant : state[d] # "unborn" => parent[d] # Reaper

\* A skill whose processes are all reaped by their own parents, before the
\* worker ends, is reported with its own exit code.
OwnCode == pc = "exited" /\ NoOrphans => code = status[Worker]

\* PID 1 ends once the worker has, whatever processes it leaves behind.
WorkerEnds == state[Worker] = "zombie" ~> pc = "exited"

\* "until the worker exits. Then propagate its code" (helper.c): it does
\* not when another process is reaped after the worker.
PropagatesWorkerCode == pc = "exited" => code = status[Worker]

\* The inductive invariant behind OutlivesWorker and OwnCode.
Inductive ==
  /\ TypeOK
  /\ parent[Worker] = Reaper
  /\ \A p \in Process : state[p] = "zombie" => status[p] # "none"
  /\ workerReaped <=> state[Worker] = "reaped"
  /\ pc # "loop" => workerReaped
  /\ pc = "exited" => code = wstatus
  /\ workerReaped /\ NoOrphans => wstatus = status[Worker]
=============================================================================
