-------------------------- MODULE IsolationPromise --------------------------
(***************************************************************************)
(* What the sandbox promises about one skill execution, whatever backend   *)
(* runs it: an execution is refused before its guest exists, or its guest  *)
(* is started once, may stop at any time, and the report that ends the     *)
(* execution claims isolation only if the guest has stopped.               *)
(*                                                                         *)
(* The promise binds the executions in `sole`, those whose backend serves  *)
(* nobody else and records every failed kill.  An execution can leave that *)
(* set at any time and can join it only before its guest exists.           *)
(***************************************************************************)
CONSTANT Session

VARIABLES
  stage,   \* "idle", "refused", "active" or "over"
  alive,   \* the guest process exists
  claim,   \* isolation level of the report: "unset", "none" or "full"
  sole     \* the executions the promise binds

vars == <<stage, alive, claim, sole>>

Init ==
  /\ stage = [s \in Session |-> "idle"]
  /\ alive = [s \in Session |-> FALSE]
  /\ claim = [s \in Session |-> "unset"]
  /\ sole  = {}

\* The backend of an execution is chosen, or serves one more execution.
Bind(new) ==
  /\ \A s \in new \ sole : stage[s] = "idle"
  /\ new \in SUBSET Session
  /\ sole' = new
  /\ UNCHANGED <<stage, alive, claim>>

\* Nothing ran, so whatever is claimed is harmless.
Refuse(s, level) ==
  /\ stage[s] = "idle"
  /\ stage' = [stage EXCEPT ![s] = "refused"]
  /\ claim' = [claim EXCEPT ![s] = level]
  /\ UNCHANGED <<alive, sole>>

\* On a shared backend the guest may die as it starts.
Activate(s, lives) ==
  /\ stage[s] = "idle"
  /\ s \in sole => lives
  /\ stage' = [stage EXCEPT ![s] = "active"]
  /\ alive' = [alive EXCEPT ![s] = lives]
  /\ UNCHANGED <<claim, sole>>

\* A guest never comes back; a teardown may stop several.
Stop(dead) ==
  /\ alive' = [s \in Session |-> alive[s] /\ s \notin dead]
  /\ UNCHANGED <<stage, claim, sole>>

Finish(s, level) ==
  /\ stage[s] = "active"
  /\ s \in sole /\ alive[s] => level = "none"
  /\ stage' = [stage EXCEPT ![s] = "over"]
  /\ claim' = [claim EXCEPT ![s] = level]
  /\ UNCHANGED <<alive, sole>>

Next ==
  \/ \E new \in SUBSET Session : Bind(new)
  \/ \E s \in Session, level \in {"unset", "none", "full"} : Refuse(s, level) \/ Finish(s, level)
  \/ \E s \in Session, lives \in BOOLEAN : Activate(s, lives)
  \/ \E dead \in SUBSET Session : Stop(dead)

Spec == Init /\ [][Next]_vars
=============================================================================
