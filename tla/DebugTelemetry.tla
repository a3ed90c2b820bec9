--------------------------- MODULE DebugTelemetry ---------------------------
(***************************************************************************)
(* The gateway's DebugTelemetryBuffer (debug-telemetry.ts): a bounded      *)
(* buffer of one record per traced request, merged from the events that    *)
(* the router, the executor, the sandbox runner and /ask emit.             *)
(*                                                                         *)
(* A record is created with the time of its creation, so the order of      *)
(* creation is the order of receivedAt.                                    *)
(***************************************************************************)
EXTENDS Naturals, Sequences

CONSTANTS
  Request,   \* traced requests; each has a trace id of its own
  Capacity   \* gateway.debugEndpoints.bufferSize

ASSUME CapacityAssumption == Capacity \in Nat \ {0}

VARIABLE buffer

\* The executionIds of a request: the one execute() makes and the one
\* spawn() makes.
Execution == {"execution", "session"}

RunRecord == [status   : {"pending", "complete", "failed"},
              terminal : {"none", "complete", "failed"},
              runs     : [Execution -> {"none", "created", "final"}]]

Pending == [status |-> "pending", terminal |-> "none", runs |-> [x \in Execution |-> "none"]]

BufferInit == buffer = [order |-> <<>>, record |-> [r \in Request |-> Pending]]

Holds(b, r) == \E i \in 1 .. Len(b.order) : b.order[i] = r

\* A record is in the order once; one that is not there has nothing in it.
Buffer ==
  {b \in [order : Seq(Request), record : [Request -> RunRecord]] :
     /\ Len(b.order) <= Capacity
     /\ \A i, j \in 1 .. Len(b.order) : b.order[i] = b.order[j] => i = j
     /\ \A r \in Request : ~Holds(b, r) => b.record[r] = Pending}

BufferTypeOK == buffer \in Buffer

\* Slip: the size is compared before the record is added.
FullBefore(order) == Len(order) > Capacity + 1

Full(order) == Len(order) > Capacity

\* recordRequestStart(), and the first lines of record(): a record that is not
\* there is created, and evictIfNeeded() drops the oldest.
Opened(b, r) ==
  LET order == Append(b.order, r) IN
  IF Holds(b, r) THEN b
  ELSE IF Full(order)
       THEN [order  |-> Tail(order), record |-> [b.record EXCEPT ![Head(order)] = Pending]]
       ELSE [b EXCEPT !.order = order]

\* Slip: an adapter's event does not close its run.
MergedAdapterOpen(rec, event) ==
  CASE event.kind = "terminal" -> [rec EXCEPT !.terminal = event.value]
    [] event.kind = "sandbox"  -> [rec EXCEPT !.runs[event.of] = event.value]
    [] event.kind = "adapter"  -> [rec EXCEPT !.runs[event.of] =
                                     IF @ = "none" THEN "created" ELSE @]
    [] OTHER                   -> rec

\* The switch of record().
Merged(rec, event) ==
  CASE event.kind = "terminal" -> [rec EXCEPT !.terminal = event.value]
    [] event.kind = "sandbox"  -> [rec EXCEPT !.runs[event.of] = event.value]
    [] event.kind = "adapter"  -> [rec EXCEPT !.runs[event.of] = "final"]
    [] OTHER                   -> rec

\* maybeTransition()
Transitioned(rec) ==
  IF /\ rec.status = "pending" /\ rec.terminal # "none"
     /\ \A x \in Execution : rec.runs[x] # "created"
  THEN [rec EXCEPT !.status = rec.terminal]
  ELSE rec

\* record()
Recorded(b, r, event) ==
  LET opened == Opened(b, r) IN
  [opened EXCEPT !.record[r] = Transitioned(Merged(@, event))]

Routing         == [kind |-> "routing"]
Sandbox(x, ph)  == [kind |-> "sandbox", of |-> x, value |-> ph]
Adapter(x)      == [kind |-> "adapter", of |-> x]
Terminal(value) == [kind |-> "terminal", value |-> value]
=============================================================================
