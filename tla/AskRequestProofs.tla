-------------------------- MODULE AskRequestProofs --------------------------
(***************************************************************************)
(* The telemetry buffer - what its operations return - and invariants of   *)
(* MCP calls and of traced requests, for any requests and any capacity.    *)
(***************************************************************************)
EXTENDS AskRequest, TLAPS

(***************************************************************************)
(* What the operations of the telemetry buffer return.                     *)
(***************************************************************************)

\* The buffer as it is constructed.
LEMMA BufferStarts == BufferInit => BufferTypeOK
<1> SUFFICES ASSUME BufferInit PROVE buffer \in Buffer
  BY DEF BufferTypeOK
<1>1. buffer = [order |-> <<>>, record |-> [r \in Request |-> Pending]]
  BY DEF BufferInit
<1>2. Pending \in RunRecord
  BY DEF Pending, RunRecord, Execution
<1>3. buffer.order = <<>> /\ buffer.record = [r \in Request |-> Pending]
  BY <1>1
<1>4. buffer \in [order : Seq(Request), record : [Request -> RunRecord]]
  BY <1>1, <1>2
<1>5. Len(buffer.order) = 0
  BY <1>3
<1> QED BY <1>3, <1>4, <1>5, CapacityAssumption DEF Buffer

\* The order after eviction: without its head, with the new request at its end.
LEMMA Evicted ==
  ASSUME NEW order \in Seq(Request), NEW r \in Request, order # <<>>
  PROVE  /\ Head(Append(order, r)) = order[1] /\ order[1] \in Request
         /\ Tail(Append(order, r)) \in Seq(Request)
         /\ Len(Tail(Append(order, r))) = Len(order)
         /\ \A i \in 1 .. Len(order) :
              Tail(Append(order, r))[i] = IF i = Len(order) THEN r ELSE order[i + 1]
<1>1. Len(order) \in Nat \ {0}
  OBVIOUS
<1>2. Append(order, r) \in Seq(Request) /\ Len(Append(order, r)) = Len(order) + 1
  OBVIOUS
<1>3. \A i \in 1 .. Len(order) + 1 :
        Append(order, r)[i] = IF i = Len(order) + 1 THEN r ELSE order[i]
  OBVIOUS
<1>4. Head(Append(order, r)) = Append(order, r)[1]
  BY <1>1, <1>2
<1>5. \A i \in 1 .. Len(order) : Tail(Append(order, r))[i] = Append(order, r)[i + 1]
  BY <1>1, <1>2
<1>6. Tail(Append(order, r)) \in Seq(Request) /\ Len(Tail(Append(order, r))) = Len(order)
  BY <1>1, <1>2
<1>7. Head(Append(order, r)) = order[1] /\ order[1] \in Request
  BY <1>1, <1>3, <1>4
<1>8. ASSUME NEW i \in 1 .. Len(order)
      PROVE  Tail(Append(order, r))[i] = IF i = Len(order) THEN r ELSE order[i + 1]
  <2>1. i + 1 \in 1 .. Len(order) + 1
    BY <1>1
  <2>2. Append(order, r)[i + 1] = IF i + 1 = Len(order) + 1 THEN r ELSE order[i + 1]
    BY <1>3, <2>1
  <2>3. i + 1 = Len(order) + 1 <=> i = Len(order)
    BY <1>1
  <2> QED BY <1>5, <2>2, <2>3
<1> QED BY <1>6, <1>7, <1>8

\* Opening a record gives its request one, empty if there was none, and takes
\* at most one from the others, as a whole.
LEMMA Opens ==
  ASSUME NEW b \in Buffer, NEW r \in Request
  PROVE  /\ Opened(b, r) \in Buffer
         /\ Holds(Opened(b, r), r)
         /\ Opened(b, r).record[r] = b.record[r]
         /\ \A q \in Request \ {r} :
              Holds(Opened(b, r), q) =>
                Holds(b, q) /\ Opened(b, r).record[q] = b.record[q]
<1> DEFINE order == Append(b.order, r)
<1>1. /\ b = [order |-> b.order, record |-> b.record]
      /\ b.order \in Seq(Request) /\ b.record \in [Request -> RunRecord]
      /\ Len(b.order) <= Capacity /\ Len(b.order) \in Nat
      /\ \A i, j \in 1 .. Len(b.order) : b.order[i] = b.order[j] => i = j
      /\ \A q \in Request : ~Holds(b, q) => b.record[q] = Pending
  BY DEF Buffer
<1>2. Pending \in RunRecord
  BY DEF Pending, RunRecord, Execution
<1>3. CASE Holds(b, r)
  <2>1. Opened(b, r) = b
    BY <1>3 DEF Opened
  <2> QED BY <1>3, <2>1
<1>4. CASE ~Holds(b, r) /\ Full(order)
  <2> DEFINE o == Opened(b, r)
  <2>1. o = [order |-> Tail(order), record |-> [b.record EXCEPT ![Head(order)] = Pending]]
    BY <1>4 DEF Opened
  <2>2. Len(order) = Len(b.order) + 1
    BY <1>1
  <2>3. b.order # <<>>
    BY <1>1, <1>4, <2>2, CapacityAssumption DEF Full
  <2> DEFINE n == Len(b.order)
  <2>4. /\ n \in Nat \ {0}
        /\ Head(order) = b.order[1] /\ b.order[1] \in Request
        /\ o.order \in Seq(Request) /\ Len(o.order) = n
        /\ \A i \in 1 .. n : o.order[i] = IF i = n THEN r ELSE b.order[i + 1]
    BY <1>1, <2>1, <2>3, Evicted
  <2>5. \A q \in Request : o.record[q] = IF q = b.order[1] THEN Pending ELSE b.record[q]
    <3>1. o.record = [b.record EXCEPT ![Head(order)] = Pending]
      BY <2>1
    <3>2. Head(order) = b.order[1]
      BY <2>4
    <3> HIDE DEF order, o
    <3> QED BY <1>1, <3>1, <3>2
  <2>6. o.record \in [Request -> RunRecord]
    BY <1>1, <1>2, <2>1, <2>4
  <2>7. o \in [order : Seq(Request), record : [Request -> RunRecord]]
    BY <2>1, <2>4, <2>6
  <2>8. \A i \in 1 .. n : b.order[i] # r
    BY <1>4 DEF Holds
  <2>9. Holds(o, r)
    BY <2>4 DEF Holds
  <2>10. ASSUME NEW q \in Request \ {r}, Holds(o, q)
         PROVE  Holds(b, q) /\ q # b.order[1]
    <3>1. PICK i \in 1 .. n : o.order[i] = q
      BY <2>4, <2>10 DEF Holds
    <3>2. i # n /\ b.order[i + 1] = q /\ i + 1 \in 1 .. n /\ i + 1 # 1
      BY <2>4, <3>1
    <3>3. 1 \in 1 .. n
      BY <2>4
    <3> QED BY <1>1, <3>2, <3>3 DEF Holds
  <2>11. ASSUME NEW i \in 1 .. n, NEW j \in 1 .. n, o.order[i] = o.order[j] PROVE i = j
    <3>1. CASE i = n \/ j = n
      <4>1. ASSUME NEW k \in 1 .. n, k # n PROVE o.order[k] # r
        <5>1. k + 1 \in 1 .. n
          BY <2>4, <4>1
        <5> QED BY <2>4, <2>8, <4>1, <5>1
      <4> QED BY <2>4, <2>11, <3>1, <4>1
    <3>2. CASE i # n /\ j # n
      <4>1. i + 1 \in 1 .. n /\ j + 1 \in 1 .. n
        BY <2>4, <3>2
      <4>2. b.order[i + 1] = b.order[j + 1]
        BY <2>4, <2>11, <3>2
      <4>3. i + 1 = j + 1
        BY <1>1, <4>1, <4>2
      <4> QED BY <4>3
    <3> QED BY <3>1, <3>2
  <2>12. ASSUME NEW q \in Request, ~Holds(o, q) PROVE o.record[q] = Pending
    <3>1. CASE q = b.order[1]
      BY <2>5, <3>1
    <3>2. CASE q # b.order[1]
      <4>1. ASSUME NEW k \in 1 .. n, b.order[k] = q PROVE FALSE
        <5>1. k # 1 /\ k - 1 \in 1 .. n /\ k - 1 # n
          BY <2>4, <3>2, <4>1
        <5>2. o.order[k - 1] = q
          BY <2>4, <4>1, <5>1
        <5> QED BY <2>4, <2>12, <5>1, <5>2 DEF Holds
      <4>2. ~Holds(b, q)
        BY <4>1 DEF Holds
      <4> QED BY <1>1, <2>5, <3>2, <4>2
    <3> QED BY <3>1, <3>2
  <2>13. o \in Buffer
    BY <1>1, <2>4, <2>7, <2>11, <2>12 DEF Buffer
  <2>14. b.order[1] # r
    BY <2>4, <2>8
  <2> QED BY <2>5, <2>9, <2>10, <2>13, <2>14
<1>5. CASE ~Holds(b, r) /\ ~Full(order)
  <2> DEFINE o == Opened(b, r)
             n == Len(b.order)
  <2>1. o = [b EXCEPT !.order = order]
    BY <1>5 DEF Opened
  <2>2. o.order = order /\ o.record = b.record
    BY <1>1, <2>1
  <2>3. /\ o.order \in Seq(Request) /\ Len(o.order) = n + 1 /\ n \in Nat
        /\ \A i \in 1 .. n + 1 : o.order[i] = IF i = n + 1 THEN r ELSE b.order[i]
    BY <1>1, <2>2
  <2>4. o \in [order : Seq(Request), record : [Request -> RunRecord]]
    BY <1>1, <2>1, <2>2, <2>3
  <2>5. Len(o.order) <= Capacity
    BY <1>5, <2>2, <2>3, CapacityAssumption DEF Full
  <2>6. \A i \in 1 .. n : b.order[i] # r
    BY <1>5 DEF Holds
  <2>7. Holds(o, r)
    <3>1. n + 1 \in 1 .. Len(o.order) /\ o.order[n + 1] = r
      BY <2>3
    <3> QED BY <3>1 DEF Holds
  <2>8. ASSUME NEW q \in Request, q # r PROVE Holds(o, q) <=> Holds(b, q)
    <3>1. ASSUME NEW i \in 1 .. n + 1, o.order[i] = q PROVE Holds(b, q)
      <4>1. i # n + 1 /\ i \in 1 .. n /\ b.order[i] = q
        BY <2>3, <2>8, <3>1
      <4> QED BY <4>1 DEF Holds
    <3>2. ASSUME NEW i \in 1 .. n, b.order[i] = q PROVE Holds(o, q)
      <4>1. i # n + 1 /\ i \in 1 .. n + 1 /\ o.order[i] = q
        BY <2>3, <3>2
      <4> QED BY <2>3, <4>1 DEF Holds
    <3> QED BY <2>3, <3>1, <3>2 DEF Holds
  <2>9. ASSUME NEW i \in 1 .. n + 1, NEW j \in 1 .. n + 1, o.order[i] = o.order[j]
        PROVE  i = j
    <3>1. CASE i = n + 1 \/ j = n + 1
      <4>1. ASSUME NEW k \in 1 .. n + 1, k # n + 1 PROVE o.order[k] # r
        BY <2>3, <2>6, <4>1
      <4> QED BY <2>3, <2>9, <3>1, <4>1
    <3>2. CASE i # n + 1 /\ j # n + 1
      <4>1. i \in 1 .. n /\ j \in 1 .. n
        BY <2>3, <3>2
      <4> QED BY <1>1, <2>3, <2>9, <3>2, <4>1
    <3> QED BY <3>1, <3>2
  <2>10. \A q \in Request : ~Holds(o, q) => o.record[q] = Pending
    BY <1>1, <2>2, <2>7, <2>8
  <2>11. o \in Buffer
    BY <2>3, <2>4, <2>5, <2>9, <2>10 DEF Buffer
  <2> QED BY <2>2, <2>7, <2>8, <2>11
<1> QED BY <1>3, <1>4, <1>5

\* The events the code emits.
Event == {[kind |-> "routing"]}
         \cup [kind : {"sandbox"}, of : Execution, value : {"created", "final"}]
         \cup [kind : {"adapter"}, of : Execution]
         \cup [kind : {"terminal"}, value : {"complete", "failed"}]

\* Each constructor makes one of them.
LEMMA EventsOfTheCode ==
  /\ Routing \in Event
  /\ \A x \in Execution : Adapter(x) \in Event
  /\ \A x \in Execution : \A phase \in {"created", "final"} : Sandbox(x, phase) \in Event
  /\ \A value \in {"complete", "failed"} : Terminal(value) \in Event
  BY DEF Routing, Adapter, Sandbox, Terminal, Event

\* What merging an event makes of a record.
LEMMA Merges ==
  ASSUME NEW rec \in RunRecord, NEW event \in Event
  PROVE  /\ Merged(rec, event) \in RunRecord
         /\ Transitioned(Merged(rec, event)) \in RunRecord
<1>1. \A x \in Execution, v \in {"created", "final"} :
        [rec EXCEPT !.runs[x] = v] \in RunRecord
  BY DEF RunRecord
<1>2. \A v \in {"complete", "failed"} : [rec EXCEPT !.terminal = v] \in RunRecord
  BY DEF RunRecord
<1>3. CASE event.kind = "routing"
  <2>1. Merged(rec, event) = rec
    BY <1>3 DEF Merged
  <2> QED BY <2>1 DEF Transitioned, RunRecord
<1>4. CASE event.kind = "sandbox"
  <2>1. Merged(rec, event) = [rec EXCEPT !.runs[event.of] = event.value]
    BY <1>4 DEF Merged
  <2>2. event.of \in Execution /\ event.value \in {"created", "final"}
    BY <1>4 DEF Event
  <2>3. Merged(rec, event) \in RunRecord
    BY <1>1, <2>1, <2>2
  <2> QED BY <2>3 DEF Transitioned, RunRecord
<1>5. CASE event.kind = "adapter"
  <2>1. Merged(rec, event) = [rec EXCEPT !.runs[event.of] = "final"]
    BY <1>5 DEF Merged
  <2>2. event.of \in Execution
    BY <1>5 DEF Event
  <2>3. Merged(rec, event) \in RunRecord
    BY <1>1, <2>1, <2>2
  <2> QED BY <2>3 DEF Transitioned, RunRecord
<1>6. CASE event.kind = "terminal"
  <2>1. Merged(rec, event) = [rec EXCEPT !.terminal = event.value]
    BY <1>6 DEF Merged
  <2>2. event.value \in {"complete", "failed"}
    BY <1>6 DEF Event
  <2>3. Merged(rec, event) \in RunRecord
    BY <1>2, <2>1, <2>2
  <2> QED BY <2>3 DEF Transitioned, RunRecord
<1> QED BY <1>3, <1>4, <1>5, <1>6 DEF Event

\* The fields of a record after an event.
LEMMA Fields ==
  ASSUME NEW rec \in RunRecord, NEW event \in Event
  PROVE  LET new == Transitioned(Merged(rec, event)) IN
         /\ new.terminal = IF event.kind = "terminal" THEN event.value ELSE rec.terminal
         /\ event.kind \in {"routing", "terminal"} => new.runs = rec.runs
         /\ event.kind = "sandbox" => new.runs = [rec.runs EXCEPT ![event.of] = event.value]
         /\ event.kind = "adapter" => new.runs = [rec.runs EXCEPT ![event.of] = "final"]
         /\ new.terminal = "none" => new.status = rec.status
         /\ /\ rec.status = "pending" /\ new.terminal # "none"
            /\ \A x \in Execution : new.runs[x] # "created"
            => new.status = new.terminal
<1> DEFINE merged == Merged(rec, event)
           new == Transitioned(merged)
<1>1. merged \in RunRecord
  BY Merges
<1>2. /\ merged.status = rec.status
      /\ merged.terminal = IF event.kind = "terminal" THEN event.value ELSE rec.terminal
      /\ event.kind \in {"routing", "terminal"} => merged.runs = rec.runs
      /\ event.kind = "sandbox" => merged.runs = [rec.runs EXCEPT ![event.of] = event.value]
      /\ event.kind = "adapter" => merged.runs = [rec.runs EXCEPT ![event.of] = "final"]
  BY DEF Merged, Event, RunRecord
<1> HIDE DEF merged
<1>3. new.terminal = merged.terminal /\ new.runs = merged.runs
  BY <1>1 DEF Transitioned, RunRecord
<1>4. merged.terminal = "none" => new.status = merged.status
  BY <1>1 DEF Transitioned, RunRecord
<1>5. /\ merged.status = "pending" /\ merged.terminal # "none"
      /\ \A x \in Execution : merged.runs[x] # "created"
      => new.status = merged.terminal
  BY <1>1 DEF Transitioned, RunRecord
<1> HIDE DEF new
<1>6. /\ new.terminal = IF event.kind = "terminal" THEN event.value ELSE rec.terminal
      /\ event.kind \in {"routing", "terminal"} => new.runs = rec.runs
      /\ event.kind = "sandbox" => new.runs = [rec.runs EXCEPT ![event.of] = event.value]
      /\ event.kind = "adapter" => new.runs = [rec.runs EXCEPT ![event.of] = "final"]
  BY <1>2, <1>3
<1>7. new.terminal = "none" => new.status = rec.status
  BY <1>2, <1>3, <1>4
<1>8. /\ rec.status = "pending" /\ new.terminal # "none"
      /\ \A x \in Execution : new.runs[x] # "created"
      => new.status = new.terminal
  BY <1>2, <1>3, <1>5
<1> QED BY <1>6, <1>7, <1>8 DEF new, merged

\* An event reaches its own record, and that record stays or is made for it.
LEMMA Records ==
  ASSUME NEW b \in Buffer, NEW r \in Request, NEW event \in Event
  PROVE  /\ Recorded(b, r, event) \in Buffer
         /\ Holds(Recorded(b, r, event), r)
         /\ Recorded(b, r, event).record[r] = Transitioned(Merged(b.record[r], event))
         /\ \A q \in Request \ {r} :
              Holds(Recorded(b, r, event), q) =>
                Holds(b, q) /\ Recorded(b, r, event).record[q] = b.record[q]
<1> DEFINE o == Opened(b, r)
           new == Transitioned(Merged(o.record[r], event))
           n == Recorded(b, r, event)
<1>1. /\ o \in Buffer /\ Holds(o, r) /\ o.record[r] = b.record[r]
      /\ \A q \in Request \ {r} : Holds(o, q) => Holds(b, q) /\ o.record[q] = b.record[q]
  BY Opens
<1>2. /\ o = [order |-> o.order, record |-> o.record]
      /\ o.order \in Seq(Request) /\ o.record \in [Request -> RunRecord]
  BY <1>1 DEF Buffer
<1>3. new \in RunRecord
  BY <1>2, Merges
<1>4. n = [o EXCEPT !.record[r] = new]
  BY DEF Recorded
<1> HIDE DEF o, new, n
<1>5. n.order = o.order /\ n.record = [o.record EXCEPT ![r] = new]
  BY <1>2, <1>4
<1>6. n \in [order : Seq(Request), record : [Request -> RunRecord]]
  BY <1>2, <1>3, <1>4, <1>5
<1>7. \A q : Holds(n, q) <=> Holds(o, q)
  BY <1>5 DEF Holds
<1>8. n.record[r] = new /\ \A q \in Request \ {r} : n.record[q] = o.record[q]
  BY <1>2, <1>5
<1>9. n \in Buffer
  BY <1>1, <1>5, <1>6, <1>7, <1>8 DEF Buffer
<1>10. new = Transitioned(Merged(b.record[r], event))
  BY <1>1 DEF new
<1> QED BY <1>1, <1>7, <1>8, <1>9, <1>10 DEF n

(***************************************************************************)
(* The inductive invariant of the calls of MCP skills, for any calls.      *)
(***************************************************************************)

\* Before the first call.
LEMMA McpStarts == McpInit => McpInductive
  BY DEF McpInit, McpInductive, McpTypeOK, StartFits, SessionFits, ResultFits, Closed

\* A transport is closed once, whoever asks.
LEMMA ClosingKeepsType ==
  ASSUME McpTypeOK, NEW c \in Call, CloseTransport(c)
  PROVE  /\ start'   \in [Call -> {"no", "pending", "orphaned", "started", "stray", "failed"}]
         /\ held'    \in [Call -> BOOLEAN]
         /\ closing' \in [Call -> {"no", "pending", "resolved", "rejected"}]
         /\ session' \in [Call -> {"none", "open", "closing", "closed"}]
<1>1. CASE Memoized(c)
  BY <1>1 DEF CloseTransport, Memoized, McpTypeOK
<1>2. CASE ~Memoized(c)
  <2> USE <1>2 DEF CloseTransport, McpTypeOK
  <2>1. start' \in [Call -> {"no", "pending", "orphaned", "started", "stray", "failed"}]
    <3>1. start' = [start EXCEPT ![c] = IF @ = "pending" THEN "orphaned" ELSE @]
      OBVIOUS
    <3> QED BY <3>1
  <2>2. held' \in [Call -> BOOLEAN]
    OBVIOUS
  <2>3. closing' \in [Call -> {"no", "pending", "resolved", "rejected"}]
    <3>1. closing' = [closing EXCEPT ![c] = IF held[c] THEN "pending" ELSE "resolved"]
      OBVIOUS
    <3>2. (IF held[c] THEN "pending" ELSE "resolved") \in {"pending", "resolved"}
      OBVIOUS
    <3> QED BY <3>1, <3>2, Zenon
  <2>4. session' \in [Call -> {"none", "open", "closing", "closed"}]
    <3>1. session' = [session EXCEPT ![c] = IF held[c] THEN "closing" ELSE @]
      OBVIOUS
    <3> QED BY <3>1
  <2> QED BY <2>1, <2>2, <2>3, <2>4
<1> QED BY <1>1, <1>2

\* Every step of a call keeps the type.
LEMMA StepKeepsType ==
  ASSUME McpTypeOK, NEW c \in Call, McpStep(c)
  PROVE  McpTypeOK'
<1>1. CASE Invoke(c)
  BY <1>1 DEF Invoke, Goto, McpTypeOK
<1>2. CASE SpawnReturns(c)
  BY <1>2 DEF SpawnReturns, McpTypeOK
<1>3. CASE SpawnFails(c)
  BY <1>3 DEF SpawnFails, Goto, McpTypeOK
<1>4. CASE GuestExits(c)
  BY <1>4 DEF GuestExits, McpTypeOK
<1>5. CASE ProcessEnds(c)
  BY <1>5, ClosingKeepsType DEF ProcessEnds, McpTypeOK
<1>6. CASE Answered(c)
  BY <1>6 DEF Answered, Goto, McpTypeOK
<1>7. CASE Finish(c)
  BY <1>7, ClosingKeepsType DEF Finish, Goto, McpTypeOK
<1>8. CASE ConnectTimeout(c)
  BY <1>8, ClosingKeepsType DEF ConnectTimeout, Goto, McpTypeOK
<1>9. CASE RequestFails(c)
  BY <1>9, ClosingKeepsType DEF RequestFails, Goto, McpTypeOK
<1>10. CASE Return(c)
  BY <1>10 DEF Return, Goto, McpTypeOK
<1>11. CASE SessionCloses(c)
  BY <1>11 DEF SessionCloses, Settled, McpTypeOK
<1> QED BY <1>1, <1>2, <1>3, <1>4, <1>5, <1>6, <1>7, <1>8, <1>9, <1>10, <1>11
        DEF McpStep, Waits

\* Every step of a call keeps what its stages say of one another.
LEMMA StepKeepsFits ==
  ASSUME McpInductive, NEW c \in Call, McpStep(c), McpTypeOK'
  PROVE  (StartFits /\ SessionFits /\ ResultFits)'
<1> USE DEF McpInductive, McpTypeOK, StartFits, SessionFits, ResultFits, Closed
<1>1. CASE Invoke(c)
  BY <1>1 DEF Invoke, Goto
<1>2. CASE SpawnReturns(c)
  BY <1>2 DEF SpawnReturns
<1>3. CASE SpawnFails(c)
  <2>1. CASE start[c] = "pending"
    BY <1>3, <2>1 DEF SpawnFails, Goto
  <2>2. CASE start[c] = "orphaned"
    BY <1>3, <2>2 DEF SpawnFails
  <2> QED BY <1>3, <2>1, <2>2 DEF SpawnFails
<1>4. CASE GuestExits(c)
  BY <1>4 DEF GuestExits
<1>5. CASE ProcessEnds(c)
  <2>1. CASE Memoized(c)
    BY <1>5, <2>1 DEF ProcessEnds, CloseTransport, Memoized
  <2>2. CASE ~Memoized(c)
    BY <1>5, <2>2 DEF ProcessEnds, CloseTransport, Memoized
  <2> QED BY <2>1, <2>2
<1>6. CASE Answered(c)
  BY <1>6 DEF Answered, Goto, Talking
<1>7. CASE Finish(c)
  BY <1>7 DEF Finish, Goto, Talking, CloseTransport, Memoized
<1>8. CASE ConnectTimeout(c)
  BY <1>8 DEF ConnectTimeout, Timed, Goto, CloseTransport, Memoized
<1>9. CASE RequestFails(c)
  BY <1>9 DEF RequestFails, Goto, Talking, CloseTransport, Memoized
<1>10. CASE Return(c)
  BY <1>10 DEF Return, Goto
<1>11. CASE SessionCloses(c)
  BY <1>11 DEF SessionCloses, Settled
<1> QED BY <1>1, <1>2, <1>3, <1>4, <1>5, <1>6, <1>7, <1>8, <1>9, <1>10, <1>11
        DEF McpStep, Waits

\* The invariant is kept.
LEMMA McpKept == McpInductive /\ [McpNext]_mcpVars => McpInductive'
<1> SUFFICES ASSUME McpInductive, [McpNext]_mcpVars PROVE McpInductive'
  OBVIOUS
<1>1. CASE UNCHANGED mcpVars
  BY <1>1 DEF mcpVars, McpInductive, McpTypeOK, StartFits, SessionFits, ResultFits, Closed
<1>2. ASSUME NEW c \in Call, McpStep(c) PROVE McpInductive'
  BY <1>2, StepKeepsType, StepKeepsFits DEF McpInductive
<1> QED BY <1>1, <1>2 DEF McpNext

(***************************************************************************)
(* The requests that make them.                                            *)
(***************************************************************************)

\* What a request does to a call is a step of that call.
LEMMA CallsTakeSteps ==
  ASSUME NEW r \in Request, Step(r)
  PROVE  McpStep(r) \/ UNCHANGED mcpVars
<1>1. CASE Begin(r)
  BY <1>1 DEF Begin
<1>2. CASE Routed(r)
  BY <1>2 DEF Routed, McpStep
<1>3. CASE Answers(r) \/ RunReports(r) \/ Executed(r) \/ Validated(r) \/ Reply(r)
  BY <1>3 DEF Answers, RunReports, Executed, Validated, Reply
<1>4. CASE SessionCreated(r) \/ SessionFinal(r)
  BY <1>4 DEF SessionCreated, SessionFinal, McpStep, Waits
<1>5. CASE CallWaits(r)
  BY <1>5 DEF CallWaits, McpStep, Waits
<1>6. CASE CallSteps(r)
  BY <1>6 DEF CallSteps, McpStep
<1> QED BY <1>1, <1>2, <1>3, <1>4, <1>5, <1>6 DEF Step

\* Seen from the calls, a traced request is one of their callers.
LEMMA CallsMove == [Next]_vars => [McpNext]_mcpVars
  BY CallsTakeSteps, CallAssumption DEF Next, McpNext, vars

----------------------------------------------------------------------------
\* What the invariant says of a record, or of one still to be, before the terminal event.
Live(rec, opened, stray) ==
  /\ rec.runs["execution"] # "created"
  /\ rec.runs["session"] = "created" => opened
  /\ ~stray => rec.terminal = "none" /\ rec.status = "pending"

\* Buffer c is buffer b as the events of request r left it.
LeftBy(r, b, c) ==
  /\ c \in Buffer
  /\ \A q \in Request \ {r} :
       Holds(c, q) => Holds(b, q) /\ c.record[q] = b.record[q]

IsOpen(r)  == session[r] \in {"open", "closing"}
IsStray(r) == start[r] = "stray"

\* Until its terminal event a request has a record of that kind, or none.
LEMMA LiveNow ==
  ASSUME TypeOK, NEW r \in Request, Fits(r), ask[r] # "done"
  PROVE  Live(buffer.record[r], IsOpen(r), IsStray(r))
<1>1. ~Holds(buffer, r) => buffer.record[r] = Pending
  BY DEF TypeOK, BufferTypeOK, Buffer
<1>2. Pending.terminal = "none" /\ Pending.status = "pending"
  BY DEF Pending
<1> QED BY <1>1, <1>2 DEF Fits, Live, IsOpen, IsStray

\* Every event but those of a session keeps it of that kind.
LEMMA LiveKept ==
  ASSUME NEW rec \in RunRecord, NEW event \in Event, NEW opened, NEW stray,
         Live(rec, opened, stray),
         \/ event.kind = "routing"
         \/ event.kind = "adapter" /\ event.of = "execution"
         \/ event.kind = "sandbox" /\ event.of = "execution" /\ event.value = "final"
  PROVE  Live(Transitioned(Merged(rec, event)), opened, stray)
<1> DEFINE new == Transitioned(Merged(rec, event))
<1>1. /\ new.terminal = rec.terminal
      /\ event.kind = "routing" => new.runs = rec.runs
      /\ event.kind = "sandbox" => new.runs = [rec.runs EXCEPT ![event.of] = event.value]
      /\ event.kind = "adapter" => new.runs = [rec.runs EXCEPT ![event.of] = "final"]
      /\ new.terminal = "none" => new.status = rec.status
  BY Fields
<1>2. rec.runs \in [Execution -> {"none", "created", "final"}]
  BY DEF RunRecord
<1>3. new.runs["execution"] # "created" /\ new.runs["session"] = rec.runs["session"]
  <2>1. "execution" \in Execution /\ "session" \in Execution
    BY DEF Execution
  <2> HIDE DEF new
  <2> QED BY <1>1, <1>2, <2>1 DEF Live
<1> HIDE DEF new
<1>4. Live(new, opened, stray)
  BY <1>1, <1>3 DEF Live
<1> QED BY <1>4 DEF new

\* A request that goes on with a record of that kind fits.
LEMMA AwaitFits ==
  ASSUME NEW r \in Request, TypeOK, Fits(r), ask[r] # "done",
         NEW c, NEW stage \in {"routing", "answering", "running", "calling",
                               "validating", "replying"},
         Await(r, stage, c), Live(c.record[r], IsOpen(r), IsStray(r)),
         IsOpen(r) => IsOpen(r)', IsStray(r)' => IsStray(r) , IsStray(r) => IsStray(r)',
         stage # "calling" => call'[r] \in {"idle", "returned"}
  PROVE  Fits(r)'
<1>1. ask'[r] = stage /\ buffer' = c /\ outcome'[r] = outcome[r]
  BY DEF Await, TypeOK
<1>2. outcome'[r] = "none" /\ ask'[r] # "done"
  BY <1>1 DEF Fits
<1> QED BY <1>1, <1>2 DEF Fits, Live, IsOpen, IsStray

\* A request that ends, with no session of its own left open, fits.
LEMMA EndFits ==
  ASSUME NEW r \in Request, TypeOK, ask[r] # "done",
         NEW c \in Buffer, NEW value \in {"complete", "failed"},
         End(r, value, c), Live(c.record[r], IsOpen(r), IsStray(r)),
         UNCHANGED mcpVars, call[r] \in {"idle", "returned"}, ~IsStray(r) => ~IsOpen(r)
  PROVE  Fits(r)'
<1> DEFINE event == Terminal(value)
           rec == c.record[r]
           new == Transitioned(Merged(rec, event))
<1>1. event \in Event /\ event.kind = "terminal" /\ event.value = value
  BY EventsOfTheCode DEF Terminal
<1>2. rec \in RunRecord
  BY DEF Buffer
<1>3. /\ new.terminal = value /\ new.runs = rec.runs
      /\ (rec.status = "pending" /\ \A x \in Execution : new.runs[x] # "created")
           => new.status = value
  <2> HIDE DEF event, rec
  <2>1. new.terminal = value /\ new.runs = rec.runs
    BY <1>1, <1>2, Fields
  <2>2. new.terminal # "none"
    BY <2>1
  <2> QED BY <1>2, <2>1, <2>2, Fields, <1>1
<1>4. ask'[r] = "done" /\ outcome'[r] = value /\ buffer' = Recorded(c, r, event)
  BY DEF End, TypeOK
<1>5. buffer'.record[r] = new
  BY <1>1, <1>4, Records
<1> HIDE DEF new, rec, event
<1>6. /\ new.runs["execution"] # "created"
      /\ new.runs["session"] = "created" => session[r] \in {"open", "closing"}
  BY <1>3 DEF Live, IsOpen, rec
<1>7. start[r] # "stray" => new.status = value /\ new.runs["session"] # "created"
  BY <1>3, <1>6 DEF Live, IsOpen, IsStray, rec, Execution
<1> QED BY <1>3, <1>4, <1>5, <1>6, <1>7 DEF Fits, mcpVars

----------------------------------------------------------------------------
\* The operations of the buffer leave it so.
LEMMA LeftByOne ==
  ASSUME NEW r \in Request, NEW b \in Buffer
  PROVE  /\ LeftBy(r, b, b) /\ LeftBy(r, b, Opened(b, r))
         /\ \A event \in Event : LeftBy(r, b, Recorded(b, r, event))
  BY Opens, Records DEF LeftBy

\* So do two of them in turn.
LEMMA LeftByTwo ==
  ASSUME NEW r \in Request, NEW b \in Buffer, NEW c, NEW d, LeftBy(r, b, c), LeftBy(r, c, d)
  PROVE  LeftBy(r, b, d)
  BY DEF LeftBy

\* What a step of request r does to the buffer and to the handlers.
Moves(r) ==
  /\ LeftBy(r, buffer, buffer')
  /\ ask' \in [Request -> {"idle", "routing", "answering", "running", "calling",
                          "validating", "replying", "done"}]
  /\ outcome' \in [Request -> {"none", "complete", "failed"}]
  /\ \A q \in Request \ {r} : ask'[q] = ask[q] /\ outcome'[q] = outcome[q]

\* Going on to the next await does no more.
LEMMA AwaitMoves ==
  ASSUME NEW r \in Request, TypeOK, NEW c, LeftBy(r, buffer, c),
         NEW stage \in {"routing", "answering", "running", "calling",
                        "validating", "replying"},
         Await(r, stage, c)
  PROVE  Moves(r)
  BY DEF Await, TypeOK, Moves

\* So does the terminal event.
LEMMA EndMoves ==
  ASSUME NEW r \in Request, TypeOK, NEW c, LeftBy(r, buffer, c),
         NEW value \in {"complete", "failed"}, End(r, value, c)
  PROVE  Moves(r)
<1>1. LeftBy(r, c, Recorded(c, r, Terminal(value)))
  BY LeftByOne, EventsOfTheCode DEF LeftBy
<1>2. LeftBy(r, buffer, buffer')
  BY <1>1, LeftByTwo DEF End, TypeOK, BufferTypeOK
<1> QED BY <1>2 DEF End, TypeOK, Moves

\* So does every step of a request.
LEMMA StepMoves ==
  ASSUME NEW r \in Request, TypeOK, Step(r)
  PROVE  Moves(r)
<1>1. /\ LeftBy(r, buffer, buffer) /\ LeftBy(r, buffer, Opened(buffer, r))
      /\ \A event \in Event : LeftBy(r, buffer, Recorded(buffer, r, event))
  BY LeftByOne DEF TypeOK, BufferTypeOK
<1>2. /\ Routing \in Event /\ Adapter("execution") \in Event
      /\ Sandbox("execution", "final") \in Event
      /\ Sandbox("session", "created") \in Event /\ Sandbox("session", "final") \in Event
  BY EventsOfTheCode DEF Execution
<1>3. ASSUME NEW c, NEW stage \in {"routing", "answering", "running", "calling",
                                  "validating", "replying"},
             LeftBy(r, buffer, c), Await(r, stage, c)
      PROVE  Moves(r)
  BY <1>3, AwaitMoves
<1>4. ASSUME NEW c, NEW value \in {"complete", "failed"}, LeftBy(r, buffer, c), End(r, value, c)
      PROVE  Moves(r)
  BY <1>4, EndMoves
<1>5. CASE UNCHANGED askVars /\ LeftBy(r, buffer, buffer')
  BY <1>5 DEF askVars, TypeOK, Moves
<1>6. CASE Begin(r)
  BY <1>1, <1>3, <1>4, <1>6 DEF Begin, EndEither
<1>7. CASE Routed(r)
  BY <1>1, <1>2, <1>3, <1>4, <1>7 DEF Routed
<1>8. CASE Answers(r) \/ Reply(r)
  BY <1>1, <1>4, <1>8 DEF Answers, Reply, EndEither
<1>9. CASE RunReports(r)
  BY <1>1, <1>2, <1>3, <1>9 DEF RunReports
<1>10. CASE Executed(r)
  BY <1>1, <1>3, <1>4, <1>10 DEF Executed
<1>11. CASE Validated(r)
  BY <1>1, <1>2, <1>3, <1>11 DEF Validated
<1>12. CASE SessionCreated(r) \/ SessionFinal(r)
  BY <1>1, <1>2, <1>5, <1>12 DEF SessionCreated, SessionFinal
<1>13. CASE CallWaits(r) \/ CallSteps(r)
  <2>1. buffer' = buffer /\ UNCHANGED askVars
    BY <1>13 DEF CallWaits, CallSteps
  <2> QED BY <1>1, <1>5, <2>1
<1> QED BY <1>6, <1>7, <1>8, <1>9, <1>10, <1>11, <1>12, <1>13 DEF Step

\* A step of one call leaves the others alone.
LEMMA CallsApart ==
  ASSUME NEW r \in Request, McpTypeOK, McpStep(r) \/ UNCHANGED mcpVars,
         NEW q \in Request, q # r
  PROVE  call'[q] = call[q] /\ start'[q] = start[q] /\ session'[q] = session[q]
<1> USE CallAssumption DEF McpTypeOK
<1>1. CASE UNCHANGED mcpVars
  BY <1>1 DEF mcpVars
<1>2. ASSUME CloseTransport(r) PROVE start'[q] = start[q] /\ session'[q] = session[q]
  <2>1. CASE Memoized(r)
    BY <1>2, <2>1 DEF CloseTransport
  <2>2. CASE ~Memoized(r)
    BY <1>2, <2>2 DEF CloseTransport
  <2> QED BY <2>1, <2>2
<1>3. CASE Invoke(r)
  BY <1>3 DEF Invoke, Goto
<1>4. CASE SpawnReturns(r)
  BY <1>4 DEF SpawnReturns
<1>5. CASE SpawnFails(r)
  BY <1>5 DEF SpawnFails, Goto
<1>6. CASE GuestExits(r)
  BY <1>6 DEF GuestExits
<1>7. CASE ProcessEnds(r)
  BY <1>2, <1>7 DEF ProcessEnds
<1>8. CASE Answered(r)
  BY <1>8 DEF Answered, Goto
<1>9. CASE Finish(r)
  BY <1>2, <1>9 DEF Finish, Goto
<1>10. CASE ConnectTimeout(r)
  BY <1>2, <1>10 DEF ConnectTimeout, Goto
<1>11. CASE RequestFails(r)
  BY <1>2, <1>11 DEF RequestFails, Goto
<1>12. CASE Return(r)
  BY <1>12 DEF Return, Goto
<1>13. CASE SessionCloses(r)
  BY <1>13 DEF SessionCloses
<1> QED BY <1>1, <1>3, <1>4, <1>5, <1>6, <1>7, <1>8, <1>9, <1>10, <1>11, <1>12, <1>13
        DEF McpStep, Waits

\* The other requests fit as before, or have lost their record.
LEMMA OthersFit ==
  ASSUME NEW r \in Request, TypeOK, Step(r), NEW q \in Request, q # r, Fits(q)
  PROVE  Fits(q)'
<1>1. call'[q] = call[q] /\ start'[q] = start[q] /\ session'[q] = session[q]
  BY CallsTakeSteps, CallsApart DEF TypeOK
<1>2. /\ ask'[q] = ask[q] /\ outcome'[q] = outcome[q]
      /\ buffer' \in Buffer
      /\ Holds(buffer', q) => Holds(buffer, q) /\ buffer'.record[q] = buffer.record[q]
  BY StepMoves DEF Moves, LeftBy
<1>3. CASE Holds(buffer', q)
  BY <1>1, <1>2, <1>3 DEF Fits
<1>4. CASE ~Holds(buffer', q)
  <2>1. buffer'.record[q] = Pending
    BY <1>2, <1>4 DEF Buffer
  <2>2. Pending.runs["execution"] = "none" /\ Pending.runs["session"] = "none"
    BY DEF Pending, Execution
  <2> QED BY <1>1, <1>2, <1>4, <2>1, <2>2 DEF Fits
<1> QED BY <1>3, <1>4

----------------------------------------------------------------------------
\* A call that is not under way has no session of its own that is open.
LEMMA Quiet ==
  ASSUME NEW r \in Request, McpInductive, call[r] \in {"idle", "returned"}, ~IsStray(r)
  PROVE  ~IsOpen(r)
  BY CallAssumption
     DEF McpInductive, McpTypeOK, StartFits, SessionFits, Closed, IsStray, IsOpen

\* What the steps of a call that emit nothing leave.
LEMMA CallKeeps ==
  ASSUME NEW r \in Request, McpInductive, CallWaits(r) \/ CallSteps(r)
  PROVE  /\ IsOpen(r) => IsOpen(r)'
         /\ IsStray(r)' <=> IsStray(r)
         /\ call'[r] = call[r] \/ call[r] \notin {"idle", "returned"}
<1> USE CallAssumption DEF McpInductive, McpTypeOK, StartFits, SessionFits, IsOpen, IsStray
<1>1. ASSUME CloseTransport(r)
      PROVE  (IsOpen(r) => IsOpen(r)') /\ (IsStray(r)' <=> IsStray(r))
  <2>1. CASE Memoized(r)
    BY <1>1, <2>1 DEF CloseTransport
  <2>2. CASE ~Memoized(r)
    BY <1>1, <2>2 DEF CloseTransport, Memoized
  <2> QED BY <2>1, <2>2
<1>2. CASE ConnectTimeout(r)
  BY <1>1, <1>2 DEF ConnectTimeout
<1>3. CASE RequestFails(r)
  BY <1>1, <1>3 DEF RequestFails, Talking
<1>4. CASE Return(r)
  BY <1>4 DEF Return
<1>5. CASE SpawnFails(r)
  <2>1. call[r] = "connect" \/ call'[r] = call[r]
    BY <1>5 DEF SpawnFails
  <2>2. start' = [start EXCEPT ![r] = "failed"] /\ start[r] # "stray" /\ session' = session
    BY <1>5 DEF SpawnFails
  <2> QED BY <2>1, <2>2
<1>6. CASE GuestExits(r)
  BY <1>6 DEF GuestExits
<1>7. CASE ProcessEnds(r)
  BY <1>1, <1>7 DEF ProcessEnds
<1>8. CASE Answered(r)
  BY <1>8 DEF Answered, Goto, Talking
<1>9. CASE Finish(r)
  BY <1>1, <1>9 DEF Finish, Goto, Talking
<1> QED BY <1>2, <1>3, <1>4, <1>5, <1>6, <1>7, <1>8, <1>9 DEF CallWaits, CallSteps

\* A session starts while its request waits for the call, or as a stray.
LEMMA SessionCreatedFits ==
  ASSUME NEW r \in Request, TypeOK, McpInductive, Fits(r), SessionCreated(r)
  PROVE  Fits(r)'
<1> DEFINE rec == buffer.record[r]
           event == Sandbox("session", "created")
           new == Transitioned(Merged(rec, event))
<1>1. /\ event \in Event /\ event.kind = "sandbox"
      /\ event.of = "session" /\ event.value = "created"
  BY EventsOfTheCode DEF Sandbox, Execution
<1>2. rec \in RunRecord /\ rec.runs \in [Execution -> {"none", "created", "final"}]
  BY DEF TypeOK, BufferTypeOK, Buffer, RunRecord
<1>3. buffer' = Recorded(buffer, r, event) /\ UNCHANGED askVars
  BY DEF SessionCreated
<1>4. buffer'.record[r] = new
  BY <1>1, <1>3, Records DEF TypeOK, BufferTypeOK
<1>5. /\ new.terminal = rec.terminal
      /\ new.runs = [rec.runs EXCEPT !["session"] = "created"]
      /\ new.terminal = "none" => new.status = rec.status
  <2>1. /\ new.terminal = IF event.kind = "terminal" THEN event.value ELSE rec.terminal
        /\ event.kind = "sandbox" => new.runs = [rec.runs EXCEPT ![event.of] = event.value]
        /\ new.terminal = "none" => new.status = rec.status
    BY <1>1, <1>2, Fields
  <2> HIDE DEF new, rec, event
  <2> QED BY <1>1, <2>1
<1>6. /\ start[r] \in {"pending", "orphaned"} /\ session'[r] = "open"
      /\ start'[r] = IF start[r] = "pending" THEN "started" ELSE "stray"
      /\ call'[r] = call[r]
  <2>1. /\ start[r] \in {"pending", "orphaned"} /\ call' = call
        /\ start' = [start EXCEPT ![r] = IF @ = "pending" THEN "started" ELSE "stray"]
        /\ session' = [session EXCEPT ![r] = "open"]
    BY DEF SessionCreated, SpawnReturns
  <2>2. r \in DOMAIN start /\ r \in DOMAIN session
    BY CallAssumption DEF McpInductive, McpTypeOK
  <2> QED BY <2>1, <2>2
<1>7. CASE start[r] = "orphaned"
  <2>1. start'[r] = "stray"
    BY <1>6, <1>7
  <2> HIDE DEF new, rec, event
  <2>2. new.runs["execution"] = rec.runs["execution"]
    BY <1>2, <1>5 DEF Execution
  <2> QED BY <1>3, <1>4, <1>6, <2>1, <2>2 DEF Fits, askVars, rec
<1>8. CASE start[r] = "pending"
  <2>1. call[r] = "connect"
    BY <1>8, CallAssumption DEF McpInductive, StartFits
  <2>2. ask[r] = "calling" /\ outcome[r] = "none" /\ start[r] # "stray"
    BY <1>8, <2>1 DEF Fits
  <2>3. Live(rec, IsOpen(r), IsStray(r))
    BY <2>2, LiveNow
  <2> HIDE DEF new, rec, event
  <2>4. rec.terminal = "none" /\ rec.status = "pending" /\ rec.runs["execution"] # "created"
    BY <2>2, <2>3 DEF Live, IsStray
  <2>5. new.runs["execution"] # "created" /\ new.terminal = "none" /\ new.status = "pending"
    BY <1>2, <1>5, <2>4 DEF Execution
  <2> QED BY <1>3, <1>4, <1>6, <2>2, <2>5 DEF Fits, askVars
<1> QED BY <1>6, <1>7, <1>8

\* A session that closes belongs to a call that is under way.
LEMMA SessionFinalFits ==
  ASSUME NEW r \in Request, TypeOK, McpInductive, Fits(r), SessionFinal(r)
  PROVE  Fits(r)'
<1> DEFINE rec == buffer.record[r]
           event == Sandbox("session", "final")
           new == Transitioned(Merged(rec, event))
<1>1. /\ event \in Event /\ event.kind = "sandbox"
      /\ event.of = "session" /\ event.value = "final"
  BY EventsOfTheCode DEF Sandbox, Execution
<1>2. rec \in RunRecord /\ rec.runs \in [Execution -> {"none", "created", "final"}]
  BY DEF TypeOK, BufferTypeOK, Buffer, RunRecord
<1>3. buffer' = Recorded(buffer, r, event) /\ UNCHANGED askVars
  BY DEF SessionFinal
<1>4. buffer'.record[r] = new
  BY <1>1, <1>3, Records DEF TypeOK, BufferTypeOK
<1>5. /\ new.terminal = rec.terminal
      /\ new.runs = [rec.runs EXCEPT !["session"] = "final"]
      /\ new.terminal = "none" => new.status = rec.status
  <2>1. /\ new.terminal = IF event.kind = "terminal" THEN event.value ELSE rec.terminal
        /\ event.kind = "sandbox" => new.runs = [rec.runs EXCEPT ![event.of] = event.value]
        /\ new.terminal = "none" => new.status = rec.status
    BY <1>1, <1>2, Fields
  <2> HIDE DEF new, rec, event
  <2> QED BY <1>1, <2>1
<1>6. session[r] = "closing" /\ start'[r] = start[r] /\ call'[r] = call[r]
  BY DEF SessionFinal, SessionCloses
<1>7. start[r] = "started" /\ call[r] \notin {"idle", "returned"}
  BY <1>6, CallAssumption DEF McpInductive, McpTypeOK, StartFits, SessionFits, Closed
<1>8. ask[r] = "calling" /\ outcome[r] = "none" /\ start[r] # "stray"
  BY <1>7 DEF Fits
<1>9. Live(rec, IsOpen(r), IsStray(r))
  BY <1>8, LiveNow
<1> HIDE DEF new, rec, event
<1>10. rec.terminal = "none" /\ rec.status = "pending" /\ rec.runs["execution"] # "created"
  BY <1>8, <1>9 DEF Live, IsStray
<1>11. /\ new.runs["execution"] # "created" /\ new.runs["session"] = "final"
       /\ new.terminal = "none" /\ new.status = "pending"
  BY <1>2, <1>5, <1>10 DEF Execution
<1> QED BY <1>3, <1>4, <1>6, <1>8, <1>11 DEF Fits, askVars

\* A request that takes a step fits after it.
LEMMA OwnFits ==
  ASSUME NEW r \in Request, TypeOK, McpInductive, Fits(r), Step(r)
  PROVE  Fits(r)'
<1> DEFINE rec == buffer.record[r]
           b == Recorded(buffer, r, Routing)
<1>1. /\ buffer \in Buffer /\ rec \in RunRecord
      /\ Opened(buffer, r) \in Buffer /\ Opened(buffer, r).record[r] = rec
  BY Opens DEF TypeOK, BufferTypeOK, Buffer
<1>2. ask[r] # "done" => Live(rec, IsOpen(r), IsStray(r))
  BY LiveNow
<1>3. ASSUME NEW event \in Event, ask[r] # "done",
             \/ event.kind = "routing"
             \/ event.kind = "adapter" /\ event.of = "execution"
             \/ event.kind = "sandbox" /\ event.of = "execution" /\ event.value = "final"
      PROVE  /\ Recorded(buffer, r, event) \in Buffer
             /\ Live(Recorded(buffer, r, event).record[r], IsOpen(r), IsStray(r))
  <2>1. Live(Transitioned(Merged(rec, event)), IsOpen(r), IsStray(r))
    BY <1>1, <1>2, <1>3, LiveKept
  <2> QED BY <1>1, <2>1, Records
<1>4. ask[r] = "routing" => b \in Buffer /\ Live(b.record[r], IsOpen(r), IsStray(r))
  BY <1>3, EventsOfTheCode DEF Routing
<1>5. UNCHANGED mcpVars => /\ IsOpen(r)' <=> IsOpen(r)
                           /\ IsStray(r)' <=> IsStray(r)
                           /\ call'[r] = call[r]
  BY DEF mcpVars, IsOpen, IsStray
<1>6. ask[r] \notin {"calling", "done"} => call[r] \in {"idle", "returned"}
  BY DEF Fits
<1> HIDE DEF rec, b
<1>7. ASSUME NEW c \in Buffer, NEW value \in {"complete", "failed"}, End(r, value, c),
             Live(c.record[r], IsOpen(r), IsStray(r)), ask[r] # "done",
             call[r] \in {"idle", "returned"}, UNCHANGED mcpVars
      PROVE  Fits(r)'
  BY <1>7, EndFits, Quiet
<1>8. ASSUME NEW c \in Buffer, Live(c.record[r], IsOpen(r), IsStray(r)), ask[r] # "done",
             NEW stage \in {"routing", "answering", "running", "validating", "replying"},
             Await(r, stage, c), call[r] \in {"idle", "returned"}, UNCHANGED mcpVars
      PROVE  Fits(r)'
  BY <1>5, <1>8, AwaitFits
<1>9. CASE Begin(r)
  <2>1. ask[r] = "idle" /\ UNCHANGED mcpVars
    BY <1>9 DEF Begin
  <2>2. /\ Live(buffer.record[r], IsOpen(r), IsStray(r))
        /\ Live(Opened(buffer, r).record[r], IsOpen(r), IsStray(r))
    BY <1>1, <1>2, <2>1 DEF rec
  <2> QED BY <1>1, <1>6, <1>7, <1>8, <1>9, <2>1, <2>2 DEF Begin, EndEither
<1>10. CASE Routed(r)
  <2>1. ask[r] = "routing" /\ call[r] \in {"idle", "returned"}
    BY <1>6, <1>10 DEF Routed
  <2>2. Live(buffer.record[r], IsOpen(r), IsStray(r))
    BY <1>2, <2>1 DEF rec
  <2>3. CASE /\ \/ End(r, "failed", buffer)
                \/ End(r, "complete", b)
                \/ \E stage \in {"answering", "running"} : Await(r, stage, b)
             /\ UNCHANGED mcpVars
    BY <1>1, <1>4, <1>7, <1>8, <2>1, <2>2, <2>3
  <2>4. CASE Await(r, "calling", b) /\ Invoke(r)
    <3>1. call[r] = "idle" /\ session' = session
      BY <2>4 DEF Invoke
    <3>2. start[r] = "no"
      BY <3>1, CallAssumption DEF McpInductive, McpTypeOK, StartFits, SessionFits
    <3>3. start'[r] \in {"no", "pending"}
      BY <2>4, <3>2, CallAssumption DEF Invoke, McpInductive, McpTypeOK
    <3>4. (IsOpen(r) => IsOpen(r)') /\ ~IsStray(r) /\ ~IsStray(r)'
      BY <3>1, <3>2, <3>3 DEF IsOpen, IsStray
    <3> QED BY <1>4, <2>1, <2>4, <3>4, AwaitFits
  <2> QED BY <1>10, <2>3, <2>4 DEF Routed, b
<1>11. CASE Answers(r) \/ Reply(r)
  <2>1. ask[r] \in {"answering", "replying"} /\ UNCHANGED mcpVars
    BY <1>11 DEF Answers, Reply
  <2>2. Live(buffer.record[r], IsOpen(r), IsStray(r))
    BY <1>2, <2>1 DEF rec
  <2> QED BY <1>1, <1>6, <1>7, <1>11, <2>1, <2>2 DEF Answers, Reply, EndEither
<1>12. CASE RunReports(r)
  <2> DEFINE event == Sandbox("execution", "final")
  <2>1. /\ ask[r] = "running" /\ UNCHANGED mcpVars
        /\ Await(r, "running", Recorded(buffer, r, event))
    BY <1>12 DEF RunReports
  <2>2. /\ event \in Event /\ event.kind = "sandbox"
        /\ event.of = "execution" /\ event.value = "final"
    BY EventsOfTheCode DEF Sandbox, Execution
  <2> HIDE DEF event
  <2> QED BY <1>3, <1>6, <1>8, <2>1, <2>2
<1>13. CASE Executed(r)
  <2>1. /\ ask[r] # "done" /\ call[r] \in {"idle", "returned"} /\ UNCHANGED mcpVars
    BY <1>6, <1>13 DEF Executed
  <2>2. Live(buffer.record[r], IsOpen(r), IsStray(r))
    BY <1>2, <2>1 DEF rec
  <2> QED BY <1>1, <1>7, <1>8, <1>13, <2>1, <2>2 DEF Executed
<1>14. CASE Validated(r)
  <2> DEFINE event == Adapter("execution")
  <2>1. /\ ask[r] = "validating" /\ UNCHANGED mcpVars
        /\ Await(r, "replying", Recorded(buffer, r, event))
    BY <1>14 DEF Validated
  <2>2. event \in Event /\ event.kind = "adapter" /\ event.of = "execution"
    BY EventsOfTheCode DEF Adapter, Execution
  <2> HIDE DEF event
  <2> QED BY <1>3, <1>6, <1>8, <2>1, <2>2
<1>15. CASE CallWaits(r) \/ CallSteps(r)
  <2>1. buffer' = buffer /\ UNCHANGED askVars
    BY <1>15 DEF CallWaits, CallSteps
  <2> QED BY <1>15, <2>1, CallKeeps DEF Fits, IsOpen, IsStray, askVars
<1> QED BY <1>9, <1>10, <1>11, <1>12, <1>13, <1>14, <1>15,
           SessionCreatedFits, SessionFinalFits DEF Step

----------------------------------------------------------------------------
\* What holds of every request, its call and the buffer at every step.
THEOREM AskInductive == Spec => []Inductive
<1>1. Init => Inductive
  <2> SUFFICES ASSUME Init PROVE Inductive
    OBVIOUS
  <2>1. McpInductive /\ McpTypeOK /\ BufferTypeOK
    BY McpStarts, BufferStarts DEF Init, McpInductive
  <2>2. TypeOK
    BY <2>1 DEF Init, TypeOK
  <2>3. ASSUME NEW r \in Request PROVE Fits(r)
    <3>1. buffer = [order |-> <<>>, record |-> [q \in Request |-> Pending]]
      BY DEF Init, BufferInit
    <3>2. ~Holds(buffer, r)
      BY <3>1 DEF Holds
    <3>3. buffer.record[r].runs = [x \in Execution |-> "none"]
      BY <3>1 DEF Pending
    <3>4. ask[r] = "idle" /\ outcome[r] = "none" /\ call[r] = "idle"
      BY CallAssumption DEF Init, McpInit
    <3> QED BY <3>2, <3>3, <3>4 DEF Fits, Execution
  <2> QED BY <2>1, <2>2, <2>3 DEF Inductive
<1>2. Inductive /\ [Next]_vars => Inductive'
  <2> SUFFICES ASSUME Inductive, [Next]_vars PROVE Inductive'
    OBVIOUS
  <2>1. McpInductive' /\ McpTypeOK'
    BY CallsMove, McpKept DEF Inductive, McpInductive
  <2>2. CASE UNCHANGED vars
    BY <2>1, <2>2 DEF Inductive, TypeOK, BufferTypeOK, Fits, vars, mcpVars, askVars
  <2>3. ASSUME NEW r \in Request, Step(r) PROVE Inductive'
    <3>1. TypeOK'
      BY <2>1, <2>3, StepMoves DEF Inductive, TypeOK, BufferTypeOK, Moves, LeftBy
    <3>2. ASSUME NEW q \in Request PROVE Fits(q)'
      BY <2>3, OwnFits, OthersFit DEF Inductive
    <3> QED BY <2>1, <3>1, <3>2 DEF Inductive
  <2> QED BY <2>2, <2>3 DEF Next
<1> QED BY <1>1, <1>2, PTL DEF Spec

\* Type correctness, with a buffer that never holds more than its capacity.
THEOREM AskTypeOK == Spec => []TypeOK
<1>1. Inductive => TypeOK
  BY DEF Inductive
<1> QED BY <1>1, AskInductive, PTL

\* A request that is over has a record that says so, with no run left open.
THEOREM AskSettledRecord == Spec => []SettledRecord
<1>1. Inductive => SettledRecord
  <2> SUFFICES ASSUME Inductive, NEW r \in Request,
                      ask[r] = "done", Holds(buffer, r), start[r] # "stray"
               PROVE  /\ buffer.record[r].status = outcome[r]
                      /\ \A x \in Execution : buffer.record[r].runs[x] # "created"
    BY DEF SettledRecord
  <2> QED BY DEF Inductive, Fits, Execution
<1> QED BY <1>1, AskInductive, PTL

\* A call that has returned leaves no session of its own behind.
THEOREM AskReturnedReleased == Spec => []ReturnedReleased
<1>1. Inductive => ReturnedReleased
  BY DEF Inductive, McpInductive, McpTypeOK, StartFits, SessionFits, ReturnedReleased, Closed
<1> QED BY <1>1, AskInductive, PTL

\* A success is returned only from a guest that was contained.
THEOREM AskSuccessContained == Spec => []SuccessContained
<1>1. Inductive => SuccessContained
  BY DEF Inductive, McpInductive, McpTypeOK, SessionFits, ResultFits, SuccessContained, Closed
<1> QED BY <1>1, AskInductive, PTL
----------------------------------------------------------------------------
(***************************************************************************)
(* What of liveness is a matter of single steps: a call only moves on.     *)
(***************************************************************************)

\* How far on its way a call is.
Rank(stage) ==
  CASE stage = "idle"    -> 0
    [] stage = "connect" -> 1
    [] stage = "list"    -> 2
    [] stage = "tool"    -> 3
    [] stage \in {"finish", "catch"} -> 4
    [] OTHER -> 5

MovesOn(c) == call'[c] = call[c] \/ Rank(call[c]) < Rank(call'[c])

AnswersOnce(c) == call[c] = "returned" => call'[c] = "returned" /\ result'[c] = result[c]

\* What close() has begun goes on, and how it has ended stays so.
ClosesOnce(c) ==
  /\ closing[c] # "no" => closing'[c] # "no"
  /\ Closed(c) => closing'[c] = closing[c]
  /\ session[c] = "closing" => session'[c] \in {"closing", "closed"}
  /\ session[c] = "closed"  => session'[c] = "closed"

\* A close() that begins takes the session that is open; later ones join it.
LEMMA ClosingOnce ==
  ASSUME McpInductive, NEW c \in Call, CloseTransport(c)
  PROVE  ClosesOnce(c)
<1> USE DEF McpInductive, McpTypeOK, ClosesOnce, Closed
<1>1. CASE Memoized(c)
  BY <1>1 DEF CloseTransport
<1>2. CASE ~Memoized(c)
  BY <1>2 DEF CloseTransport, Memoized, StartFits, SessionFits
<1> QED BY <1>1, <1>2

LEMMA CallMovesOn ==
  ASSUME McpInductive, NEW c \in Call, McpStep(c)
  PROVE  MovesOn(c) /\ AnswersOnce(c) /\ ClosesOnce(c)
<1> USE DEF McpInductive, McpTypeOK, MovesOn, AnswersOnce
<1>1. CASE Invoke(c)
  BY <1>1 DEF Invoke, Goto, Rank, ClosesOnce, Closed
<1>2. CASE SpawnReturns(c)
  BY <1>2 DEF SpawnReturns, StartFits, ClosesOnce, Closed
<1>3. CASE SpawnFails(c)
  BY <1>3 DEF SpawnFails, Goto, StartFits, Rank, ClosesOnce, Closed
<1>4. CASE GuestExits(c)
  BY <1>4 DEF GuestExits, ClosesOnce, Closed
<1>5. CASE ProcessEnds(c)
  BY <1>5, ClosingOnce DEF ProcessEnds
<1>6. CASE Answered(c)
  BY <1>6 DEF Answered, Goto, Talking, Rank, ClosesOnce, Closed
<1>7. CASE Finish(c)
  BY <1>7, ClosingOnce DEF Finish, Goto, Talking, Rank
<1>8. CASE ConnectTimeout(c)
  BY <1>8, ClosingOnce DEF ConnectTimeout, Goto, Rank
<1>9. CASE RequestFails(c)
  BY <1>9, ClosingOnce DEF RequestFails, Goto, Talking, Rank
<1>10. CASE Return(c)
  BY <1>10 DEF Return, Goto, Rank, ClosesOnce, Closed
<1>11. CASE SessionCloses(c)
  BY <1>11 DEF SessionCloses, Settled, StartFits, SessionFits, ClosesOnce, Closed
<1> QED BY <1>1, <1>2, <1>3, <1>4, <1>5, <1>6, <1>7, <1>8, <1>9, <1>10, <1>11
        DEF McpStep, Waits

\* Nothing of one call is moved by another.
LEMMA CallStands ==
  ASSUME McpTypeOK, NEW c \in Call, McpStep(c), NEW d \in Call \ {c}
  PROVE  /\ call'[d] = call[d] /\ result'[d] = result[d]
         /\ closing'[d] = closing[d] /\ session'[d] = session[d]
<1> USE DEF McpTypeOK, Goto
<1>1. CASE Invoke(c)
  BY <1>1 DEF Invoke
<1>2. CASE SpawnReturns(c)
  BY <1>2 DEF SpawnReturns
<1>3. CASE SpawnFails(c)
  BY <1>3 DEF SpawnFails
<1>4. CASE GuestExits(c)
  BY <1>4 DEF GuestExits
<1>5. CASE ProcessEnds(c)
  BY <1>5 DEF ProcessEnds, CloseTransport
<1>6. CASE Answered(c)
  BY <1>6 DEF Answered
<1>7. CASE Finish(c)
  BY <1>7 DEF Finish, CloseTransport
<1>8. CASE ConnectTimeout(c)
  BY <1>8 DEF ConnectTimeout, CloseTransport
<1>9. CASE RequestFails(c)
  BY <1>9 DEF RequestFails, CloseTransport
<1>10. CASE Return(c)
  BY <1>10 DEF Return
<1>11. CASE SessionCloses(c)
  BY <1>11 DEF SessionCloses
<1> QED BY <1>1, <1>2, <1>3, <1>4, <1>5, <1>6, <1>7, <1>8, <1>9, <1>10, <1>11
        DEF McpStep, Waits

\* invoke() and close() of an MCP skill, whatever order spawn(), the server,
\* the timers and the peer's exit come in: a call never goes back to a stage
\* it has left, and it answers once; the memoized close() ends once and as it
\* ended first, and the session it has taken is never open again.
THEOREM AskCallsMoveOn ==
  Spec => [][\A c \in Call : MovesOn(c) /\ AnswersOnce(c) /\ ClosesOnce(c)]_vars
<1>1. Inductive /\ [Next]_vars
        => [\A c \in Call : MovesOn(c) /\ AnswersOnce(c) /\ ClosesOnce(c)]_vars
  <2> SUFFICES ASSUME Inductive, [McpNext]_mcpVars, NEW d \in Call
               PROVE  MovesOn(d) /\ AnswersOnce(d) /\ ClosesOnce(d)
    BY CallsMove
  <2>1. McpInductive /\ McpTypeOK
    BY DEF Inductive, McpInductive
  <2>2. CASE UNCHANGED mcpVars
    BY <2>2 DEF mcpVars, MovesOn, AnswersOnce, ClosesOnce, Closed
  <2>3. ASSUME NEW c \in Call, McpStep(c) PROVE MovesOn(d) /\ AnswersOnce(d) /\ ClosesOnce(d)
    <3>1. CASE c = d
      BY <2>1, <2>3, <3>1, CallMovesOn
    <3>2. CASE c # d
      BY <2>1, <2>3, <3>2, CallStands DEF MovesOn, AnswersOnce, ClosesOnce, Closed
    <3> QED BY <3>1, <3>2
  <2> QED BY <2>2, <2>3 DEF McpNext
<1> QED BY <1>1, AskInductive, PTL DEF Spec
=============================================================================
