-------------------------------- MODULE VmGuest --------------------------------
(***************************************************************************)
(* One virtual machine from start() to the result of the run: the helper   *)
(* process that becomes it (vm-helper.c), the guest's first process        *)
(* (vm-init.c), the control channel between it and the host, the ready     *)
(* handshake and the exit status of engine.ts and native-binding.ts, and   *)
(* the bounded collector of vm-backend.ts.                                 *)
(***************************************************************************)
EXTENDS Integers, Sequences, FiniteSets

CONSTANTS
  MaxStrikes, \* MAX_MALFORMED_FRAMES
  MaxNoise    \* bound: lines that are no frame

GuestAssumption == MaxStrikes \in Nat /\ MaxNoise \in Nat

VARIABLES
  guest,    \* where the guest's first process is
  worker,   \* how the workload ended: a code, or NoCode
  tx,       \* frames the guest has written and libkrun not yet copied to the pipe
  pipe,     \* frames in the pipe to the host
  helperOf, \* the helper: none, running, killed (signalled), dead, slain (by the signal), failed
  status,   \* raw.exited: the status waitpid() gave, or NoCode
  start,    \* start(): spawning, handshake, up, failed
  strikes,  \* lines the handshake could not parse
  guestExit,\* the code of the first exit frame read
  settled,  \* controlSettled: no, frame, eof, or timer
  killedBy, \* the kill of the helper: none, or who asked first
  capped,   \* timedOut or overflow of the collector: none, timeout, overflow
  result,   \* the exit code of the run, or NoCode
  noise     \* bound: lines written that are no frame

vmVars == <<guest, worker, tx, pipe, helperOf, status, start, strikes, guestExit, settled,
            killedBy, capped, result, noise>>
hostVars == <<status, start, strikes, guestExit, settled, killedBy, capped, result>>

NoCode == -1
Rejected == 127
Killed == 137

Ready == [frame |-> "ready", code |-> NoCode]
Refusal == [frame |-> "error", code |-> NoCode]
Noise == [frame |-> "noise", code |-> NoCode]
Exit(n) == [frame |-> "exit", code |-> n]
Code == {0, 1, Rejected}
Frame == {Ready, Refusal, Noise} \cup {Exit(n) : n \in Code}

GuestTypeOK ==
  /\ guest \in {"off", "mounting", "deciding", "ready", "working", "settling", "halted",
                "crashed"}
  /\ worker \in Code \cup {NoCode}
  /\ tx \in Seq(Frame) /\ pipe \in Seq(Frame)
  /\ helperOf \in {"none", "running", "killed", "dead", "slain", "failed"}
  /\ status \in {NoCode, 0, 1, Killed} /\ guestExit \in Code \cup {NoCode}
  /\ start \in {"spawning", "handshake", "up", "failed"}
  /\ strikes \in 0..MaxStrikes + 1 /\ noise \in 0..MaxNoise
  /\ settled \in {"no", "frame", "eof", "timer"}
  /\ killedBy \in {"none", "start", "collector", "caller"}
  /\ capped \in {"none", "timeout", "overflow"}
  /\ result \in Code \cup {NoCode, Killed}

GuestInit ==
  /\ guest = "off" /\ worker = NoCode /\ tx = <<>> /\ pipe = <<>> /\ helperOf = "none"
  /\ status = NoCode /\ start = "spawning" /\ strikes = 0 /\ guestExit = NoCode
  /\ settled = "no" /\ killedBy = "none" /\ capped = "none" /\ result = NoCode /\ noise = 0
----------------------------------------------------------------------------
(***************************************************************************)
(* The helper and the guest.                                               *)
(***************************************************************************)

\* posix_spawn() succeeds, or start() throws.
Spawn ==
  /\ start = "spawning"
  /\ \/ start' = "handshake" /\ helperOf' = "running"
     \/ start' = "failed" /\ UNCHANGED helperOf
  /\ UNCHANGED <<guest, worker, tx, pipe, status, strikes, guestExit, settled, killedBy,
                 capped, result, noise>>

\* The helper parses its specification and configures the machine, up to entering it; any
\* error ends it, and there never is a guest.
Configure ==
  /\ guest = "off" /\ helperOf = "running"
  /\ \/ guest' = "mounting" /\ UNCHANGED helperOf
     \/ guest' = "crashed" /\ helperOf' = "failed"
  /\ UNCHANGED <<worker, tx, pipe, noise>> /\ UNCHANGED hostVars

Alive == helperOf = "running"
\* A step of the guest, which lives in the helper.
Guest(from, to) == guest = from /\ Alive /\ guest' = to /\ UNCHANGED <<pipe, helperOf>>

Write(frames) == tx' = tx \o frames

\* The mounts, then the forwarder and the control port: a mount that fails ends the guest
\* before it has a port to say so on.
Mount ==
  /\ Guest("mounting", "deciding") \/ Guest("mounting", "settling")
  /\ UNCHANGED <<worker, tx, noise>> /\ UNCHANGED hostVars

\* The launch specification and its working directory are in order, or the guest dies.
Decide ==
  /\ \/ Guest("deciding", "ready") /\ Write(<<Ready>>)
     \/ Guest("deciding", "settling") /\ Write(<<Refusal, Exit(Rejected)>>)
  /\ UNCHANGED <<worker, noise>> /\ UNCHANGED hostVars

\* The executable is allowed and the workload forked, or the guest dies, after its ready.
Fork ==
  /\ \/ Guest("ready", "working") /\ UNCHANGED tx
     \/ Guest("ready", "settling") /\ Write(<<Refusal, Exit(Rejected)>>)
  /\ UNCHANGED <<worker, noise>> /\ UNCHANGED hostVars

\* The workload ends, or could not be executed and has said so itself.
WorkloadEnds ==
  /\ Guest("working", "settling")
  /\ \E c \in Code :
       /\ worker' = c
       /\ \/ Write(<<Exit(c)>>)
          \/ c = Rejected /\ Write(<<Refusal, Exit(c), Exit(c)>>)
  /\ UNCHANGED noise /\ UNCHANGED hostVars

\* Something other than a frame gets into the channel.
Bleed ==
  /\ Alive /\ guest # "off" /\ noise < MaxNoise
  /\ noise' = noise + 1 /\ Write(<<Noise>>)
  /\ UNCHANGED <<guest, worker, pipe, helperOf>> /\ UNCHANGED hostVars

\* libkrun copies what the guest wrote into the pipe.
Drain ==
  /\ Alive /\ tx # <<>>
  /\ pipe' = pipe \o tx /\ tx' = <<>>
  /\ UNCHANGED <<guest, worker, helperOf, noise>> /\ UNCHANGED hostVars

\* The 50 ms before the first process exits outlast the copying; its end is the end of
\* the machine, and the helper's status says nothing of the workload.
Halt ==
  /\ guest = "settling" /\ Alive /\ tx = <<>>
  /\ guest' = "halted" /\ helperOf' = "dead"
  /\ UNCHANGED <<worker, tx, pipe, noise>> /\ UNCHANGED hostVars

\* The guest's kernel dies, which the helper's status does not tell, or the helper does.
Crash ==
  /\ Alive /\ guest # "off"
  /\ guest' = "crashed" /\ tx' = <<>>
  /\ helperOf' \in IF guest = "settling" THEN {"failed"} ELSE {"dead", "failed"}
  /\ UNCHANGED <<worker, pipe, noise>> /\ UNCHANGED hostVars

\* SIGKILL takes the helper and the guest in it.
Die ==
  /\ helperOf = "killed" /\ helperOf' = "slain" /\ tx' = <<>> /\ guest' = "crashed"
  /\ UNCHANGED <<worker, pipe, noise>> /\ UNCHANGED hostVars
----------------------------------------------------------------------------
(***************************************************************************)
(* The host.                                                               *)
(***************************************************************************)

guestVars == <<guest, worker, tx, noise>>

\* kill(): the first one signals and waits; a later one returns at once.
Kill(who) ==
  IF killedBy = "none"
  THEN killedBy' = who /\ helperOf' = IF Alive THEN "killed" ELSE helperOf
  ELSE UNCHANGED <<killedBy, helperOf>>

Gone == helperOf \in {"dead", "slain", "failed"}

\* A poll of waitpid() finds the helper, and its status.
Reap ==
  /\ Gone /\ status = NoCode
  /\ status' = CASE helperOf = "dead" -> 0 [] helperOf = "slain" -> Killed [] OTHER -> 1
  /\ UNCHANGED <<pipe, helperOf, start, strikes, guestExit, settled, killedBy, capped, result>>
  /\ UNCHANGED guestVars

\* What the handshake makes of a chunk of frames: the first that decides it.
Strikes(chunk) == Cardinality({i \in DOMAIN chunk : chunk[i] = Noise})
Decisive(chunk, i) ==
  \/ chunk[i] \in {Ready, Refusal}
  \/ chunk[i] = Noise /\ strikes + Strikes(SubSeq(chunk, 1, i)) > MaxStrikes
Decided(chunk) == {i \in DOMAIN chunk :
                     /\ Decisive(chunk, i)
                     /\ \A j \in 1..(i - 1) : ~Decisive(chunk, j)}
Handshake(chunk) ==
  IF \E i \in Decided(chunk) : chunk[i] = Ready THEN "up"
  ELSE IF Decided(chunk) # {} THEN "failed" ELSE "handshake"

\* The first exit frame of a sequence, if there is one.
FirstExit(frames) ==
  IF \E i \in DOMAIN frames : frames[i].frame = "exit"
  THEN frames[CHOOSE i \in DOMAIN frames :
                /\ frames[i].frame = "exit"
                /\ \A j \in 1..(i - 1) : frames[j].frame # "exit"].code
  ELSE NoCode

\* start() fails: the helper is killed before it throws.
Fails(who) == start' = "failed" /\ Kill(who)

\* A chunk is read: both readers see all of it.  The exit code is looked for from the
\* start, so that one that comes with the ready frame is not missed.
Read ==
  /\ start \in {"handshake", "up"} /\ result = NoCode
  /\ \E n \in 1..Len(pipe) :
       LET chunk == SubSeq(pipe, 1, n) IN
       /\ pipe' = SubSeq(pipe, n + 1, Len(pipe))
       /\ guestExit' = IF guestExit = NoCode THEN FirstExit(chunk) ELSE guestExit
       /\ settled' = IF guestExit' # NoCode /\ settled = "no" THEN "frame" ELSE settled
       /\ IF start = "up" THEN UNCHANGED <<start, strikes, killedBy, helperOf>>
          ELSE /\ strikes' = IF Handshake(chunk) = "handshake"
                             THEN strikes + Strikes(chunk) ELSE strikes
               /\ CASE Handshake(chunk) = "up"     -> start' = "up" /\ UNCHANGED <<killedBy, helperOf>>
                    [] Handshake(chunk) = "failed" -> Fails("start")
                    [] OTHER                       -> UNCHANGED <<start, killedBy, helperOf>>
  /\ UNCHANGED <<status, capped, result>> /\ UNCHANGED guestVars

\* The pipe ends, the helper has exited, or time is up, before the guest was ready.
HandshakeOver ==
  /\ start = "handshake" /\ Fails("start")
  /\ UNCHANGED <<pipe, status, strikes, guestExit, settled, capped, result>>
  /\ UNCHANGED guestVars

\* The end of the channel, or two seconds from the ready frame on, settle it too.
Settle ==
  /\ start = "up" /\ settled = "no"
  /\ settled' \in IF Gone /\ pipe = <<>> THEN {"eof", "timer"} ELSE {"timer"}
  /\ UNCHANGED <<pipe, helperOf, status, start, strikes, guestExit, killedBy, capped, result>>
  /\ UNCHANGED guestVars

\* The time limit and the cap on the output, each of which asks for the kill.
Capped ==
  /\ start = "up" /\ result = NoCode /\ capped = "none"
  /\ capped' \in {"timeout", "overflow"} /\ Kill("collector")
  /\ UNCHANGED <<pipe, status, start, strikes, guestExit, settled, result>>
  /\ UNCHANGED guestVars

\* kill(), close() or cleanup().
CallerKills ==
  /\ start = "up" /\ killedBy = "none" /\ Kill("caller")
  /\ UNCHANGED <<pipe, status, start, strikes, guestExit, settled, capped, result>>
  /\ UNCHANGED guestVars

\* `exited`: both the status and the channel are there.
Result ==
  /\ start = "up" /\ status # NoCode /\ settled # "no" /\ result = NoCode
  /\ result' = IF capped # "none" THEN Killed
               ELSE IF guestExit # NoCode THEN guestExit ELSE status
  /\ UNCHANGED <<pipe, helperOf, status, start, strikes, guestExit, settled, killedBy, capped>>
  /\ UNCHANGED guestVars

GuestNext ==
  \/ Spawn \/ Configure \/ Mount \/ Decide \/ Fork \/ WorkloadEnds \/ Bleed \/ Drain \/ Halt \/ Crash \/ Die
  \/ Reap \/ Read \/ HandshakeOver \/ Settle \/ Capped \/ CallerKills \/ Result

\* The guest's settling and the kernel's part after a signal end; polls, reads and timers
\* come.  Nothing makes the workload end but the time limit.
HelperGoesOn ==
  Drain \/ Halt \/ Die \/ Reap \/ Read \/ HandshakeOver \/ Settle \/ Capped \/ Result

GuestSpec == GuestInit /\ [][GuestNext]_vmVars /\ WF_vmVars(HelperGoesOn)
----------------------------------------------------------------------------
\* A run is reported with the code the guest gave it: a guest that refused the executable,
\* or whose workload failed, is never a success, in whatever order its last frames and
\* the end of the helper reach the host; only a channel that had not settled two seconds
\* after the helper's end may lose the code.
CodeReported ==
  result = 0 /\ settled # "timer" => worker = 0 \/ (guest = "crashed" /\ worker = NoCode)

\* A start() that throws leaves no helper behind.
StartClean == start = "failed" => helperOf # "running"

\* start() ends, and the run after it.
RunAnswered == start = "failed" \/ result # NoCode
=============================================================================
