------------------------------- MODULE VmEngine -------------------------------
(***************************************************************************)
(* The engine of the virtual machine backend (sandbox-vm-native) and the   *)
(* life of one backend around it: probe() and its private copies of the    *)
(* verified binaries, the root file system pinned by its descriptor,       *)
(* prepare(), spawn() and cleanup() of vm-backend.ts.  Every session of    *)
(* the process that selects a backend probes this engine too, whatever     *)
(* backend it then takes, so a second prober runs beside the session.      *)
(***************************************************************************)
EXTENDS Integers, FiniteSets

CONSTANTS
  MaxDirs,   \* bound: private directories that exist at once
  Ref,       \* root file systems, by digest
  Qualified, \* those the gate manifest names
  Required,  \* requireReleaseSignature
  NoRef      \* no root file system

EngineAssumption ==
  /\ MaxDirs \in Nat \ {0} /\ Required \in BOOLEAN
  /\ Qualified \subseteq Ref /\ NoRef \notin Ref

VARIABLES
  prober,     \* the await each probe() is at
  made,       \* the private directory each probe() is making or removing
  dirs,       \* the private directories on disk
  verified,   \* verifiedProbe: the directory it names, or 0
  superseded, \* directories whose verifiedProbe another probe() or close() overwrote
  leaked,     \* directories whose removal failed, which nobody is told
  wanted,     \* the root file system of the profile
  opened,     \* a descriptor that resolveRootfs() has open and not yet pinned
  pin,        \* resolvedRootfsHandle
  mount,      \* the loop mount of the executables' check: no, up, or stuck
  bridge,     \* the socket of the vsock bridge
  workDir,    \* the work directory of the backend exists
  helper,     \* the helper: none, running, gone
  killer,     \* its kill(), which does its work once: none, sent, threw, or swallowed
  reported,   \* what cleanup() reports or warns of: the helper, the work directory
  vmStage     \* the await the backend is at

engineVars == <<prober, made, dirs, verified, superseded, leaked, wanted, opened, pin,
                mount, bridge, workDir, helper, killer, reported, vmStage>>
probeVars == <<prober, made, dirs, verified, superseded, leaked>>
killVars == <<killer, reported>>
backendVars == <<wanted, opened, pin, mount, bridge, workDir, helper, killVars>>

Prober == {"session", "other"}
Dir == 1..MaxDirs
NoDir == 0

EngineTypeOK ==
  /\ prober \in [Prober -> {"idle", "clearing", "verifying", "copying", "checking",
                            "discarding", "found", "unavailable"}]
  /\ made \in [Prober -> Dir \cup {NoDir}]
  /\ dirs \subseteq Dir /\ superseded \subseteq Dir /\ leaked \subseteq Dir
  /\ verified \in Dir \cup {NoDir}
  /\ {wanted, opened, pin} \subseteq Ref \cup {NoRef}
  /\ mount \in {"no", "up", "stuck"} /\ bridge \in BOOLEAN /\ workDir \in BOOLEAN
  /\ helper \in {"none", "running", "gone"}
  /\ killer \in {"none", "sent", "threw", "swallowed"} /\ reported \subseteq {"helper", "workDir"}
  /\ vmStage \in {"probe", "prepare", "resolve", "hash", "assert", "mounted", "bind",
                  "skill image", "ca image", "prepared", "running", "failed",
                  "unbridge", "remove", "unpin", "unverify", "wipe", "over"}

EngineInit ==
  /\ prober = [p \in Prober |-> "idle"] /\ made = [p \in Prober |-> NoDir]
  /\ dirs = {} /\ verified = NoDir /\ superseded = {} /\ leaked = {}
  /\ wanted = NoRef /\ opened = NoRef /\ pin = NoRef /\ mount = "no"
  /\ bridge = FALSE /\ workDir = FALSE /\ helper = "none" /\ vmStage = "probe"
  /\ killer = "none" /\ reported = {}
----------------------------------------------------------------------------
(***************************************************************************)
(* probe().                                                                *)
(***************************************************************************)

At(p, where, then) == prober[p] = where /\ prober' = [prober EXCEPT ![p] = then]

\* Up to the first await: what an earlier probe verified is forgotten before its
\* directory goes.
ProbeBegin(p) ==
  /\ p = "session" => vmStage = "probe"
  /\ IF verified = NoDir
     THEN At(p, "idle", "verifying") /\ UNCHANGED <<made, verified>>
     ELSE /\ At(p, "idle", "clearing")
          /\ made' = [made EXCEPT ![p] = verified] /\ verified' = NoDir
  /\ UNCHANGED <<dirs, superseded, leaked, vmStage>> /\ UNCHANGED backendVars

\* A removal that fails is passed over in silence: all or some of the copies stay.
RemoveMade(p) ==
  /\ made' = [made EXCEPT ![p] = NoDir]
  /\ \/ dirs' = dirs \ {made[p]} /\ leaked' = leaked \ {made[p]}
     \/ made[p] \in dirs /\ leaked' = leaked \cup {made[p]} /\ UNCHANGED dirs

ProbeCleared(p) ==
  /\ At(p, "clearing", "verifying") /\ RemoveMade(p)
  /\ UNCHANGED <<verified, superseded, vmStage>> /\ UNCHANGED backendVars

\* verifyVmTcb() and the path of the helper; then mkdtemp().
ProbeVerified(p) ==
  /\ \/ /\ \E d \in Dir \ (dirs \cup {verified, made["session"], made["other"]}) :
             dirs' = dirs \cup {d} /\ made' = [made EXCEPT ![p] = d]
        /\ At(p, "verifying", "copying")
     \/ At(p, "verifying", "unavailable") /\ UNCHANGED <<dirs, made>>
  /\ UNCHANGED <<verified, superseded, leaked, vmStage>> /\ UNCHANGED backendVars

\* The copies, each hashed as it is read, and the links beside them.
ProbeCopied(p) ==
  /\ At(p, "copying", "checking") \/ At(p, "copying", "discarding")
  /\ UNCHANGED <<made, dirs, verified, superseded, leaked, vmStage>> /\ UNCHANGED backendVars

\* The release manifest and its signature, of which `pair` are there: both must be, and
\* stand the checks, unless neither has to be.
Released(pair, stands) ==
  \/ pair = {"manifest", "signature"} /\ stands
  \/ pair = {} /\ ~Required

\* The gate manifest, the release, the block device feature: all must hold.  The result
\* replaces whatever another probe() has found meanwhile.
ProbeChecked(p) ==
  /\ \E gate, stands, blk \in BOOLEAN, pair \in SUBSET {"manifest", "signature"} :
       IF gate /\ blk /\ Released(pair, stands)
       THEN /\ At(p, "checking", "found")
            /\ superseded' = superseded \cup ({verified} \ {NoDir})
            /\ verified' = made[p] /\ made' = [made EXCEPT ![p] = NoDir]
       ELSE At(p, "checking", "discarding") /\ UNCHANGED <<made, verified, superseded>>
  /\ UNCHANGED <<dirs, leaked, vmStage>> /\ UNCHANGED backendVars

\* Slip: a verdict returned early leaves the copies where they are.
ProbeDiscardedNot(p) ==
  /\ At(p, "discarding", "unavailable") /\ made' = [made EXCEPT ![p] = NoDir]
  /\ UNCHANGED <<dirs, verified, superseded, leaked, vmStage>> /\ UNCHANGED backendVars

\* The copies of a probe that found fault are removed.
ProbeDiscarded(p) ==
  /\ At(p, "discarding", "unavailable") /\ RemoveMade(p)
  /\ UNCHANGED <<verified, superseded, vmStage>> /\ UNCHANGED backendVars

\* The other session ends its probe, and a later one may begin.
ProbeOver ==
  /\ prober["other"] \in {"found", "unavailable"}
  /\ prober' = [prober EXCEPT !["other"] = "idle"]
  /\ UNCHANGED <<made, dirs, verified, superseded, leaked, vmStage>> /\ UNCHANGED backendVars

Probe(p) == \/ ProbeBegin(p) \/ ProbeCleared(p) \/ ProbeVerified(p)
            \/ ProbeCopied(p) \/ ProbeChecked(p) \/ ProbeDiscarded(p)
----------------------------------------------------------------------------
(***************************************************************************)
(* prepare() and spawn() of the backend.                                   *)
(***************************************************************************)

Stage(from, to) == vmStage = from /\ vmStage' = to /\ UNCHANGED probeVars

\* A backend that is not available is not chosen.
Chosen ==
  /\ prober["session"] = "found" /\ Stage("probe", "prepare")
  /\ \E r \in Ref : wanted' = r
  /\ UNCHANGED <<opened, pin, mount, bridge, workDir, helper, killVars>>

\* The checks of the mount paths, the digest and the profile; the work directory.
Prepare ==
  /\ \/ Stage("prepare", "resolve") /\ workDir' = TRUE
     \/ Stage("prepare", "failed") /\ UNCHANGED workDir
  /\ UNCHANGED <<wanted, opened, pin, mount, bridge, helper, killVars>>

\* resolveRootfs(): what the probe verified, the reference, the file.
ResolveRootfs ==
  /\ \/ /\ verified # NoDir /\ wanted \in Qualified
        /\ Stage("resolve", "hash") /\ opened' = wanted
     \/ Stage("resolve", "failed") /\ UNCHANGED opened
  /\ UNCHANGED <<wanted, pin, mount, bridge, workDir, helper, killVars>>

\* The descriptor is hashed and pinned, or closed.
PinRootfs ==
  /\ \/ Stage("hash", "assert") /\ pin' = opened
     \/ Stage("hash", "failed") /\ UNCHANGED pin
  /\ opened' = NoRef
  /\ UNCHANGED <<wanted, mount, bridge, workDir, helper, killVars>>

\* assertRootfsQualified(); then every executable is looked up in the image, mounted for
\* each, unless the process has done so before.
AssertQualified ==
  /\ \/ verified # NoDir /\ wanted \in Qualified
        /\ \/ Stage("assert", "mounted") /\ mount' = "up"
           \/ Stage("assert", "bind") /\ UNCHANGED mount
     \/ Stage("assert", "failed") /\ UNCHANGED mount
  /\ UNCHANGED <<wanted, opened, pin, bridge, workDir, helper, killVars>>

\* Whatever the look found the image is unmounted; a mount that stays ends prepare().
Unmount ==
  /\ \/ (Stage("mounted", "assert") \/ Stage("mounted", "bind") \/ Stage("mounted", "failed"))
        /\ mount' = "no"
     \/ Stage("mounted", "failed") /\ mount' = "stuck"
  /\ UNCHANGED <<wanted, opened, pin, bridge, workDir, helper, killVars>>

\* The bridge tries three paths; a path it cannot bind is unlinked.
BindBridge ==
  /\ \/ Stage("bind", "skill image") /\ bridge' = TRUE
     \/ Stage("bind", "failed") /\ UNCHANGED bridge
  /\ UNCHANGED <<wanted, opened, pin, mount, workDir, helper, killVars>>

\* The verified builder makes the image of the snapshot, then that of the certificate.
BuildImage ==
  /\ \/ verified # NoDir /\ (Stage("skill image", "ca image") \/ Stage("ca image", "prepared"))
     \/ Stage("skill image", "failed") \/ Stage("ca image", "failed")
  /\ UNCHANGED backendVars

\* Everything start() needs to hand the helper what was verified.
MayStart == verified # NoDir /\ wanted \in Qualified /\ pin # NoRef /\ pin = wanted

\* start() up to the spawn does not yield; a helper that does not get ready is killed.
Start ==
  /\ \/ MayStart /\ verified \in dirs /\ Stage("prepared", "running") /\ helper' = "running"
     \/ Stage("prepared", "failed") /\ helper' \in IF MayStart THEN {"none", "gone"} ELSE {"none"}
  /\ UNCHANGED <<wanted, opened, pin, mount, bridge, workDir, killVars>>

HelperEnds ==
  /\ helper = "running" /\ helper' = "gone"
  /\ UNCHANGED <<wanted, opened, pin, mount, bridge, workDir, killVars, vmStage>>
  /\ UNCHANGED probeVars

\* At the timeout or the output cap the helper is killed without waiting for its end, and
\* what that throws is swallowed.
CollectorKills ==
  /\ helper = "running" /\ vmStage = "running" /\ killer = "none"
  /\ killer' \in {"sent", "swallowed"}
  /\ UNCHANGED <<wanted, opened, pin, mount, bridge, workDir, helper, reported, vmStage>>
  /\ UNCHANGED probeVars
----------------------------------------------------------------------------
(***************************************************************************)
(* cleanup() of the backend, and close() of the engine at its end.         *)
(***************************************************************************)

\* The helper is killed and awaited, unless its kill() was called before, which is not
\* repeated; a kill that throws is reported.  Then the socket, the images, the engine.
Cleanup ==
  /\ \E s \in {"prepare", "prepared", "running", "failed"} : Stage(s, "unbridge")
  /\ IF helper = "running" /\ killer = "none"
     THEN \/ helper' = "gone" /\ killer' = "sent" /\ UNCHANGED reported
          \/ killer' = "threw" /\ reported' = reported \cup {"helper"} /\ UNCHANGED helper
     ELSE UNCHANGED <<helper, killVars>>
  /\ UNCHANGED <<wanted, opened, pin, mount, bridge, workDir>>

StopBridge == Stage("unbridge", "remove") /\ bridge' = FALSE
              /\ UNCHANGED <<wanted, opened, pin, mount, workDir, helper, killVars>>

\* A removal that fails is a warning on the console.
RemoveWorkDir ==
  /\ Stage("remove", "unpin")
  /\ \/ workDir' = FALSE /\ UNCHANGED reported
     \/ workDir /\ reported' = reported \cup {"workDir"} /\ UNCHANGED workDir
  /\ UNCHANGED <<wanted, opened, pin, mount, bridge, helper, killer>>

\* The pin is closed; then the directory that is verified now is removed.
Unpin ==
  /\ vmStage = "unpin" /\ pin' = NoRef
  /\ vmStage' = IF verified = NoDir THEN "over" ELSE "unverify"
  /\ made' = [made EXCEPT !["session"] = verified]
  /\ UNCHANGED <<prober, dirs, verified, superseded, leaked>>
  /\ UNCHANGED <<wanted, opened, mount, bridge, workDir, helper, killVars>>

RemoveVerified ==
  /\ vmStage = "unverify" /\ vmStage' = "wipe"
  /\ RemoveMade("session") /\ UNCHANGED <<prober, verified, superseded>>
  /\ UNCHANGED backendVars

\* Whatever is verified by then is forgotten.
Forget ==
  /\ vmStage = "wipe" /\ vmStage' = "over"
  /\ superseded' = superseded \cup ({verified} \cap dirs)
  /\ verified' = NoDir
  /\ UNCHANGED <<prober, made, dirs, leaked>> /\ UNCHANGED backendVars

EngineNext ==
  \/ \E p \in Prober : Probe(p)
  \/ ProbeOver
  \/ Chosen \/ Prepare \/ ResolveRootfs \/ PinRootfs \/ AssertQualified \/ Unmount
  \/ BindBridge \/ BuildImage \/ Start \/ HelperEnds \/ CollectorKills
  \/ Cleanup \/ StopBridge \/ RemoveWorkDir \/ Unpin \/ RemoveVerified \/ Forget

EngineSpec == EngineInit /\ [][EngineNext]_engineVars
----------------------------------------------------------------------------
\* What is verified is on disk for as long as start() or the image builder may use it, and
\* none of it is a directory whose removal failed half way: a re-probe forgets it before
\* removing it, and only close() does it the other way.
VerifiedOnDisk ==
  verified # NoDir => (verified \in dirs /\ verified \notin leaked) \/ vmStage = "wipe"

\* Private copies stay on disk only while they are verified or a probe() works on them,
\* or if two probes overlapped and the later result overwrote the earlier, or if their
\* removal failed.  When cleanup() has ended the pin and the bridge are closed, the work
\* directory is gone or warned of, and so is the helper, dying or reported, unless the
\* collector had called its kill() and swallowed what that threw; a mount stays only if
\* umount refused it, which ended prepare().
EngineReleased ==
  /\ dirs \subseteq {verified, made["session"], made["other"]} \cup superseded \cup leaked
  /\ vmStage = "over" =>
       /\ helper = "running" => killer \in {"sent", "swallowed"} \/ "helper" \in reported
       /\ workDir => "workDir" \in reported
       /\ ~bridge /\ pin = NoRef /\ opened = NoRef /\ mount # "up"
=============================================================================
