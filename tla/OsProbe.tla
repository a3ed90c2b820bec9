------------------------------ MODULE OsProbe ------------------------------
(***************************************************************************)
(* probeOsCaps(): the OS backend believes a host can isolate only after it *)
(* has done each thing once and undone it.  The phases are independent: a  *)
(* failed one does not stop the next, and a phase that cannot remove what  *)
(* it made is a failure too.                                               *)
(***************************************************************************)
EXTENDS Naturals, Sequences

VARIABLES
  platform,     \* "linux", "darwin", "other"
  sound,        \* the phases this host can really do
  phase,        \* position in Phases
  caps,         \* bits set in OsCaps
  probeErrors,  \* phases that pushed an error
  probeObjs,    \* throwaway objects of the probe that are still there
  ranHelper,    \* the helper was executed
  probed        \* probe() has returned, and what isolationLevel says since

probeVars == <<platform, sound, phase, caps, probeErrors, probeObjs, ranHelper, probed>>

Phases == <<"runtime", "helper", "namespaces", "netns", "nft", "cgroup">>
All == {Phases[i] : i \in DOMAIN Phases}
Throwaway == {"netns", "nft", "cgroup"}
Now == Phases[phase]

fullLevel == IF platform = "linux" /\ caps = All /\ probeErrors = {} THEN "full" ELSE "restricted"

ProbeInit ==
  /\ platform \in {"linux", "darwin", "other"} /\ sound \in SUBSET All
  /\ phase = 1 /\ caps = {} /\ probeErrors = {} /\ probeObjs = {} /\ ranHelper = FALSE
  /\ probed = "no"

\* macOS and others touch nothing
NotLinux ==
  /\ platform # "linux" /\ probed = "no"
  /\ probed' = fullLevel
  /\ UNCHANGED <<platform, sound, phase, caps, probeErrors, probeObjs, ranHelper>>

Running == platform = "linux" /\ phase <= Len(Phases)

\* verifyRuntimeArtifact, verifyHelperArtifact: digest, size and mode
Verify ==
  /\ Running /\ Now \in {"runtime", "helper"}
  /\ caps' = caps \cup ({Now} \cap sound)
  /\ probeErrors' = probeErrors \cup ({Now} \ sound)
  /\ phase' = phase + 1
  /\ UNCHANGED <<platform, sound, probeObjs, ranHelper, probed>>

\* the helper unshares by itself, and only a verified helper is executed
Namespaces ==
  /\ Running /\ Now = "namespaces"
  /\ ranHelper' = ("helper" \in caps)
  /\ IF ranHelper' /\ Now \in sound
       THEN caps' = caps \cup {Now} /\ UNCHANGED probeErrors
       ELSE probeErrors' = probeErrors \cup {Now} /\ UNCHANGED caps
  /\ phase' = phase + 1
  /\ UNCHANGED <<platform, sound, probeObjs, probed>>

\* create, use, remove: a creation that fails leaves nothing to remove, a use that
\* fails still removes
Try ==
  /\ Running /\ Now \in Throwaway
  /\ \E created, removed \in BOOLEAN :
       LET used == created /\ Now \in sound
       IN  /\ caps' = IF used THEN caps \cup {Now} ELSE caps
           /\ probeErrors' = IF used /\ removed THEN probeErrors ELSE probeErrors \cup {Now}
           /\ probeObjs' = IF created /\ ~removed THEN probeObjs \cup {Now} ELSE probeObjs
  /\ phase' = phase + 1
  /\ UNCHANGED <<platform, sound, ranHelper, probed>>

Report ==
  /\ platform = "linux" /\ phase > Len(Phases) /\ probed = "no"
  /\ probed' = fullLevel
  /\ UNCHANGED <<platform, sound, phase, caps, probeErrors, probeObjs, ranHelper>>

ProbeNext == NotLinux \/ Verify \/ Namespaces \/ Try \/ Report

ProbeSpec == ProbeInit /\ [][ProbeNext]_probeVars
-----------------------------------------------------------------------------
ProbeTypeOK ==
  /\ sound \subseteq All /\ caps \subseteq All /\ probeErrors \subseteq All
  /\ phase \in 1..Len(Phases) + 1 /\ probed \in {"no", "full", "restricted"}

\* A host is called fully isolating only when it could do everything, each thing
\* was tried on a helper and a runtime that verified, and the probe left nothing
\* behind; no bit is set for what the host cannot do.
FullIsProven ==
  /\ probed = "full" =>
       platform = "linux" /\ sound = All /\ ranHelper /\ probeObjs = {}
  /\ caps \subseteq sound /\ (ranHelper => "helper" \in sound)
=============================================================================
