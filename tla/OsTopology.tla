----------------------------- MODULE OsTopology -----------------------------
(***************************************************************************)
(* What one session of the OS backend builds on the host and takes down    *)
(* again: the network namespace with its veth pair and filter table, the   *)
(* verified runtime tree, the control group and its limits, and the helper *)
(* that is put into all three before it is let go.  Any command, write or  *)
(* read-back may fail; the kernel may take a value other than the written  *)
(* one.                                                                    *)
(***************************************************************************)
EXTENDS Integers, Sequences, FiniteSets

CONSTANTS Releases,   \* runtime releases found on the host: [manifest, archive]
          Paths, Bits, NoPath, Outside,   \* what a tree is made of
          MaxAttach   \* attempts to see the helper in its group

TopologyAssumption == MaxAttach \in Nat \ {0} /\ {NoPath, Outside} \cap Paths = {}

VARIABLES
  osStage,    \* how far prepareTopology(), prepare(), spawn() and cleanup() are
  netStep,    \* commands of the setup plan that have succeeded
  network,    \* kernel objects of the session: "netns", "veth", "table"
  grants,     \* ports the table lets out to the proxy, and whether both ways
  netErrs,    \* NetnsHandle.cleanupErrors
  release,    \* the release resolveOsArtifacts() found
  checkNo,    \* checks of verifyRuntimeArtifact() that have passed
  tree,       \* the session's runtime tree, Absent without one
  group,      \* the session's control group: "none", "made", "attached"
  limits,     \* limits the kernel enforces on it
  osHelper,   \* "none", "stopped", "running", "dead"
  tries,      \* attempts of attach()
  reasons,    \* containment reasons of the cleanup pass
  softs,      \* its soft errors
  partial     \* the pass is the one of a failed prepare()

topologyVars == <<osStage, netStep, network, grants, netErrs, release, checkNo,
                  tree, group, limits, osHelper, tries, reasons, softs, partial>>

-----------------------------------------------------------------------------
(* The runtime release: a manifest and an archive that may not be what it says *)

Absent == [p \in {} |-> {}]
Entry == [kind : {"file", "directory", "symlink"}, bits : Bits, executable : BOOLEAN,
          shared : BOOLEAN, target : Paths \cup {NoPath, Outside}, needs : SUBSET Paths]

\* the strict schema: unique paths, targets for links only, and nothing that is
\* executed may be writable for others
SchemaValid(m) ==
  /\ m.unique /\ DOMAIN m.files # {}
  /\ \A p \in DOMAIN m.files :
       /\ (m.files[p].kind = "symlink") <=> (m.files[p].target # NoPath)
       /\ m.files[p].kind = "file" /\ m.files[p].executable => ~m.files[p].shared

DigestMatches(r) == r.archive.digest = r.manifest.digest

\* walkTree: a link resolves inside the root, as the chroot resolves it
LinksStay(t) == \A p \in DOMAIN t : t[p].target # Outside

ModeWithin(e, declared) ==
  (e.executable => declared.executable) /\ (e.shared => declared.shared)

\* verifyTree: what is declared is there and is what it was declared to be;
\* nothing else is
EntriesMatch(m, t) ==
  \A p \in DOMAIN m.files :
    /\ p \in DOMAIN t /\ t[p].kind = m.files[p].kind
    /\ t[p].kind = "file" => t[p].bits = m.files[p].bits
    /\ IF t[p].kind = "symlink" THEN t[p].target = m.files[p].target
                                ELSE ModeWithin(t[p], m.files[p])

NothingUndeclared(m, t) == DOMAIN t \subseteq DOMAIN m.files

\* verifyElfClosure: the node binary is an executable file whose loader and
\* libraries, as its headers name them, are entries that are not directories
ElfNeeds(t, p) == t[p].needs
Closed(m, t) ==
  /\ m.node \in DOMAIN m.files
  /\ m.files[m.node].kind = "file" /\ m.files[m.node].executable
  /\ \A lib \in ElfNeeds(t, m.node) :
       lib \in DOMAIN m.files /\ m.files[lib].kind # "directory"

\* the checks in the order they are made; the tree is on disk from the third on
Passes(k) ==
  LET m == release.manifest
      t == release.archive.tree
  IN  CASE k = 1 -> SchemaValid(m)
        [] k = 2 -> DigestMatches(release)
        [] k = 3 -> TRUE
        [] k = 4 -> LinksStay(t)
        [] k = 5 -> EntriesMatch(m, t)
        [] k = 6 -> NothingUndeclared(m, t)
        [] k = 7 -> Closed(m, t)

-----------------------------------------------------------------------------
(* prepareTopology(): the network *)

Plan == <<"netns", "veth", "move", "proxyAddr", "skillAddr", "hostUp", "loUp",
          "skillUp", "table", "port">>
Objects == {"netns", "veth", "table"}
Drop == [out |-> {}, back |-> {}]   \* buildInitialNftRules lets nothing through

TopologyInit ==
  /\ osStage = "setup" /\ netStep = 0 /\ network = {} /\ grants = Drop /\ netErrs = {}
  /\ release \in Releases /\ checkNo = 0 /\ tree = Absent
  /\ group = "none" /\ limits = {} /\ osHelper = "none" /\ tries = 0
  /\ reasons = {} /\ softs = {} /\ partial = FALSE

SetupStep ==
  /\ osStage = "setup" /\ netStep < Len(Plan)
  /\ netStep' = netStep + 1
  /\ network' = network \cup ({Plan[netStep + 1]} \cap Objects)
  /\ osStage' = IF netStep' = Len(Plan) THEN "topology" ELSE "setup"
  /\ UNCHANGED <<grants, netErrs, release, checkNo, tree, group, limits, osHelper,
                 tries, reasons, softs, partial>>

\* The three deletes of the namespace's cleanup(), each refused or not.  With the
\* namespace go its table and its end of the pair, unless a process still holds it.
Survivors(refused) ==
  LET named == network \cap refused
  IN  IF osHelper = "running" THEN network \ ({"veth"} \ refused)
      ELSE IF "netns" \in named \/ "netns" \notin network THEN named
      ELSE IF netStep >= 3 THEN {} ELSE named

DeleteNetwork ==
  \E refused \in SUBSET Objects :
    /\ network' = Survivors(refused)
    /\ netErrs' = network \cap refused

\* A command of the plan fails: the partial network is torn down and setupNetns
\* throws.  There is no handle: nobody can read its cleanupErrors.
SetupFails ==
  /\ osStage = "setup" /\ netStep < Len(Plan)
  /\ DeleteNetwork
  /\ osStage' = "noTopology"
  /\ UNCHANGED <<netStep, grants, release, checkNo, tree, group, limits, osHelper,
                 tries, reasons, softs, partial>>

-----------------------------------------------------------------------------
(* prepare(): the proxy's port, the tree, the group *)

\* Options, coordinates and read-back come before the try: they throw, and the
\* network stays with the backend until cleanup()
Authorize ==
  /\ osStage = "topology"
  /\ \E out, back \in SUBSET {"proxy"} :
       /\ grants' = [out |-> out, back |-> back]
       /\ osStage' = IF out = {"proxy"} /\ back = {"proxy"} THEN "root" ELSE "held"
  /\ UNCHANGED <<netStep, network, netErrs, release, checkNo, tree, group, limits,
                 osHelper, tries, reasons, softs, partial>>

PrepareRefused ==
  /\ osStage = "topology" /\ osStage' = "held"
  /\ UNCHANGED <<netStep, network, grants, netErrs, release, checkNo, tree, group,
                 limits, osHelper, tries, reasons, softs, partial>>

\* prepare() fails inside its try and cleans up itself.  assembleRootfs and
\* createLimitedCgroup have removed what they made, the group at best.
Fails(treeLeft, groupLeft) ==
  /\ osStage' = "kill" /\ partial' = TRUE
  /\ tree' = treeLeft /\ group' = groupLeft
  /\ limits' = IF groupLeft = "none" THEN {} ELSE limits
  /\ UNCHANGED <<netStep, network, grants, netErrs, release, checkNo, osHelper,
                 tries, reasons, softs>>

CheckPasses ==
  /\ osStage = "root" /\ checkNo < 7 /\ Passes(checkNo + 1)
  /\ checkNo' = checkNo + 1
  /\ tree' = IF checkNo' = 3 THEN release.archive.tree ELSE tree
  /\ osStage' = IF checkNo' = 7 THEN "group" ELSE "root"
  /\ UNCHANGED <<netStep, network, grants, netErrs, release, group, limits, osHelper,
                 tries, reasons, softs, partial>>

\* a check refuses, or a file cannot be read, unpacked or made
RootFails == osStage = "root" /\ Fails(Absent, "none")

MakeGroup ==
  /\ osStage = "group" /\ group' = "made" /\ osStage' = "limits"
  /\ UNCHANGED <<netStep, network, grants, netErrs, release, checkNo, tree, limits,
                 osHelper, tries, reasons, softs, partial>>

Limits == <<"memory.max", "memory.swap.max", "pids.max", "cpu.max">>
LimitsDone == Cardinality(limits) = Len(Limits)

\* written, read back and found to be what was written
WriteLimit ==
  /\ osStage = "limits" /\ ~LimitsDone
  /\ limits' = limits \cup {Limits[Cardinality(limits) + 1]}
  /\ UNCHANGED <<osStage, netStep, network, grants, netErrs, release, checkNo, tree,
                 group, osHelper, tries, reasons, softs, partial>>

\* cgroup.kill and cgroup.events are there, and so is the launch-spec directory
Delegated ==
  /\ osStage = "limits" /\ LimitsDone
  /\ osStage' = "prepared"
  /\ UNCHANGED <<netStep, network, grants, netErrs, release, checkNo, tree, group,
                 limits, osHelper, tries, reasons, softs, partial>>

\* no group, or the best effort to remove it, which may leave it behind
GroupFails ==
  \/ osStage = "group" /\ Fails(tree, "none")
  \/ osStage = "limits" /\ \E left \in {"none", "abandoned"} : Fails(tree, left)

-----------------------------------------------------------------------------
(* spawn(): the helper stops itself, is put into the group, and goes on *)

Spawn ==
  /\ osStage = "prepared" /\ osHelper = "none"
  /\ osHelper' = "stopped" /\ osStage' = "attach" /\ tries' = 0
  /\ UNCHANGED <<netStep, network, grants, netErrs, release, checkNo, tree, group,
                 limits, reasons, softs, partial>>

\* one write of cgroup.procs and one look at it; the tenth miss gives up and
\* kills the stopped helper
AttachTry ==
  /\ osStage = "attach"
  /\ tries' = tries + 1
  /\ \/ group' = "attached" /\ osStage' = "continue" /\ UNCHANGED osHelper
     \/ /\ UNCHANGED group
        /\ IF tries' = MaxAttach THEN osStage' = "held" /\ osHelper' = "dead"
                                 ELSE UNCHANGED <<osStage, osHelper>>
  /\ UNCHANGED <<netStep, network, grants, netErrs, release, checkNo, tree, limits,
                 reasons, softs, partial>>

Continue ==
  /\ osStage = "continue" /\ osStage' = "active"
  /\ osHelper' = "running"
  /\ UNCHANGED <<netStep, network, grants, netErrs, release, checkNo, tree, group,
                 limits, tries, reasons, softs, partial>>

HelperEnds ==
  /\ osHelper = "running" /\ osStage = "active" /\ osHelper' = "dead"
  /\ UNCHANGED <<osStage, netStep, network, grants, netErrs, release, checkNo, tree,
                 group, limits, tries, reasons, softs, partial>>

-----------------------------------------------------------------------------
(* cleanup(): group, tree, network, in this order whatever fails *)

Cleanup ==
  /\ osStage \in {"topology", "held", "prepared", "active"} /\ osStage' = "kill"
  /\ UNCHANGED <<netStep, network, grants, netErrs, release, checkNo, tree, group,
                 limits, osHelper, tries, reasons, softs, partial>>

\* kill() and waitEmpty(); both are tried, and each failure is a reason.  An
\* emptied group is one whose processes are gone.
KillGroup ==
  /\ osStage = "kill" /\ osStage' = "files"
  /\ \E killed, emptied \in BOOLEAN :
       /\ emptied /\ osHelper = "running" => killed
       /\ reasons' = IF group \in {"none", "abandoned"} THEN {}
                     ELSE {r \in {"kill", "waitEmpty"} :
                             IF r = "kill" THEN ~killed ELSE ~emptied}
       /\ osHelper' = IF osHelper = "running" /\ emptied THEN "dead" ELSE osHelper
  /\ UNCHANGED <<netStep, network, grants, netErrs, release, checkNo, tree, group,
                 limits, tries, softs, partial>>

\* the group's directory, which a process in it keeps, and the tree: soft errors
RemoveFiles ==
  /\ osStage = "files" /\ osStage' = "network"
  /\ \E groupGone, treeGone \in BOOLEAN :
       /\ groupGone => osHelper # "running"
       /\ group' = IF group # "abandoned" /\ groupGone THEN "none" ELSE group
       /\ tree' = IF treeGone THEN Absent ELSE tree
       /\ softs' = IF treeGone \/ tree = Absent THEN {} ELSE {"tree"}
  /\ UNCHANGED <<netStep, network, grants, netErrs, release, checkNo, limits, osHelper,
                 tries, reasons, partial>>

EndCleanup ==
  /\ osStage = "network" /\ osStage' = "cleaned"
  /\ DeleteNetwork
  /\ UNCHANGED <<netStep, grants, release, checkNo, tree, group, limits, osHelper,
                 tries, reasons, softs, partial>>

TopologyNext ==
  \/ SetupStep \/ SetupFails \/ PrepareRefused \/ Authorize \/ CheckPasses \/ RootFails
  \/ MakeGroup \/ WriteLimit \/ Delegated \/ GroupFails \/ Spawn \/ AttachTry \/ Continue
  \/ HelperEnds \/ Cleanup \/ KillGroup \/ RemoveFiles \/ EndCleanup

TopologySpec == TopologyInit /\ [][TopologyNext]_topologyVars
-----------------------------------------------------------------------------
TopologyTypeOK ==
  /\ osStage \in {"setup", "noTopology", "topology", "held", "root", "group", "limits",
                  "prepared", "attach", "continue", "active", "kill", "files",
                  "network", "cleaned"}
  /\ netStep \in 0..Len(Plan) /\ network \subseteq Objects /\ netErrs \subseteq Objects
  /\ checkNo \in 0..7 /\ tries \in 0..MaxAttach
  /\ tree = Absent \/ tree = release.archive.tree
  /\ group \in {"none", "made", "attached", "abandoned"}
  /\ osHelper \in {"none", "stopped", "running", "dead"}

\* The helper goes on, and with it the skill, only inside everything that was
\* built for it: in its group, under all four limits, in a namespace whose table
\* lets out to the proxy and back from it, and on a tree that is, entry for entry,
\* what the manifest of the release declares, with every library of its node.
ConfinedBeforeContinue ==
  osStage = "active" /\ osHelper = "running" =>
    /\ group = "attached" /\ LimitsDone
    /\ network = Objects /\ grants.out = {"proxy"} /\ grants.back = {"proxy"}
    /\ LET declared == release.manifest.files
       IN  /\ DOMAIN tree = DOMAIN declared
           /\ \A p \in DOMAIN tree :
                /\ tree[p].kind = declared[p].kind
                /\ tree[p].kind = "file" => tree[p].bits = declared[p].bits
                /\ tree[p].target \notin {Outside}
                /\ tree[p].kind = "file" /\ tree[p].executable => ~tree[p].shared
           /\ ElfNeeds(tree, release.manifest.node) \subseteq DOMAIN tree

\* What a session leaves on the host when it is over is accounted for: a process
\* by a containment reason, a group by one or by the failure that abandoned it, a
\* tree by a soft error, and a network object by a recorded error or by the process
\* that holds it.  The errors of the network are not containment reasons: cleanup()
\* resolves with them.
LeftoversAccounted ==
  /\ osStage = "cleaned" =>
       /\ osHelper = "running" => reasons # {} /\ ~partial
       /\ tree # Absent => softs # {}
       /\ group = "abandoned" => partial
       /\ network # {} => netErrs # {} \/ reasons # {}
  /\ osStage = "noTopology" => network \subseteq netErrs
=============================================================================
