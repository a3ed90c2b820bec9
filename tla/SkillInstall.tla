---------------------------- MODULE SkillInstall ----------------------------
(***************************************************************************)
(* One installed skill: its directory, the installation id that is half of *)
(* the key of its grants, and the commands that replace it: `octopus add`  *)
(* (installSkill), `octopus sync` (installFromIndex, removal of what left  *)
(* the index, the cloud export) and `octopus remove`.  A replacement wipes *)
(* the directory and carries the id over in memory; a crash may fall       *)
(* between any two of its writes, and each of them may fail.  One CLI      *)
(* process runs at a time.                                                 *)
(***************************************************************************)
EXTENDS Integers

CONSTANTS
  MaxVersion, \* versions published
  MaxIds      \* bound: installation ids made

InstallAssumption == MaxVersion \in Nat \ {0} /\ MaxIds \in Nat

VARIABLES
  skill,       \* the directory: dir exists, version of SKILL.md (0: none), files complete, id (0: none)
  skillsIndex, \* the published index: listed, version, hasMd
  job,         \* the installation under way: via, version, md (the entry has a SKILL.md), prior
  installAt,   \* its step
  syncPhase,   \* the phase `octopus sync` is in
  ids,         \* ids made so far
  owed,        \* the id the skill had when it was last left whole
  before,      \* the directory when the last installation began
  ended        \* how that installation ended

installVars == <<skill, skillsIndex, job, installAt, syncPhase, ids, owed, before, ended>>

Gone == [dir |-> FALSE, version |-> 0, files |-> FALSE, id |-> 0]
Skills == [dir : BOOLEAN, version : 0..MaxVersion, files : BOOLEAN, id : 0..MaxIds]
Index == [listed : BOOLEAN, version : 1..MaxVersion, hasMd : BOOLEAN]

InstallTypeOK ==
  /\ skill \in Skills /\ before \in Skills /\ skillsIndex \in Index
  /\ job \in [via : {"zip", "index"}, version : 1..MaxVersion, md : BOOLEAN, prior : 0..MaxIds]
  /\ installAt \in {"idle", "download", "validate", "wipe", "fill", "identity", "unlink", "delete"}
  /\ syncPhase \in {"off", "check", "bulk", "remove", "cloud"}
  /\ ids \in 0..MaxIds /\ owed \in 0..MaxIds
  /\ ended \in {"none", "ok", "refused", "failed", "crashed"}

InstallInit ==
  /\ skill = Gone /\ before = Gone
  /\ skillsIndex = [listed |-> TRUE, version |-> 1, hasMd |-> TRUE]
  /\ job = [via |-> "zip", version |-> 1, md |-> TRUE, prior |-> 0]
  /\ installAt = "idle" /\ syncPhase = "off" /\ ids = 0 /\ owed = 0 /\ ended = "none"

\* What a recursive removal that breaks off may leave.
Remains == [dir : {TRUE}, version : {0, skill.version}, files : {FALSE, skill.files},
            id : {0, skill.id}]

Free == installAt = "idle" /\ syncPhase = "off"

\* The id an installation leaves: the one it carries, the one on disk, or a new one.
Ensured(prior) == CASE prior # 0 -> prior
                    [] prior = 0 /\ skill.id # 0 -> skill.id
                    [] OTHER -> ids + 1

\* Both installers write the version they were asked for over the one in SKILL.md.  A
\* SKILL.md without front matter, which no loader takes for a skill, is left out.
Stamped(version, own) == version

Begin(via, version, md, at) ==
  /\ job' = [via |-> via, version |-> version, md |-> md, prior |-> 0]
  /\ installAt' = at /\ before' = skill /\ ended' = "none"

\* installSkill() and installFromIndex() read the id before they wipe the directory.
Peeked == skill.id

\* A file of the id that cannot be read is taken for none: the skill gets a new one.
Proceed ==
  /\ installAt' = "wipe" /\ UNCHANGED <<before, ended>>
  /\ \/ job' = [job EXCEPT !.prior = Peeked] /\ UNCHANGED owed
     \/ job' = [job EXCEPT !.prior = 0] /\ owed' = 0

\* ---- `octopus add`

\* The metadata names the version; an existing directory is refused unless forced.
Add(version, force) ==
  /\ Free /\ (skill.dir => force)
  /\ Begin("zip", version, TRUE, "download")
  /\ UNCHANGED <<skill, skillsIndex, syncPhase, ids, owed>>

Ends(how) ==
  /\ installAt' = "idle" /\ ended' = how
  /\ before' = IF how = "refused" THEN before ELSE Gone
Forget == ended' = "none" /\ before' = Gone

Downloaded ==
  /\ installAt = "download"
  /\ Proceed \/ (Ends("refused") /\ UNCHANGED <<job, owed>>)
  /\ UNCHANGED <<skill, skillsIndex, syncPhase, ids>>

\* ---- the steps both installers share

\* An entry without SKILL.md is refused before anything is touched.
Validate ==
  /\ installAt = "validate"
  /\ IF job.md THEN Proceed ELSE Ends("refused") /\ UNCHANGED <<job, owed>>
  /\ UNCHANGED <<skill, skillsIndex, syncPhase, ids>>

Wipe ==
  /\ installAt = "wipe"
  /\ skill' = [Gone EXCEPT !.dir = TRUE] /\ installAt' = "fill"
  /\ UNCHANGED <<skillsIndex, job, syncPhase, ids, owed, before, ended>>

WipeFails ==
  /\ installAt = "wipe" /\ Ends("failed")
  /\ skill' \in {Gone} \cup (IF skill.dir THEN Remains ELSE {}) /\ owed' = skill'.id
  /\ UNCHANGED <<skillsIndex, job, syncPhase, ids>>

\* Extraction, or the writes of the index's content.  Entries of an archive that break it
\* off or are compressed otherwise are left out without an error, SKILL.md among them, and
\* a version that cannot be stamped stays the archive's own.
Fill ==
  /\ installAt = "fill" /\ installAt' = "identity"
  /\ \E own \in 0..MaxVersion, all \in BOOLEAN :
       \/ own # 0 /\ skill' = [skill EXCEPT !.version = Stamped(job.version, own), !.files = TRUE]
       \/ job.via = "zip" /\ skill' = [skill EXCEPT !.version = own, !.files = all]
  /\ UNCHANGED <<skillsIndex, job, syncPhase, ids, owed, before, ended>>

\* An entry that does not inflate, or a write that fails, throws part way.
FillFails ==
  /\ installAt = "fill" /\ Ends("failed") /\ owed' = 0
  /\ \E own \in IF job.via = "zip" THEN 0..MaxVersion ELSE {0, job.version}, all \in BOOLEAN :
       skill' = [skill EXCEPT !.version = own, !.files = all]
  /\ UNCHANGED <<skillsIndex, job, syncPhase, ids>>

\* restoreInstallationId() or ensureInstallationId(): a temporary file, a rename, and the
\* mode of the file, which may fail after all.
Identify ==
  /\ installAt = "identity" /\ (job.prior = 0 => ids < MaxIds)
  /\ skill' = [skill EXCEPT !.id = Ensured(job.prior)]
  /\ ids' = IF job.prior = 0 THEN ids + 1 ELSE ids
  /\ owed' = IF owed = 0 THEN skill'.id ELSE owed
  /\ Ends("ok") \/ Ends("failed")
  /\ UNCHANGED <<skillsIndex, job, syncPhase>>

IdentifyFails ==
  /\ installAt = "identity" /\ Ends("failed") /\ owed' = skill.id
  /\ UNCHANGED <<skill, skillsIndex, job, syncPhase, ids>>

\* Nothing of an installation survives the process but the directory.
Crash ==
  /\ installAt # "idle"
  /\ Ends("crashed") /\ syncPhase' = "off" /\ owed' = skill.id
  /\ UNCHANGED <<skill, skillsIndex, job, ids>>

\* ---- removal: the id first, at best effort, then the directory

Remove ==
  /\ Free /\ skill.dir
  /\ installAt' = "unlink" /\ Forget
  /\ UNCHANGED <<skill, skillsIndex, job, syncPhase, ids, owed>>

RemoveInstallationId ==
  /\ installAt = "unlink"
  /\ \E id \in {0, skill.id} : skill' = [skill EXCEPT !.id = id]
  /\ installAt' = "delete"
  /\ UNCHANGED <<skillsIndex, job, syncPhase, ids, owed, before, ended>>

Delete ==
  /\ installAt = "delete" /\ installAt' = "idle"
  /\ skill' \in {Gone} \cup Remains /\ owed' = skill'.id
  /\ UNCHANGED <<skillsIndex, job, syncPhase, ids, before, ended>>

\* ---- `octopus sync`

\* Phase 1 compares the installed version with the index.
Behind == skill.version # 0 /\ skillsIndex.listed /\ skillsIndex.version > skill.version

SyncStart ==
  /\ Free /\ syncPhase' = "check"
  /\ UNCHANGED <<skill, skillsIndex, job, installAt, ids, owed, before, ended>>

\* With --check the command ends here; an update is applied from a second download.
Check ==
  /\ syncPhase = "check" /\ installAt = "idle"
  /\ \/ syncPhase' = "off" /\ UNCHANGED <<job, installAt, before, ended>>
     \/ /\ Behind /\ syncPhase' = "bulk"
        /\ Begin("index", skillsIndex.version, skillsIndex.hasMd, "validate")
     \/ syncPhase' = "bulk" /\ UNCHANGED <<job, installAt, before, ended>>
  /\ UNCHANGED <<skill, skillsIndex, ids, owed>>

\* An existing directory is patched: what is missing is written, the id made if there is
\* none or it cannot be read.
Patch ==
  \E known \in {skill.id, 0} :
    /\ known = 0 => ids < MaxIds
    /\ skill' = [skill EXCEPT
         !.files = TRUE, !.id = IF known = 0 THEN ids + 1 ELSE known,
         !.version = IF @ = 0 /\ skillsIndex.hasMd THEN Stamped(skillsIndex.version, 1) ELSE @]
    /\ ids' = IF known = 0 THEN ids + 1 ELSE ids
    /\ owed' = IF owed = 0 \/ known = 0 THEN skill'.id ELSE owed

\* A write that fails ends phase 2: SKILL.md comes last but for the id.
PatchFails ==
  /\ \/ UNCHANGED skill
     \/ \E version \in {skill.version, skillsIndex.version} :
          skill' = [skill EXCEPT !.files = TRUE, !.version = IF @ = 0 THEN version ELSE @]
  /\ UNCHANGED <<ids, owed>>

\* Phase 2 from the index; a category leaves what is not listed alone.
Bulk(force, category) ==
  /\ syncPhase = "bulk" /\ installAt = "idle"
  /\ syncPhase' = IF ~skillsIndex.listed /\ ~category THEN "remove" ELSE "cloud"
  /\ \/ /\ skillsIndex.listed /\ (skill.dir => force)
        /\ Begin("index", skillsIndex.version, skillsIndex.hasMd, "validate")
        /\ UNCHANGED <<skill, ids, owed>>
     \/ /\ skillsIndex.listed /\ skill.dir /\ ~force
        /\ \/ (Patch \/ PatchFails) /\ Forget
           \/ UNCHANGED <<skill, ids, owed, before, ended>>   \* an entry without scripts or files
        /\ UNCHANGED <<job, installAt>>
     \/ ~skillsIndex.listed /\ UNCHANGED <<skill, ids, owed, job, installAt, before, ended>>
  /\ UNCHANGED skillsIndex

\* Without an index each skill is fetched from ClawHub.
BulkFallback(version, force) ==
  /\ syncPhase = "bulk" /\ installAt = "idle" /\ syncPhase' = "cloud"
  /\ \/ (skill.dir => force) /\ Begin("zip", version, TRUE, "download")
     \/ skill.dir /\ ~force /\ UNCHANGED <<job, installAt, before, ended>>
  /\ UNCHANGED <<skill, skillsIndex, ids, owed>>

\* A skill the index no longer lists is removed.
RemoveUnlisted ==
  /\ syncPhase = "remove" /\ installAt = "idle" /\ syncPhase' = "cloud"
  /\ IF skill.version # 0
       THEN installAt' = "unlink" /\ Forget
       ELSE UNCHANGED <<installAt, before, ended>>
  /\ UNCHANGED <<skill, skillsIndex, job, ids, owed>>

\* Phase 3: a newer cloud version, or a forced one, is written over the directory as it is.
Cloud(version, force) ==
  /\ syncPhase = "cloud" /\ installAt = "idle" /\ syncPhase' = "off"
  /\ IF skill.version # 0 /\ ~force /\ skill.version >= version
       THEN UNCHANGED <<skill, before, ended>>
       ELSE /\ Forget
            /\ \/ skill' = [skill EXCEPT !.dir = TRUE, !.version = version, !.files = TRUE]
               \/ \E v \in {0, skill.version, version}, f \in {skill.files, FALSE} :
                    \* the export has no SKILL.md, or a write fails
                    skill' = [skill EXCEPT !.dir = TRUE, !.version = v, !.files = f]
  /\ UNCHANGED <<skillsIndex, job, installAt, ids, owed>>

SyncEnds ==
  /\ syncPhase = "cloud" /\ installAt = "idle" /\ syncPhase' = "off"
  /\ UNCHANGED <<skill, skillsIndex, job, installAt, ids, owed, before, ended>>

\* The daily index is rebuilt.
Publish ==
  /\ skillsIndex' \in Index \ {skillsIndex} /\ skillsIndex'.version >= skillsIndex.version
  /\ UNCHANGED <<skill, job, installAt, syncPhase, ids, owed, before, ended>>

InstallNext ==
  \/ \E version \in 1..MaxVersion, force \in BOOLEAN :
       Add(version, force) \/ BulkFallback(version, force) \/ Cloud(version, force)
  \/ \E force, category \in BOOLEAN : Bulk(force, category)
  \/ Downloaded \/ Validate \/ Wipe \/ WipeFails \/ Fill \/ FillFails
  \/ Identify \/ IdentifyFails \/ Crash
  \/ Remove \/ RemoveInstallationId \/ Delete
  \/ SyncStart \/ Check \/ RemoveUnlisted \/ SyncEnds \/ Publish

InstallSpec == InstallInit /\ [][InstallNext]_installVars

\* However often a skill is updated, patched or reinstalled by force, its
\* installation id is the one it was first given, so its grants stay attached,
\* until it is removed, the file of the id cannot be read, or a crash or a failure
\* interrupts a replacement after its wipe.
IdentityKept == installAt = "idle" => skill.id = owed

\* An installation that is refused, for its download or its entry of the index, leaves the
\* installed skill as it was, files and id.
RefusedLeavesIntact == installAt = "idle" /\ ended = "refused" => skill = before

\* An update from the index that ends well has all its files and the version the index
\* asked for, whatever its own SKILL.md says, so the next sync does not install it again.
\* An archive promises neither: what of it cannot be read is left out.
UpdateSettles ==
  installAt = "idle" /\ ended = "ok" /\ job.via = "index" =>
    skill.version >= job.version /\ skill.files

=============================================================================
