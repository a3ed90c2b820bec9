----------------------------- MODULE SkillCache ------------------------------
(***************************************************************************)
(* The skill registry's load() (registry/src/registry.ts) and its cache    *)
(* file, with the processes of the CLI, the gateway and the web server     *)
(* loading one directory of skills that others edit.  The cache is valid   *)
(* for a hash of the files' names and modification times, which the load   *)
(* that writes it computes after it has read the files.                    *)
(***************************************************************************)
EXTENDS Integers, FiniteSets

CONSTANTS
  Loader,    \* processes that load the registry, once each
  SkillFile, \* SKILL.md files, of a skill each
  MaxContent,\* the contents a file can have are numbered in the order they are written
  Malformed, \* those whose front matter fails the schema, half-written ones among them
  MaxTicks   \* bound on the clock of modification times

CacheAssumption ==
  /\ MaxContent \in Nat \ {0} /\ MaxTicks \in Nat \ 0..1
  /\ Malformed \subseteq 2..MaxContent

VARIABLES
  disk,      \* each file's content, 0 if there is no file, and the time of its last write
  written,   \* the number of contents written
  tick,      \* the clock that stamps the writes
  cacheFile, \* .registry-cache.json: none, torn, or a hash and the skills under it
  loader,    \* the step of load() each process is at
  listed,    \* the files its first glob found
  unread,    \* the files its second glob found that it has still to read
  hashed,    \* the hash it is saving the cache under
  skillMap,  \* the skills it has: the content each comes from, 0 if it has none
  restored,  \* whether they come from the cache
  during,    \* every content each file has had since the load began
  masked,    \* the changes a hash cannot tell from the content read before them
  unseen     \* the contents a load failed to read, and passed over

cacheVars == <<disk, written, tick, cacheFile, loader, listed, unread, hashed, skillMap,
               restored, during, masked, unseen>>

Contents == 0..MaxContent
Hashes == UNION {[F -> 0..MaxTicks] : F \in SUBSET SkillFile}
NoCache == [state |-> "none"]
TornCache == [state |-> "torn"]
Cached(h, s) == [state |-> "whole", hash |-> h, skills |-> s]

CacheTypeOK ==
  /\ disk \in [SkillFile -> [content : Contents, at : 1..MaxTicks]]
  /\ written \in Contents /\ tick \in 2..MaxTicks
  /\ \/ cacheFile \in {NoCache, TornCache}
     \/ /\ cacheFile = Cached(cacheFile.hash, cacheFile.skills)
        /\ cacheFile.hash \in Hashes /\ cacheFile.skills \in [SkillFile -> Contents]
  /\ loader \in [Loader -> {"new", "listing", "finding", "reading", "saving", "loaded"}]
  /\ \A p \in Loader :
       /\ listed[p] \subseteq SkillFile /\ unread[p] \subseteq SkillFile
       /\ hashed[p] \in Hashes /\ skillMap[p] \in [SkillFile -> Contents]
       /\ restored[p] \in BOOLEAN /\ during[p] \in [SkillFile -> SUBSET Contents]
  /\ masked \subseteq SkillFile \X Contents /\ unseen \subseteq SkillFile \X Contents

NoSkill == [f \in SkillFile |-> 0]
NoHash == [f \in {} |-> 0]

CacheInit ==
  /\ disk = [f \in SkillFile |-> [content |-> 1, at |-> 1]]
  /\ written = 1 /\ tick = 2 /\ cacheFile = NoCache /\ masked = {} /\ unseen = {}
  /\ loader = [p \in Loader |-> "new"]
  /\ listed = [p \in Loader |-> {}] /\ unread = [p \in Loader |-> {}]
  /\ hashed = [p \in Loader |-> NoHash]
  /\ skillMap = [p \in Loader |-> NoSkill] /\ restored = [p \in Loader |-> FALSE]
  /\ during = [p \in Loader |-> [f \in SkillFile |-> {}]]

OnDisk == {f \in SkillFile : disk[f].content # 0}

\* The skill loadSkillsFromDir() makes of a content: none when there is no file, or when
\* its front matter fails the schema.
Loaded(content) == IF content \in Malformed THEN 0 ELSE content

\* Slip: the names alone.
FilesHashNames(F) == [f \in F |-> 0]

\* computeFilesHash(): the names and the modification times, 0 for a file that is gone.
FilesHash(F) == [f \in F |-> IF f \in OnDisk THEN disk[f].at ELSE 0]

----------------------------------------------------------------------------
(***************************************************************************)
(* The editors: installation, sync, evolution and people write the files   *)
(* in place or remove them.                                                *)
(***************************************************************************)

\* A change of f is masked when it falls between a load's read of it and its hash, or
\* within the tick of the clock that stamped the content before it; and so is the
\* removal of a file that only the second glob of a load found, not the one it hashes.
Masked(f, content) ==
  \/ \E p \in Loader : loader[p] = "reading" /\ f \notin unread[p]
  \/ disk[f].at = tick
  \/ content = 0 /\ \E p \in Loader : skillMap[p][f] # 0 /\ f \notin listed[p]

Becomes(f, content) ==
  /\ disk' = [disk EXCEPT ![f] = [content |-> content, at |-> tick]]
  /\ during' = [p \in Loader |-> IF loader[p] \in {"new", "loaded"} THEN during[p]
                                 ELSE [during[p] EXCEPT ![f] = @ \cup {content}]]
  /\ masked' = IF Masked(f, content) THEN masked \cup {<<f, content>>} ELSE masked
  /\ UNCHANGED <<tick, cacheFile, loader, listed, unread, hashed, skillMap, restored, unseen>>

Edit(f) ==
  /\ written < MaxContent /\ written' = written + 1
  /\ Becomes(f, written + 1)

Delete(f) == f \in OnDisk /\ Becomes(f, 0) /\ UNCHANGED written

Tick ==
  /\ tick < MaxTicks /\ tick' = tick + 1
  /\ UNCHANGED <<disk, written, cacheFile, loader, listed, unread, hashed, skillMap,
                 restored, during, masked, unseen>>
----------------------------------------------------------------------------
(***************************************************************************)
(* load().                                                                 *)
(***************************************************************************)

\* Process p goes from one step of load() to another; the files stay as they are.
Goes(p, from, to) ==
  /\ loader[p] = from /\ loader' = [loader EXCEPT ![p] = to]
  /\ UNCHANGED <<disk, written, tick, masked>>

Begin(p) ==
  /\ Goes(p, "new", "listing")
  /\ during' = [during EXCEPT ![p] = [f \in SkillFile |-> {disk[f].content}]]
  /\ UNCHANGED <<cacheFile, listed, unread, hashed, skillMap, restored, unseen>>

\* The first glob has its answer; one that fails rejects load(), which ends there.
List(p) ==
  /\ Goes(p, "listing", "finding")
  /\ listed' = [listed EXCEPT ![p] = OnDisk]
  /\ UNCHANGED <<cacheFile, unread, hashed, skillMap, restored, during, unseen>>

\* The cache is taken if it is for the hash of these files and a skill comes out of it.
Hit(p) ==
  /\ cacheFile.state = "whole" /\ cacheFile.hash = FilesHash(listed[p])
  /\ cacheFile.skills # NoSkill
  /\ Goes(p, "finding", "loaded")
  /\ skillMap' = [skillMap EXCEPT ![p] = cacheFile.skills]
  /\ restored' = [restored EXCEPT ![p] = TRUE]
  /\ UNCHANGED <<cacheFile, listed, unread, hashed, during, unseen>>

\* With no cache, a torn one or one for another hash, or with registry.noCache, which
\* passes a good one by too, a second glob finds the files to read.  One that fails finds
\* none, without an error.
Miss(p) ==
  /\ Goes(p, "finding", "reading")
  /\ \/ unread' = [unread EXCEPT ![p] = OnDisk] /\ UNCHANGED unseen
     \/ /\ unread' = [unread EXCEPT ![p] = {}]
        /\ unseen' = unseen \cup {<<f, disk[f].content>> : f \in OnDisk}
  /\ UNCHANGED <<cacheFile, listed, hashed, skillMap, restored, during>>

\* A file that cannot be read is passed over like one that does not parse.
ReadFile(p, f) ==
  /\ f \in unread[p] /\ Goes(p, "reading", "reading")
  /\ unread' = [unread EXCEPT ![p] = @ \ {f}]
  /\ \/ skillMap' = [skillMap EXCEPT ![p][f] = Loaded(disk[f].content)] /\ UNCHANGED unseen
     \/ /\ skillMap' = [skillMap EXCEPT ![p][f] = 0]
        /\ unseen' = unseen \cup {<<f, disk[f].content>>}
  /\ UNCHANGED <<cacheFile, listed, hashed, restored, during>>

\* The files of the first glob are hashed again, and the cache file is opened, which
\* empties it; a failure to open it is passed over.
Hash(p) ==
  /\ unread[p] = {} /\ Goes(p, "reading", "saving")
  /\ hashed' = [hashed EXCEPT ![p] = FilesHash(listed[p])]
  /\ cacheFile' \in {TornCache, cacheFile}
  /\ UNCHANGED <<listed, unread, skillMap, restored, during, unseen>>

\* The cache is written, or the write fails, or the process ends before it.
Save(p) ==
  /\ Goes(p, "saving", "loaded")
  /\ cacheFile' \in {Cached(hashed[p], skillMap[p]), cacheFile}
  /\ UNCHANGED <<listed, unread, hashed, skillMap, restored, during, unseen>>

CacheNext ==
  \/ \E f \in SkillFile : Edit(f) \/ Delete(f)
  \/ Tick
  \/ \E p \in Loader : Begin(p) \/ List(p) \/ Hit(p) \/ Miss(p) \/ Hash(p) \/ Save(p)
  \/ \E p \in Loader, f \in SkillFile : ReadFile(p, f)

CacheSpec == CacheInit /\ [][CacheNext]_cacheVars
----------------------------------------------------------------------------
(***************************************************************************)
(* What the cache promises.                                                *)
(***************************************************************************)

\* Whatever is edited while registries load and whichever cache writes fail, a load has
\* each skill as its file was at some point of that load: no skill from before it, none
\* of a file that was gone throughout, none missing that was there throughout.  Two
\* exceptions: a skill is missing of a file that the load failed to read; and a load that
\* comes from the cache may differ in a file with a change a hash cannot tell from the
\* content before it, or with a content that some load failed to read, for what is missing
\* is cached under the hash of the files that are there.
CacheFresh ==
  \A p \in Loader, f \in SkillFile : loader[p] = "loaded" =>
    \/ skillMap[p][f] \in {Loaded(content) : content \in during[p][f]}
    \/ skillMap[p][f] = 0 /\ \E content \in during[p][f] : <<f, content>> \in unseen
    \/ restored[p] /\ \E content \in during[p][f] : <<f, content>> \in masked \cup unseen
=============================================================================
