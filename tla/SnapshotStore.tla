--------------------------- MODULE SnapshotStore ---------------------------
(***************************************************************************)
(* The content-addressed store of skill snapshots, snapshot.ts: a session  *)
(* builds the snapshot of a skill (buildSnapshot), later verifies it       *)
(* (verifySnapshot) and then runs its guest on it.                         *)
(*                                                                         *)
(* Sessions of one process, and several processes, build in one store at   *)
(* the same time, while files of the skill are changed, removed and added. *)
(* A step is one call into the file system.  The staging directory is      *)
(* named by digest and process id, so sessions of one process, or of a     *)
(* later process with the same id, share it.  File permissions are left    *)
(* out: whether a read-only file refuses a writer depends on the user, and *)
(* any call may fail anyway.                                               *)
(***************************************************************************)
EXTENDS Naturals

CONSTANTS
  Session,    \* sessions that run one skill
  Pid,
  pidOf,      \* the process id of each session's process
  File,       \* the files of the skill
  Nested,     \* those below a directory of their own
  Edited,     \* bound of the model: those anybody edits
  MaxEdits,   \* bound of the model: how often
  Version,    \* contents of a file
  Truncated,  \* content of a file opened for writing and not yet written
  Absent,     \* content of a file that is not there
  NoTree      \* a directory that is not there

\* The digest of a directory stands for its content.
Digest == [File -> Version \cup {Absent}]
Tree   == [File -> Version \cup {Truncated, Absent}]

Empty    == [f \in File |-> Absent]
Files(t) == {f \in File : t[f] # Absent}

ASSUME SkillAssumption ==
  /\ pidOf \in [Session -> Pid]
  /\ File # {} /\ Nested \subseteq File /\ Edited \subseteq File
  /\ MaxEdits \in Nat
  /\ Truncated \notin Version /\ Absent \notin Version \cup {Truncated}
  /\ NoTree \notin Tree

VARIABLES
  source,   \* the skill's own directory
  pc,       \* the call each session is at
  digest,   \* what walk() has read; the digest once the walk is over
  left,     \* files listed that the current walk or copy has not come to
  copying,  \* the file being copied, as a set of at most one
  handle,   \* where that file is written: nowhere, in staging or in the store
  kept,     \* what it is copied from, if that was removed while it was open
  gone,     \* history: files removed between a session's walk and its rename
  staging,  \* directories <digest>.tmp-<pid>
  store,    \* directories <digest>
  edits     \* how often the skill was edited

vars == <<source, pc, digest, left, copying, handle, kept, gone, staging, store, edits>>

Walking  == {"list", "walk"}
Building == {"mkdir", "relist", "copy", "write", "chmod", "rename"}
Stage    == {"verify", "compare", "mounted", "refused", "failed"} \cup Walking \cup Building

TypeOK ==
  /\ source  \in Digest
  /\ pc      \in [Session -> Stage]
  /\ digest  \in [Session -> Digest]
  /\ left    \in [Session -> SUBSET File]
  /\ copying \in [Session -> SUBSET File]
  /\ handle  \in [Session -> {"no", "staging", "store"}]
  /\ kept    \in [Session -> SUBSET Version]
  /\ gone    \in [Session -> SUBSET File]
  /\ staging \in [Pid \X Digest -> Tree \cup {NoTree}]
  /\ store   \in [Digest -> Tree \cup {NoTree}]
  /\ edits   \in 0..MaxEdits

Init ==
  /\ source  \in Digest
  /\ pc      = [s \in Session |-> "list"]
  /\ digest  = [s \in Session |-> Empty]
  /\ left    = [s \in Session |-> {}]
  /\ copying = [s \in Session |-> {}]
  /\ handle  = [s \in Session |-> "no"]
  /\ kept    = [s \in Session |-> {}]
  /\ gone    = [s \in Session |-> {}]
  /\ staging = [w \in Pid \X Digest |-> NoTree]
  /\ store   = [d \in Digest |-> NoTree]
  /\ edits   = 0

Goto(s, stage) == pc' = [pc EXCEPT ![s] = stage]

\* The next stage of a session that takes f off its list.
Take(s, f, more, done) ==
  /\ left' = [left EXCEPT ![s] = @ \ {f}]
  /\ Goto(s, IF left[s] \subseteq {f} THEN done ELSE more)

\* readdir(): the files there are, and directories that are empty by now.
Listing == {Files(source) \cup dirs : dirs \in SUBSET Nested}

\* Slip: the name of the staging directory lacks the process id.
PlaceOfDigest(s) == <<CHOOSE p \in Pid : TRUE, digest[s]>>

\* The staging directory: `snapshotRoot + '.tmp-' + process.pid`.
Place(s) == <<pidOf[s], digest[s]>>

----------------------------------------------------------------------------
(***************************************************************************)
(* buildSnapshot()                                                         *)
(***************************************************************************)

\* Slip: a stage that nothing continues.
AfterWalkBuilt(d) == IF store[d] = NoTree THEN "mkdir" ELSE "built"

\* existsSync(snapshotRoot): what is there already is taken as it is.
AfterWalk(d) == IF store[d] = NoTree THEN "mkdir" ELSE "verify"

\* walk() lists the skill and then reads it file by file.  A listed file that
\* is gone fails it, a listed directory that is empty does not.  After the
\* last one the store is looked at before anything else can happen.
List(s) ==
  /\ pc[s] = "list"
  /\ \E listed \in Listing :
       /\ left' = [left EXCEPT ![s] = listed]
       /\ Goto(s, IF listed = {} THEN AfterWalk(digest[s]) ELSE "walk")
  /\ UNCHANGED <<source, digest, copying, handle, kept, gone, staging, store, edits>>

Walk(s) ==
  /\ pc[s] = "walk"
  /\ \E f \in left[s] :
       LET d == [digest[s] EXCEPT ![f] = source[f]] IN
       /\ f \in Files(source) \cup Nested
       /\ digest' = [digest EXCEPT ![s] = d]
       /\ Take(s, f, "walk", AfterWalk(d))
  /\ UNCHANGED <<source, copying, handle, kept, gone, staging, store, edits>>

\* mkdir(recursive): a directory that is there is kept as it is.
Made(tree) == IF tree = NoTree THEN Empty ELSE tree

MakeStaging(s) ==
  /\ pc[s] = "mkdir"
  /\ staging' = [staging EXCEPT ![Place(s)] = Made(@)]
  /\ Goto(s, "relist")
  /\ UNCHANGED <<source, digest, left, copying, handle, kept, gone, store, edits>>

\* copyTree() lists the skill once more, whatever walk() has seen.
Relist(s) ==
  /\ pc[s] = "relist"
  /\ \E listed \in Listing :
       /\ left' = [left EXCEPT ![s] = listed]
       /\ Goto(s, IF listed = {} THEN "rename" ELSE "copy")
  /\ UNCHANGED <<source, digest, copying, handle, kept, gone, staging, store, edits>>

\* A listed directory is made before it is read, and with it a staging
\* directory that is gone; there may be no file in it any more.
SkipCopy(s) ==
  /\ pc[s] = "copy"
  /\ \E f \in (left[s] \cap Nested) \ Files(source) : Take(s, f, "copy", "rename")
  /\ staging' = [staging EXCEPT ![Place(s)] = Made(@)]
  /\ UNCHANGED <<source, digest, copying, handle, kept, gone, store, edits>>

\* copyFile() opens the skill's file and creates or truncates the copy.
OpenCopy(s) ==
  /\ pc[s] = "copy"
  /\ \E f \in left[s] \cap Files(source) :
       LET old == staging[Place(s)] IN
       /\ old = NoTree => f \in Nested
       /\ staging' = [staging EXCEPT ![Place(s)] = [Made(old) EXCEPT ![f] = Truncated]]
       /\ left'    = [left EXCEPT ![s] = @ \ {f}]
       /\ copying' = [copying EXCEPT ![s] = {f}]
  /\ handle' = [handle EXCEPT ![s] = "staging"]
  /\ Goto(s, "write")
  /\ UNCHANGED <<source, digest, kept, gone, store, edits>>

\* What a session copies f from: the skill's file, or the one it has open.
Content(s, f) == IF kept[s] = {} THEN {source[f]} \cap Version ELSE kept[s]

\* The copy is written through its handle, wherever the directory is by now.
WriteCopy(s) ==
  /\ pc[s] = "write"
  /\ \E f \in copying[s] : \E v \in Content(s, f) :
       \/ /\ handle[s] = "staging"
          /\ staging' = [staging EXCEPT ![Place(s)] = [@ EXCEPT ![f] = v]]
          /\ UNCHANGED store
       \/ /\ handle[s] = "store"
          /\ store' = [store EXCEPT ![digest[s]] = [@ EXCEPT ![f] = v]]
          /\ UNCHANGED staging
  /\ handle' = [handle EXCEPT ![s] = "no"]
  /\ kept'   = [kept EXCEPT ![s] = {}]
  /\ Goto(s, "chmod")
  /\ UNCHANGED <<source, digest, left, copying, gone, edits>>

\* stat() of the skill's file and chmod() of the copy go by name: both have to
\* be where they were opened.
ChmodCopy(s) ==
  /\ pc[s] = "chmod"
  /\ staging[Place(s)] # NoTree
  /\ copying[s] \subseteq Files(source) \cap Files(staging[Place(s)])
  /\ copying' = [copying EXCEPT ![s] = {}]
  /\ Goto(s, IF left[s] = {} THEN "rename" ELSE "copy")
  /\ UNCHANGED <<source, digest, left, handle, kept, gone, staging, store, edits>>

\* Slip: a directory that is there is replaced.
VacantAlways(d) == TRUE

\* rename() onto a directory that is not empty fails.
Vacant(d) == store[d] \in {NoTree, Empty}

\* Whoever has a file of the staging directory open keeps it open.
Rename(s) ==
  /\ pc[s] = "rename"
  /\ Vacant(digest[s]) /\ staging[Place(s)] # NoTree
  /\ store'   = [store EXCEPT ![digest[s]] = staging[Place(s)]]
  /\ staging' = [staging EXCEPT ![Place(s)] = NoTree]
  /\ handle'  = [t \in Session |-> IF handle[t] = "staging" /\ Place(t) = Place(s)
                                   THEN "store" ELSE handle[t]]
  /\ Goto(s, "verify")
  /\ UNCHANGED <<source, digest, left, copying, kept, gone, edits>>

----------------------------------------------------------------------------
(***************************************************************************)
(* verifySnapshot() and what happens around the sessions.                  *)
(***************************************************************************)

\* The snapshot is listed: a file too few or too many refuses it.
ListRoot(s) ==
  LET d == digest[s] IN
  /\ pc[s] = "verify"
  /\ IF Files(store[d]) = Files(d)
     THEN /\ left' = [left EXCEPT ![s] = Files(d)]
          /\ Goto(s, IF Files(d) = {} THEN "mounted" ELSE "compare")
     ELSE UNCHANGED left /\ Goto(s, "refused")
  /\ UNCHANGED <<source, digest, copying, handle, kept, gone, staging, store, edits>>

\* Slip: the names of the files are compared, not what they hold.
SameName(s, f) == store[digest[s]][f] # Absent

Same(s, f) == store[digest[s]][f] = digest[s][f]

\* Then it is read file by file; mounting follows the last one.
Verify(s) ==
  /\ pc[s] = "compare"
  /\ \E f \in left[s] : IF Same(s, f) THEN Take(s, f, "compare", "mounted")
                                      ELSE left' = [left EXCEPT ![s] = {}] /\ Goto(s, "refused")
  /\ UNCHANGED <<source, digest, copying, handle, kept, gone, staging, store, edits>>

\* Any call may fail, and what it has done so far stays; what walk() has read
\* is dropped.  A crash of the process is such a failure of each of its
\* sessions.
Fail(s) ==
  /\ pc[s] \in {"verify", "compare"} \cup Walking \cup Building
  /\ Goto(s, "failed")
  /\ left'    = [left EXCEPT ![s] = {}]
  /\ copying' = [copying EXCEPT ![s] = {}]
  /\ handle'  = [handle EXCEPT ![s] = "no"]
  /\ kept'    = [kept EXCEPT ![s] = {}]
  /\ IF pc[s] \in Walking
     THEN digest' = [digest EXCEPT ![s] = Empty] /\ gone' = [gone EXCEPT ![s] = {}]
     ELSE UNCHANGED <<digest, gone>>
  /\ UNCHANGED <<source, staging, store, edits>>

CountEdit == edits < MaxEdits /\ edits' = edits + 1

\* The skill is updated, evolved or rolled back: a file is changed in place
\* or added ...
Edit ==
  /\ CountEdit
  /\ \E f \in Edited : \E v \in Version \ {source[f]} : source' = [source EXCEPT ![f] = v]
  /\ UNCHANGED <<pc, digest, left, copying, handle, kept, gone, staging, store>>

\* ... or removed, as an installation does before it fills the directory.
\* Whoever copies it has it open and reads on.
Remove ==
  /\ CountEdit
  /\ \E f \in Edited \cap Files(source) :
       /\ source' = [source EXCEPT ![f] = Absent]
       /\ kept' = [s \in Session |-> IF handle[s] # "no" /\ f \in copying[s] /\ kept[s] = {}
                                     THEN {source[f]} ELSE kept[s]]
       /\ gone' = [s \in Session |-> IF pc[s] \in {"walk"} \cup Building /\ f \in Files(digest[s])
                                     THEN gone[s] \cup {f} ELSE gone[s]]
  /\ UNCHANGED <<pc, digest, left, copying, handle, staging, store>>

Step(s) ==
  \/ List(s) \/ Walk(s) \/ MakeStaging(s) \/ Relist(s) \/ SkipCopy(s) \/ OpenCopy(s)
  \/ WriteCopy(s) \/ ChmodCopy(s) \/ Rename(s) \/ ListRoot(s) \/ Verify(s) \/ Fail(s)

Next == Edit \/ Remove \/ \E s \in Session : Step(s)

Spec == Init /\ [][Next]_vars

----------------------------------------------------------------------------
(***************************************************************************)
(* Correctness.                                                            *)
(***************************************************************************)

\* No two sessions that got as far as to look for d share its staging
\* directory, which is what the process id in its name is for.
Unshared(d) ==
  \A s, t \in Session :
    /\ pc[s] \notin Walking /\ pc[t] \notin Walking
    /\ digest[s] = d /\ digest[t] = d /\ pidOf[s] = pidOf[t]
    => s = t

Intact(d) == store[d] = d

\* A directory becomes visible under its digest with every file of the
\* digest in it, whoever shared the staging directory, whatever was left
\* there by a session that failed, and whoever renamed it away meanwhile.
\* What may be missing is what was removed from the skill while a session
\* that has this digest had read it and not yet published.
PublishedWhole ==
  \A d \in Digest : store[d] # NoTree =>
    \A f \in Files(d) \ Files(store[d]) :
      \E s \in Session : pc[s] \notin Walking /\ digest[s] = d /\ f \in gone[s]

\* A guest runs on exactly the files its session has the digest of, and on
\* exactly their content, however the skill was edited since and whatever
\* failed before: what verifySnapshot() has read cannot change behind it.
\* The content can where sessions share the staging directory, and a
\* directory without a file can be replaced.
MountedIntact ==
  \A s \in Session : pc[s] = "mounted" /\ digest[s] # Empty =>
    /\ Files(store[digest[s]]) = Files(digest[s])
    /\ Unshared(digest[s]) => Intact(digest[s])

\* Nobody copies from a file of the skill that is not there any more.
NoneKept(d) == \A s \in Session : digest[s] = d => kept[s] = {}

\* An intact snapshot stays intact.  Sessions that share a staging directory
\* endanger it only together with an edit of the skill.
IntactStays ==
  [][\A d \in Digest \ {Empty} :
       Intact(d) /\ (Unshared(d) \/ (source = d /\ NoneKept(d))) => Intact(d)']_vars

----------------------------------------------------------------------------
(***************************************************************************)
(* The inductive invariant.                                                *)
(***************************************************************************)

\* A file of the digest that is not in the skill was removed since.
GoneFits ==
  \A s \in Session :
    pc[s] \in {"walk"} \cup Building => Files(digest[s]) \ Files(source) \subseteq gone[s]

\* A session that still builds finds what it has copied in its staging
\* directory, until one of its sharers has published it.
StagingKept ==
  \A s \in Session :
    pc[s] \in {"copy", "write", "chmod", "rename"} /\ Vacant(digest[s]) =>
      \A f \in Files(digest[s]) \ (left[s] \cup gone[s]) :
        staging[Place(s)] # NoTree /\ staging[Place(s)][f] # Absent

\* Handles belong to the session that is writing, and reach the store only
\* from a shared staging directory.
HandlesHeld ==
  \A s \in Session :
    /\ handle[s] # "no" => pc[s] = "write"
    /\ handle[s] = "staging" =>
         /\ staging[Place(s)] # NoTree
         /\ \A f \in copying[s] : staging[Place(s)][f] # Absent
    /\ handle[s] = "store" =>
         /\ store[digest[s]] # NoTree /\ ~Unshared(digest[s])
         /\ \A f \in copying[s] : store[digest[s]][f] # Absent

\* What a session has verified so far is still so.
VerifiedSoFar ==
  \A s \in Session :
    /\ pc[s] \in {"verify", "compare", "mounted"} => store[digest[s]] # NoTree
    /\ pc[s] \in {"compare", "mounted"} /\ digest[s] # Empty =>
         /\ Files(store[digest[s]]) = Files(digest[s])
         /\ Unshared(digest[s]) => \A f \in Files(digest[s]) \ left[s] : Same(s, f)

\* A session has read nothing before it lists the skill, has nothing left to
\* copy when it publishes, and nothing left to read when it mounts.
LeftFits ==
  \A s \in Session : /\ pc[s] = "list" => digest[s] = Empty
                     /\ pc[s] \in {"rename", "mounted"} => left[s] = {}

Inductive ==
  /\ TypeOK /\ LeftFits /\ HandlesHeld /\ GoneFits /\ StagingKept /\ VerifiedSoFar
  /\ PublishedWhole
=============================================================================
