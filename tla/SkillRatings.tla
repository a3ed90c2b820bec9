---------------------------- MODULE SkillRatings ----------------------------
(***************************************************************************)
(* The ratings file of one user and what writes it: the RatingStore of     *)
(* each process (registry/src/rating.ts), which reads the file once and    *)
(* then replaces it at every record; `octopus sync` (apps/cli/src/         *)
(* rating-sync.ts), which overwrites it in place; and the gist that the    *)
(* sync of another device writes too.  One skill stands for all; its entry *)
(* keeps a count of invocations and the recent feedback, newest first.     *)
(***************************************************************************)
EXTENDS Integers, Sequences, FiniteSets, SequencesExt

CONSTANTS
  Proc,      \* processes with a RatingStore
  MaxNotes,  \* MAX_FEEDBACK_ENTRIES, 50 in the code
  MaxTime,   \* bound: records made
  MaxRuns    \* bound: the counts that are merged

RatingsAssumption == MaxNotes \in Nat \ {0} /\ MaxTime \in Nat \ {0} /\ MaxRuns \in Nat

VARIABLES
  ratings,   \* ratings.json: absent, torn, old or whole, with its entry
  ratingTmp, \* ratings.json.tmp
  store,     \* the entry each process holds
  saving,    \* where each process is: down, idle, or a step of save()
  now,       \* the clock; each record has an instant of its own
  acked,     \* what the records that returned have recorded, since a record last
             \* replaced a file that its process had taken for none
  writers,   \* who has written ratings.json or its .tmp
  migrating, \* the processes whose save is the one of load() itself
  forgot,    \* those that took a file that is there for none
  gist,      \* the entry in the gist
  device,    \* the entry of the other device
  sync,      \* the step `octopus sync` is at
  syncMode,  \* pull, push, both or force
  syncEntry  \* what it has read

ratingVars == <<ratings, ratingTmp, store, saving, now, acked, writers, migrating, forgot,
                gist, device, sync, syncMode, syncEntry>>

None == [runs |-> 0, notes |-> <<>>]
Entry == [runs : 0..(MaxRuns + MaxTime), notes : SeqOf(1..MaxTime, MaxNotes)]
File == [kind : {"absent", "torn", "old", "whole"}, runs : 0..(MaxRuns + MaxTime),
         notes : SeqOf(1..MaxTime, MaxNotes)]
Empty(kind) == [kind |-> kind, runs |-> 0, notes |-> <<>>]
Absent == Empty("absent")
Torn == Empty("torn")
Old(notes) == [kind |-> "old", runs |-> 0, notes |-> notes]
Whole(e) == [kind |-> "whole", runs |-> e.runs, notes |-> e.notes]
Held(f) == [runs |-> f.runs, notes |-> f.notes]

RatingTypeOK ==
  /\ ratings \in File /\ ratingTmp \in File
  /\ store \in [Proc -> Entry] /\ gist \in Entry /\ device \in Entry /\ syncEntry \in Entry
  /\ saving \in [Proc -> {"down", "idle", "open", "write", "rename"}]
  /\ now \in 0..MaxTime
  /\ acked.runs \in 0..(MaxRuns + MaxTime) /\ acked.notes \subseteq 1..MaxTime
  /\ writers \subseteq Proc \cup {"sync"}
  /\ migrating \subseteq Proc /\ forgot \subseteq Proc
  /\ sync \in {"off", "pull", "overwrite", "read", "version", "push"}
  /\ syncMode \in {"pull", "push", "both", "force"}

RatingInit ==
  /\ \/ ratings = Absent /\ now = 0
     \/ ratings = Old(<<1>>) /\ now = 1
  /\ ratingTmp = Absent
  /\ store = [p \in Proc |-> None] /\ saving = [p \in Proc |-> "down"]
  /\ acked = [runs |-> ratings.runs, notes |-> ToSet(ratings.notes)] /\ writers = {}
  /\ migrating = {} /\ forgot = {}
  /\ gist = None /\ device = None
  /\ sync = "off" /\ syncMode = "both" /\ syncEntry = None
----------------------------------------------------------------------------
(***************************************************************************)
(* Entries.                                                                *)
(***************************************************************************)

\* Slip: the list grows without end.
RecentAll(s) == s

\* The first MaxNotes of a list.
Recent(s) == SubSeq(s, 1, IF Len(s) < MaxNotes THEN Len(s) ELSE MaxNotes)

Invoked(e) == [e EXCEPT !.runs = @ + 1]
Noted(e, t) == [e EXCEPT !.notes = Recent(<<t>> \o @)]

\* mergeFeedback(): sorted by time, newest first, each id once.
NewestFirst(T) ==
  CHOOSE s \in [1..Cardinality(T) -> T] : \A i, j \in 1..Cardinality(T) : i < j => s[i] > s[j]

MergeFeedback(a, b) == Recent(NewestFirst(ToSet(a) \cup ToSet(b)))

\* mergeRatings(): the counts are added, whether or not one includes the other.
MergeRatings(local, cloud) ==
  [runs |-> local.runs + cloud.runs, notes |-> MergeFeedback(local.notes, cloud.notes)]

Mergeable(a, b) == a.runs + b.runs <= MaxRuns
----------------------------------------------------------------------------
(***************************************************************************)
(* RatingStore.  A process runs each method to its end, but not the other  *)
(* processes: between its steps they run.                                  *)
(***************************************************************************)
syncVars == <<gist, device, sync, syncMode, syncEntry>>
loadVars == <<migrating, forgot>>

\* The constructor's load(): a file that does not parse counts as none, and so does one
\* that cannot be read; one in the old format is migrated and saved.
Load(p) ==
  /\ saving[p] = "down" /\ now < MaxTime
  /\ store' = [store EXCEPT ![p] = Held(ratings)]
  /\ saving' = [saving EXCEPT ![p] = IF ratings.kind = "old" THEN "open" ELSE "idle"]
  /\ migrating' = IF ratings.kind = "old" THEN migrating \cup {p} ELSE migrating
  /\ UNCHANGED <<ratings, ratingTmp, now, acked, writers, forgot, syncVars>>

LoadFails(p) ==
  /\ saving[p] = "down" /\ now < MaxTime /\ ratings.kind # "absent"
  /\ saving' = [saving EXCEPT ![p] = "idle"] /\ forgot' = forgot \cup {p}
  /\ UNCHANGED <<ratings, ratingTmp, store, now, acked, writers, migrating, syncVars>>

Record(p, e) ==
  /\ saving[p] = "idle" /\ now < MaxTime
  /\ now' = now + 1
  /\ store' = [store EXCEPT ![p] = e]
  /\ saving' = [saving EXCEPT ![p] = "open"]
  /\ UNCHANGED <<ratings, ratingTmp, acked, writers, loadVars, syncVars>>

RecordInvocation(p) == Record(p, Invoked(store[p]))
RecordFeedback(p) == Record(p, Noted(store[p], now + 1))

\* Slip: the file is written in place.
WriteInPlace(p) ==
  /\ saving[p] = "open"
  /\ ratings' = Torn /\ writers' = writers \cup {p}
  /\ saving' = [saving EXCEPT ![p] = "write"]
  /\ UNCHANGED <<ratingTmp, store, now, acked, loadVars, syncVars>>

\* save(): the .tmp file is truncated, written, and renamed over ratings.json.
OpenTmp(p) ==
  /\ saving[p] = "open"
  /\ ratingTmp' = Torn /\ writers' = writers \cup {p}
  /\ saving' = [saving EXCEPT ![p] = "write"]
  /\ UNCHANGED <<ratings, store, now, acked, loadVars, syncVars>>

WriteTmp(p) ==
  /\ saving[p] = "write"
  /\ ratingTmp' = Whole(store[p])
  /\ saving' = [saving EXCEPT ![p] = "rename"]
  /\ UNCHANGED <<ratings, store, now, acked, writers, loadVars, syncVars>>

Rename(p) ==
  /\ saving[p] = "rename" /\ ratingTmp.kind # "absent"
  /\ ratings' = ratingTmp /\ ratingTmp' = Absent
  /\ acked' = [runs |-> store[p].runs,
                notes |-> ToSet(store[p].notes) \cup IF p \in forgot THEN {} ELSE acked.notes]
  /\ saving' = [saving EXCEPT ![p] = "idle"]
  /\ migrating' = migrating \ {p} /\ forgot' = forgot \ {p}
  /\ UNCHANGED <<store, now, writers, syncVars>>

\* A save that fails, for a full disk or a .tmp that another process has renamed away,
\* throws out of the record; what it was to record stays in memory and goes out with the
\* next save.  In load() the error is caught, and the store is emptied.
SaveFails(p) ==
  /\ saving[p] \in {"open", "write", "rename"}
  /\ saving' = [saving EXCEPT ![p] = "idle"]
  /\ \/ p \notin migrating /\ UNCHANGED <<store, migrating, forgot>>
     \/ /\ p \in migrating /\ migrating' = migrating \ {p}
        /\ store' = [store EXCEPT ![p] = None] /\ forgot' = forgot \cup {p}
  /\ UNCHANGED <<ratings, ratingTmp, now, acked, writers, syncVars>>

Crash(p) ==
  /\ saving[p] # "down"
  /\ saving' = [saving EXCEPT ![p] = "down"] /\ store' = [store EXCEPT ![p] = None]
  /\ migrating' = migrating \ {p} /\ forgot' = forgot \ {p}
  /\ UNCHANGED <<ratings, ratingTmp, now, acked, writers, syncVars>>

\* acked.runs is exact only while one process writes: a later one would count from
\* an older file.
StoreStep ==
  \E p \in Proc : Load(p) \/ LoadFails(p) \/ RecordInvocation(p) \/ RecordFeedback(p) \/ OpenTmp(p)
                    \/ WriteTmp(p) \/ Rename(p) \/ SaveFails(p) \/ Crash(p)
----------------------------------------------------------------------------
(***************************************************************************)
(* runRatingSync() and the other device.                                   *)
(***************************************************************************)
storeVars == <<ratingTmp, store, saving, now, acked, loadVars>>

\* The command is over, and what it had read is gone with it.
SyncOver == sync' = "off" /\ syncMode' = "both" /\ syncEntry' = None

\* The file is read first; one that does not parse ends the command.
SyncStart ==
  /\ sync = "off" /\ ratings.kind # "torn"
  /\ syncMode' \in {"pull", "push", "both", "force"}
  /\ sync' = IF syncMode' = "push" THEN "read" ELSE "pull"
  /\ syncEntry' = Held(ratings)
  /\ UNCHANGED <<storeVars, ratings, writers, gist, device>>

\* The gist has come: the file is overwritten with the merge of it and of what the
\* file held when the command began.
Pulled ==
  /\ sync = "pull" /\ Mergeable(syncEntry, gist)
  /\ syncEntry' = IF syncMode = "force" THEN gist ELSE MergeRatings(syncEntry, gist)
  /\ ratings' = Torn /\ writers' = writers \cup {"sync"}
  /\ sync' = "overwrite"
  /\ UNCHANGED <<storeVars, gist, device, syncMode>>

Overwritten ==
  /\ sync = "overwrite"
  /\ ratings' = Whole(syncEntry)
  /\ IF syncMode = "both" THEN sync' = "read" /\ UNCHANGED <<syncMode, syncEntry>> ELSE SyncOver
  /\ UNCHANGED <<storeVars, writers, gist, device>>

\* A push reads the file again, then asks the gist for its version.
PushRead ==
  /\ sync = "read" /\ ratings.kind \in {"whole", "old"}
  /\ syncEntry' = Held(ratings) /\ sync' = "version"
  /\ UNCHANGED <<storeVars, ratings, writers, gist, device, syncMode>>

Versioned ==
  /\ sync = "version" /\ sync' = "push"
  /\ UNCHANGED <<storeVars, ratings, writers, gist, device, syncMode, syncEntry>>

\* A PATCH that was applied and answered 5xx is sent again.
Push ==
  /\ sync = "push"
  /\ gist' = syncEntry
  /\ SyncOver \/ UNCHANGED <<sync, syncMode, syncEntry>>
  /\ UNCHANGED <<storeVars, ratings, writers, device>>

\* A request is refused, a file is gone, the command is interrupted.
SyncEnds ==
  /\ sync # "off" /\ SyncOver
  /\ UNCHANGED <<storeVars, ratings, writers, gist, device>>

\* The other device records, and syncs in its turn.
DeviceNotes ==
  /\ now < MaxTime /\ now' = now + 1
  /\ device' = Noted(device, now + 1)
  /\ UNCHANGED <<ratings, ratingTmp, store, saving, acked, writers, loadVars, gist, sync, syncMode,
                 syncEntry>>

DeviceSyncs ==
  /\ \/ Mergeable(device, gist) /\ device' = MergeRatings(device, gist) /\ gist' = gist
     \/ gist' = device /\ device' = device
  /\ UNCHANGED <<storeVars, ratings, writers, sync, syncMode, syncEntry>>

SyncStep == SyncStart \/ Pulled \/ Overwritten \/ PushRead \/ Versioned \/ Push \/ SyncEnds
              \/ DeviceNotes \/ DeviceSyncs

RatingNext == StoreStep \/ SyncStep

RatingSpec == RatingInit /\ [][RatingNext]_ratingVars
----------------------------------------------------------------------------
(***************************************************************************)
(* What the ratings promise.                                               *)
(***************************************************************************)

\* As long as one process alone writes the file, it is complete, whenever that process
\* dies, and every record that returned is in it: it counts each invocation, and holds
\* each feedback that newer ones have not pushed out.  The exception is a process whose
\* load could not read the file, or not save what it had migrated: its next record
\* replaces the file, and what is durable then is what it has recorded itself.
RecordsDurable ==
  Cardinality(writers) <= 1 /\ "sync" \notin writers =>
    /\ ratings.kind # "torn"
    /\ ratings.runs >= acked.runs
    /\ \A t \in acked.notes :
         \/ t \in ToSet(ratings.notes)
         \/ Len(ratings.notes) = MaxNotes /\ \A u \in ToSet(ratings.notes) : u > t

\* Whatever is merged, and however often, a feedback is in an entry once, and the
\* newest come first.
FeedbackOnce ==
  \A e \in {ratings, ratingTmp, gist, device, syncEntry} \cup {store[p] : p \in Proc} :
    \A i, j \in 1..Len(e.notes) : i < j => e.notes[i] > e.notes[j]
=============================================================================
