--------------------------- MODULE SkillEvolution ---------------------------
(***************************************************************************)
(* The evolution of one skill (packages/skills/src/evolution): changes are *)
(* proposed to its SKILL.md; the safe ones are applied, the risky ones     *)
(* wait in proposal.md for a person; and before each change the file is    *)
(* copied to a numbered snapshot.  The numbers count from one in every     *)
(* process.  The host applies proposals; `octopus evolve` (apps/cli/src/   *)
(* evolve.ts) is a process of its own at every command.                    *)
(***************************************************************************)
EXTENDS Integers, FiniteSets, Functions

CONSTANTS
  Change,     \* changes that can be proposed
  Risky,      \* those of risk `risky`
  MaxHistory, \* snapshots kept by applyChanges(), 20 in the code
  MaxSeq      \* bound: snapshots one process makes

EvolutionAssumption == Risky \subseteq Change /\ MaxHistory \in Nat \ {0} /\ MaxSeq \in Nat

VARIABLES
  skillMd,  \* the changes SKILL.md has
  history,  \* .evolution/history: what SKILL.md had, by number
  seqOf,    \* globalSeq of the host and of the running command
  author,   \* who has made the snapshots: none, host, cli, or many
  proposal, \* the changes in proposal.md
  asked,    \* what `octopus evolve` waits for: no, review or rollback
  seen,     \* the proposal it has shown
  index,    \* the snapshot it is to go back to, counted from 0
  approved, \* the changes a person has approved or written
  replaced  \* what SKILL.md had before the last change or rollback, if it was changed

evolutionVars == <<skillMd, history, seqOf, author, proposal, asked, seen, index, approved, replaced>>

Process == {"host", "cli"}
Content == SUBSET Change

EvolutionTypeOK ==
  /\ skillMd \in Content /\ proposal \in Content /\ seen \in Content /\ approved \in Content
  /\ DOMAIN history \subseteq 1..MaxSeq /\ \A n \in DOMAIN history : history[n] \in Content
  /\ seqOf \in [Process -> 0..MaxSeq]
  /\ author \in {"none", "gone", "many"} \cup Process
  /\ asked \in {"no", "review", "rollback"} /\ index \in 0..MaxSeq
  /\ replaced \in {{}} \cup {{c} : c \in Content}

EvolutionInit ==
  /\ skillMd = {} /\ history = << >> /\ seqOf = [p \in Process |-> 0] /\ author = "none"
  /\ proposal = {} /\ asked = "no" /\ seen = {} /\ index = 0 /\ approved = {} /\ replaced = {}
----------------------------------------------------------------------------
(***************************************************************************)
(* Snapshots.                                                              *)
(***************************************************************************)

\* listSnapshots(): in the order of their numbers, counted from 0.
SnapshotAt(h, i) == CHOOSE n \in DOMAIN h : Cardinality({m \in DOMAIN h : m < n}) = i

\* The oldest snapshots are removed until max are left.
Pruned(h, max) ==
  Restrict(h, {n \in DOMAIN h : Cardinality({m \in DOMAIN h : m > n}) < max})

\* shadowCopy(): a snapshot of the same number is overwritten.
Snapshots(p, max) ==
  LET new == seqOf[p] + 1
  IN  Pruned([n \in DOMAIN history \cup {new} |-> IF n = new THEN skillMd ELSE history[n]], max)

ShadowCopy(p, max) ==
  /\ seqOf[p] < MaxSeq
  /\ history' = Snapshots(p, max)
  /\ seqOf' = [seqOf EXCEPT ![p] = @ + 1]
  /\ author' = IF author \in {"none", p} THEN p ELSE "many"
  /\ replaced' = {skillMd}

NoCopy == UNCHANGED <<history, seqOf, author, replaced>>
----------------------------------------------------------------------------
(***************************************************************************)
(* Proposals.                                                              *)
(***************************************************************************)

\* What the analyzer can propose: each change has a field and a risk.
Proposals == Content \ {{}}

Safe(changes) == changes \ Risky

\* applyChanges(), up to the staging of the risky ones.  A change whose original text
\* the file no longer has changes nothing, but the snapshot is made.
ApplySafe(p, changes) ==
  IF Safe(changes) = {} THEN NoCopy /\ UNCHANGED skillMd
  ELSE /\ skillMd' = skillMd \cup Safe(changes)
       /\ ShadowCopy(p, MaxHistory)

\* The host: the risky changes replace the proposal that waits.
HostApplies(changes) ==
  /\ ApplySafe("host", changes)
  /\ proposal' = IF changes \cap Risky = {} THEN proposal ELSE changes \cap Risky
  /\ UNCHANGED <<asked, seen, index, approved>>

\* stageProposal() of a whole proposal.
HostStages(changes) ==
  /\ proposal' = changes
  /\ NoCopy /\ UNCHANGED <<skillMd, asked, seen, index, approved>>

HostRestarts ==
  /\ seqOf["host"] > 0
  /\ seqOf' = [seqOf EXCEPT !["host"] = 0]
  /\ author' = IF author = "host" THEN "gone" ELSE author
  /\ UNCHANGED <<skillMd, history, proposal, asked, seen, index, approved, replaced>>

\* A person undoes a change with an editor.
UserEdits(c) ==
  /\ c \in skillMd /\ skillMd' = skillMd \ {c} /\ replaced' = {}
  /\ UNCHANGED <<history, seqOf, author, proposal, asked, seen, index, approved>>

\* Or writes one in: the way of a risky change into the file, since what `octopus
\* evolve` approves of it is only staged again.
UserWrites(c) ==
  /\ skillMd' = skillMd \cup {c} /\ approved' = approved \cup {c} /\ replaced' = {}
  /\ UNCHANGED <<history, seqOf, author, proposal, asked, seen, index>>
----------------------------------------------------------------------------
(***************************************************************************)
(* `octopus evolve`.                                                       *)
(***************************************************************************)
Command(what) ==
  /\ asked = "no" /\ asked' = what
  /\ seqOf' = [seqOf EXCEPT !["cli"] = 0]
  /\ author' = IF author = "cli" THEN "gone" ELSE author
  /\ UNCHANGED <<skillMd, history, proposal, approved, replaced>>

Review == proposal # {} /\ Command("review") /\ seen' = proposal /\ index' = index

\* The proposal that was shown goes through applyChanges() again, which stages its
\* risky changes once more; then proposal.md is removed, whatever it holds by now.
Approve ==
  /\ asked = "review" /\ asked' = "no"
  /\ approved' = approved \cup seen
  /\ ApplySafe("cli", seen)
  /\ proposal' = {}
  /\ UNCHANGED <<seen, index>>

Reject ==
  /\ asked = "review" /\ asked' = "no" /\ proposal' = {}
  /\ NoCopy /\ UNCHANGED <<skillMd, seen, index, approved>>

RollbackTo ==
  /\ history # << >> /\ Command("rollback")
  /\ index' \in 0..(Cardinality(DOMAIN history) - 1) /\ seen' = seen

\* rollback(): the list is read again, the file is copied to a snapshot of its own, and
\* the snapshot chosen is copied back, as it is by then, if it was not pruned.
Confirm ==
  LET chosen == SnapshotAt(history, index) kept == Snapshots("cli", 1000) IN
  /\ asked = "rollback" /\ asked' = "no"
  /\ index < Cardinality(DOMAIN history)
  /\ skillMd' = IF chosen \in DOMAIN kept THEN kept[chosen] ELSE skillMd
  /\ ShadowCopy("cli", 1000)
  /\ UNCHANGED <<proposal, seen, index, approved>>

\* Nothing is chosen, or the index is out of range by now.
Skip ==
  /\ asked # "no" /\ asked' = "no"
  /\ NoCopy /\ UNCHANGED <<skillMd, proposal, seen, index, approved>>

EvolutionNext ==
  \/ \E changes \in Proposals : HostApplies(changes) \/ HostStages(changes)
  \/ HostRestarts
  \/ \E c \in Change : UserEdits(c) \/ UserWrites(c)
  \/ Review \/ Approve \/ Reject \/ RollbackTo \/ Confirm \/ Skip

EvolutionSpec == EvolutionInit /\ [][EvolutionNext]_evolutionVars
----------------------------------------------------------------------------
(***************************************************************************)
(* What evolution promises.                                                *)
(***************************************************************************)

\* No risky change is in SKILL.md, or in a snapshot a rollback could bring back, that
\* no person has approved or written there.
RiskyOnlyApproved ==
  \A s \in {skillMd} \cup {history[n] : n \in DOMAIN history} : s \cap Risky \subseteq approved

Newest(h) == CHOOSE n \in DOMAIN h : \A m \in DOMAIN h : m <= n

\* As long as one process has made every snapshot, what the last change or rollback
\* replaced is the newest snapshot.
ReplacedIsNewest ==
  author \in Process /\ replaced # {} =>
    /\ history # << >>
    /\ replaced = {history[Newest(history)]}
=============================================================================
