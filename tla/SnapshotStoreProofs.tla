------------------------- MODULE SnapshotStoreProofs ------------------------
EXTENDS SnapshotStore, TLAPS

\* Directory names are well formed, and a digest is a tree.
LEMMA Places ==
  ASSUME TypeOK, NEW s \in Session
  PROVE  digest[s] \in Digest /\ Place(s) \in Pid \X Digest
  BY SkillAssumption DEF TypeOK, Place

LEMMA Trees == /\ Digest \subseteq Tree /\ Empty \in Tree /\ Empty \in Digest
               /\ NoTree \notin Tree /\ Files(Empty) = {}
  BY SkillAssumption DEF Digest, Tree, Empty, Files

\* A directory that is made is one.
LEMMA MadeTree == ASSUME NEW t \in Tree \cup {NoTree} PROVE Made(t) \in Tree
  BY Trees DEF Made

\* A file written in a directory leaves the other files as they are.
LEMMA Written ==
  ASSUME NEW t \in Tree, NEW f \in File, NEW v \in Version \cup {Truncated}
  PROVE  /\ [t EXCEPT ![f] = v] \in Tree
         /\ [t EXCEPT ![f] = v] # NoTree
         /\ [t EXCEPT ![f] = v][f] = v
         /\ v # Absent
         /\ \A g \in File \ {f} : [t EXCEPT ![f] = v][g] = t[g]
  BY SkillAssumption DEF Tree

\* What is taken off a list keeps the types.
LEMMA TakeType ==
  ASSUME TypeOK, NEW s \in Session, NEW f \in File, NEW more \in Stage, NEW done \in Stage,
         Take(s, f, more, done)
  PROVE  left' \in [Session -> SUBSET File] /\ pc' \in [Session -> Stage]
  BY DEF TypeOK, Take, Goto

\* What readdir() returns are files of the skill.
LEMMA ListingFiles == ASSUME NEW listed \in Listing PROVE listed \subseteq File
  BY SkillAssumption DEF Listing, Files

\* The initial state has its type.
LEMMA InitType == Init => TypeOK
  BY SkillAssumption, Trees DEF Init, TypeOK, Stage, Building, Walking

\* Files are only written in directories that are there.
LEMMA StepType == TypeOK /\ HandlesHeld /\ [Next]_vars => TypeOK'
<1> SUFFICES ASSUME TypeOK, HandlesHeld, [Next]_vars PROVE TypeOK'
  OBVIOUS
<1>1. CASE Edit
  <2>1. PICK f \in Edited : \E v \in Version \ {source[f]} : source' = [source EXCEPT ![f] = v]
    BY <1>1 DEF Edit
  <2>2. source' \in Digest
    BY <2>1 DEF TypeOK, Digest
  <2>3. edits' \in 0..MaxEdits
    BY <1>1, SkillAssumption DEF Edit, CountEdit, TypeOK
  <2> QED BY <1>1, <2>2, <2>3 DEF Edit, TypeOK
<1>2. CASE Remove
  <2>1. PICK f \in Edited \cap Files(source) : Remove!2!(f)
    BY <1>2 DEF Remove
  <2>2. f \in File /\ source[f] \in Version
    BY <2>1 DEF TypeOK, Digest, Files
  <2>3. source' \in Digest
    BY <2>1 DEF TypeOK, Digest
  <2>4. kept' \in [Session -> SUBSET Version] /\ gone' \in [Session -> SUBSET File]
    BY <2>1, <2>2 DEF TypeOK
  <2>5. edits' \in 0..MaxEdits
    BY <1>2, SkillAssumption DEF Remove, CountEdit, TypeOK
  <2> QED BY <1>2, <2>3, <2>4, <2>5 DEF Remove, TypeOK
<1>3. CASE UNCHANGED vars
  BY <1>3 DEF vars, TypeOK
<1>4. ASSUME NEW s \in Session, Step(s) PROVE TypeOK'
  <2> USE Places, Trees
  <2>1. CASE List(s)
    <3>1. PICK listed \in Listing : List(s)!2!(listed)
      BY <2>1 DEF List
    <3>2. left' \in [Session -> SUBSET File]
      BY <3>1, ListingFiles DEF TypeOK
    <3>3. pc' \in [Session -> Stage]
      BY <3>1 DEF TypeOK, Goto, AfterWalk, Stage, Building, Walking
    <3> QED BY <2>1, <3>2, <3>3 DEF List, TypeOK
  <2>2. CASE Walk(s)
    <3>1. PICK f \in left[s] : Walk(s)!2!(f)
      BY <2>2 DEF Walk
    <3>2. f \in File /\ source[f] \in Version \cup {Absent}
      BY <3>1 DEF TypeOK, Digest
    <3>3. [digest[s] EXCEPT ![f] = source[f]] \in Digest
      BY <3>2 DEF Digest
    <3>4. digest' \in [Session -> Digest]
      BY <3>1, <3>3 DEF TypeOK
    <3>5. "walk" \in Stage /\ AfterWalk([digest[s] EXCEPT ![f] = source[f]]) \in Stage
      BY DEF AfterWalk, Stage, Building, Walking
    <3>6. left' \in [Session -> SUBSET File] /\ pc' \in [Session -> Stage]
      BY <3>1, <3>2, <3>5, TakeType
    <3> QED BY <2>2, <3>4, <3>6 DEF Walk, TypeOK
  <2>3. CASE MakeStaging(s)
    <3>1. staging' \in [Pid \X Digest -> Tree \cup {NoTree}]
      BY <2>3, MadeTree DEF MakeStaging, TypeOK
    <3>2. pc' \in [Session -> Stage]
      BY <2>3 DEF MakeStaging, TypeOK, Goto, Stage, Building
    <3> QED BY <2>3, <3>1, <3>2 DEF MakeStaging, TypeOK
  <2>4. CASE Relist(s)
    <3>1. PICK listed \in Listing : Relist(s)!2!(listed)
      BY <2>4 DEF Relist
    <3>2. left' \in [Session -> SUBSET File] /\ pc' \in [Session -> Stage]
      BY <3>1, ListingFiles DEF TypeOK, Goto, Stage, Building
    <3> QED BY <2>4, <3>2 DEF Relist, TypeOK
  <2>5. CASE SkipCopy(s)
    <3>1. PICK f \in (left[s] \cap Nested) \ Files(source) : Take(s, f, "copy", "rename")
      BY <2>5 DEF SkipCopy
    <3>2. f \in File /\ "copy" \in Stage /\ "rename" \in Stage
      BY <3>1, SkillAssumption DEF Stage, Building
    <3>3. left' \in [Session -> SUBSET File] /\ pc' \in [Session -> Stage]
      BY <3>1, <3>2, TakeType
    <3>4. staging' \in [Pid \X Digest -> Tree \cup {NoTree}]
      BY <2>5, MadeTree DEF SkipCopy, TypeOK
    <3> QED BY <2>5, <3>3, <3>4 DEF SkipCopy, TypeOK
  <2>6. CASE OpenCopy(s)
    <3>1. PICK f \in left[s] \cap Files(source) : OpenCopy(s)!2!(f)
      BY <2>6 DEF OpenCopy
    <3>2. f \in File
      BY <3>1 DEF TypeOK
    <3>3. [Made(staging[Place(s)]) EXCEPT ![f] = Truncated] \in Tree
      BY <3>2, MadeTree, Written DEF TypeOK
    <3>4. staging' \in [Pid \X Digest -> Tree \cup {NoTree}]
      BY <3>1, <3>3 DEF TypeOK
    <3>5. /\ left' \in [Session -> SUBSET File] /\ copying' \in [Session -> SUBSET File]
          /\ handle' \in [Session -> {"no", "staging", "store"}]
      BY <2>6, <3>1, <3>2 DEF OpenCopy, TypeOK
    <3>6. pc' \in [Session -> Stage]
      BY <2>6 DEF OpenCopy, TypeOK, Goto, Stage, Building
    <3> QED BY <2>6, <3>4, <3>5, <3>6 DEF OpenCopy, TypeOK
  <2>7. CASE WriteCopy(s)
    <3>0. PICK f \in copying[s] : WriteCopy(s)!2!(f)
      BY <2>7 DEF WriteCopy
    <3>1. PICK v \in Content(s, f) : WriteCopy(s)!2!(f)!(v)
      BY <3>0
    <3>2. f \in File /\ v \in Version
      BY <3>1 DEF TypeOK, Content
    <3>3. ASSUME NEW t \in Tree PROVE [t EXCEPT ![f] = v] \in Tree
      BY <3>2, Written
    <3>4. staging' \in [Pid \X Digest -> Tree \cup {NoTree}]
      BY <3>1, <3>3 DEF TypeOK, HandlesHeld
    <3>5. store' \in [Digest -> Tree \cup {NoTree}]
      <4>1. handle[s] = "store" => store[digest[s]] \in Tree
        BY DEF HandlesHeld, TypeOK
      <4>2. \/ UNCHANGED store
            \/ /\ handle[s] = "store"
               /\ store' = [store EXCEPT ![digest[s]] = [@ EXCEPT ![f] = v]]
        BY <3>1
      <4> QED BY <3>3, <4>1, <4>2 DEF TypeOK
    <3>6. /\ pc' \in [Session -> Stage] /\ handle' \in [Session -> {"no", "staging", "store"}]
          /\ kept' \in [Session -> SUBSET Version]
      BY <2>7 DEF WriteCopy, TypeOK, Goto, Stage, Building
    <3> QED BY <2>7, <3>4, <3>5, <3>6 DEF WriteCopy, TypeOK
  <2>8. CASE ChmodCopy(s)
    BY <2>8 DEF ChmodCopy, TypeOK, Goto, Stage, Building
  <2>9. CASE Rename(s)
    BY <2>9 DEF Rename, TypeOK, Goto, Stage, Building
  <2>10. CASE ListRoot(s)
    <3>1. left' \in [Session -> SUBSET File]
      BY <2>10 DEF ListRoot, Files, TypeOK
    <3>2. pc' \in [Session -> Stage]
      BY <2>10 DEF ListRoot, TypeOK, Goto, Stage
    <3> QED BY <2>10, <3>1, <3>2 DEF ListRoot, TypeOK
  <2>11. CASE Verify(s)
    <3>0. PICK f \in left[s] : IF Same(s, f) THEN Take(s, f, "compare", "mounted")
                               ELSE left' = [left EXCEPT ![s] = {}] /\ Goto(s, "refused")
      BY <2>11 DEF Verify
    <3>1. f \in File /\ {"compare", "mounted", "refused"} \subseteq Stage
      BY <3>0 DEF TypeOK, Stage
    <3>2. left' \in [Session -> SUBSET File] /\ pc' \in [Session -> Stage]
      <4>1. CASE Take(s, f, "compare", "mounted")
        BY <3>1, <4>1, TakeType
      <4>2. CASE left' = [left EXCEPT ![s] = {}] /\ Goto(s, "refused")
        BY <3>1, <4>2 DEF TypeOK, Goto
      <4> QED BY <3>0, <4>1, <4>2
    <3> QED BY <2>11, <3>2 DEF Verify, TypeOK
  <2>12. CASE Fail(s)
    BY <2>12 DEF Fail, TypeOK, Goto, Stage, Building
  <2> QED BY <1>4, <2>1, <2>2, <2>3, <2>4, <2>5, <2>6, <2>7, <2>8, <2>9, <2>10, <2>11, <2>12
        DEF Step
<1> QED BY <1>1, <1>2, <1>3, <1>4 DEF Next

(***************************************************************************)
(* What a step of a session leaves of the others.                          *)
(***************************************************************************)

\* Past the walk, the digest is fixed, no session walks again, and what was
\* gone from the skill for it stays noted.
LEMMA Walked ==
  ASSUME TypeOK, [Next]_vars, NEW s \in Session, pc[s] \notin Walking
  PROVE  pc'[s] \notin Walking /\ digest'[s] = digest[s] /\ gone[s] \subseteq gone'[s]
<1>1. ASSUME NEW t \in Session, Step(t)
      PROVE  pc'[s] \notin Walking /\ digest'[s] = digest[s] /\ gone[s] \subseteq gone'[s]
  <2>1. CASE List(t) \/ Walk(t)
    BY <2>1 DEF List, Walk, Take, Goto, TypeOK, Walking
  <2>2. CASE MakeStaging(t) \/ Relist(t) \/ SkipCopy(t) \/ OpenCopy(t)
    BY <2>2 DEF MakeStaging, Relist, SkipCopy, OpenCopy, Take, Goto, TypeOK, Walking
  <2>3. CASE WriteCopy(t) \/ ChmodCopy(t) \/ Rename(t)
    BY <2>3 DEF WriteCopy, ChmodCopy, Rename, Goto, TypeOK, Walking
  <2>4. CASE ListRoot(t) \/ Verify(t) \/ Fail(t)
    BY <2>4 DEF ListRoot, Verify, Fail, Take, Goto, TypeOK, Walking
  <2> QED BY <1>1, <2>1, <2>2, <2>3, <2>4 DEF Step
<1>2. CASE Edit \/ UNCHANGED vars
  BY <1>2 DEF Edit, vars
<1>3. CASE Remove
  BY <1>3 DEF Remove, TypeOK
<1> QED BY <1>1, <1>2, <1>3 DEF Next

\* Sessions that share d never stop to.
LEMMA UnsharedBefore ==
  ASSUME TypeOK, [Next]_vars, NEW d \in Digest, Unshared(d)'
  PROVE  Unshared(d)
  BY Walked DEF Unshared

\* What is in the store is not removed.  Unless it has no file at all, no
\* file appears or disappears in it, and only a write from a shared staging
\* directory of an edited file alters it.
LEMMA StoreKept ==
  ASSUME TypeOK, HandlesHeld, [Next]_vars, NEW d \in Digest, store[d] # NoTree
  PROVE  /\ store'[d] # NoTree
         /\ store[d] # Empty =>
              /\ store'[d] # Empty
              /\ Files(store'[d]) = Files(store[d])
              /\ Unshared(d) => store'[d] = store[d]
              /\ source = d /\ NoneKept(d) /\ Intact(d) => store'[d] = d
<1> DEFINE Held == /\ store'[d] # NoTree
                   /\ store[d] # Empty =>
                        /\ store'[d] # Empty
                        /\ Files(store'[d]) = Files(store[d])
                        /\ Unshared(d) => store'[d] = store[d]
                        /\ source = d /\ NoneKept(d) /\ Intact(d) => store'[d] = d
<1>0. store[d] \in Tree
  BY DEF TypeOK
<1>1. ASSUME NEW s \in Session, WriteCopy(s), handle[s] = "store", digest[s] = d
      PROVE  Held
  <2>0. PICK f \in copying[s] : WriteCopy(s)!2!(f)
    BY <1>1 DEF WriteCopy
  <2>1. PICK v \in Content(s, f) : store' = [store EXCEPT ![d] = [@ EXCEPT ![f] = v]]
    BY <1>1, <2>0
  <2>2. f \in File /\ v \in Version
    BY <2>1 DEF TypeOK, Content
  <2>3. store'[d] = [store[d] EXCEPT ![f] = v]
    BY <2>1 DEF TypeOK
  <2>4. store[d][f] # Absent /\ ~Unshared(d)
    BY <1>1, <2>1 DEF HandlesHeld
  <2>5. /\ store'[d] \in Tree /\ store'[d][f] # Absent
        /\ \A g \in File \ {f} : store'[d][g] = store[d][g]
    BY <1>0, <2>2, <2>3, Written
  <2>6. Files(store'[d]) = Files(store[d])
    BY <2>4, <2>5 DEF Files
  <2>7. store'[d] # Empty
    BY <2>2, <2>5 DEF Empty
  <2>8. source = d /\ NoneKept(d) /\ Intact(d) => store'[d] = d
    <3> SUFFICES ASSUME source = d, NoneKept(d), Intact(d) PROVE store'[d] = d
      OBVIOUS
    <3>1. v = d[f]
      BY <1>1, <2>1 DEF Content, NoneKept
    <3> QED BY <2>2, <2>3, <3>1 DEF Intact, Digest
  <2> QED BY <2>4, <2>5, <2>6, <2>7, <2>8, Trees
<1>2. ASSUME NEW s \in Session, Step(s),
             ~(WriteCopy(s) /\ handle[s] = "store" /\ digest[s] = d),
             ~(Rename(s) /\ digest[s] = d)
      PROVE  store'[d] = store[d]
  <2>1. CASE WriteCopy(s)
    BY <1>2, <2>1 DEF WriteCopy, TypeOK
  <2>2. CASE Rename(s)
    BY <1>2, <2>2 DEF Rename, TypeOK
  <2>3. CASE ~WriteCopy(s) /\ ~Rename(s)
    BY <1>2, <2>3 DEF Step, List, Walk, MakeStaging, Relist, SkipCopy, OpenCopy, ChmodCopy,
                      ListRoot, Verify, Fail
  <2> QED BY <2>1, <2>2, <2>3
<1>3. ASSUME NEW s \in Session, Rename(s), digest[s] = d
      PROVE  Held
  <2>1. store[d] = Empty /\ store'[d] = staging[Place(s)] /\ staging[Place(s)] # NoTree
    BY <1>3, Places DEF Rename, Vacant, TypeOK
  <2> QED BY <2>1
<1>4. CASE Edit \/ Remove \/ UNCHANGED vars
  BY <1>4 DEF Edit, Remove, vars, Intact
<1> HIDE DEF Held
<1>5. store'[d] = store[d] => Held
  BY DEF Held, Intact
<1>6. Held
  BY <1>1, <1>2, <1>3, <1>4, <1>5 DEF Next, Edit, Remove, vars
<1> QED BY <1>6 DEF Held

\* A session does not move, and keeps what it has read, while others step.
LEMMA OthersKept ==
  ASSUME TypeOK, NEW s \in Session, NEW t \in Session, s # t, Step(s)
  PROVE  /\ pc'[t] = pc[t] /\ digest'[t] = digest[t] /\ left'[t] = left[t]
         /\ copying'[t] = copying[t] /\ gone'[t] = gone[t]
         /\ Place(t)' = Place(t)
         /\ Rename(s) \/ handle'[t] = handle[t]
<1>1. CASE List(s) \/ Walk(s)
  BY <1>1 DEF List, Walk, Take, Goto, TypeOK, Place
<1>2. CASE MakeStaging(s) \/ Relist(s) \/ SkipCopy(s)
  BY <1>2 DEF MakeStaging, Relist, SkipCopy, Take, Goto, TypeOK, Place
<1>3. CASE OpenCopy(s) \/ WriteCopy(s) \/ ChmodCopy(s)
  BY <1>3 DEF OpenCopy, WriteCopy, ChmodCopy, Goto, TypeOK, Place
<1>4. CASE Rename(s) \/ ListRoot(s) \/ Verify(s) \/ Fail(s)
  BY <1>4 DEF Rename, ListRoot, Verify, Fail, Take, Goto, TypeOK, Place
<1> QED BY <1>1, <1>2, <1>3, <1>4 DEF Step

\* A staging directory goes only by its rename, and none of its files before.
LEMMA StagingStays ==
  ASSUME TypeOK, HandlesHeld, NEW s \in Session, Step(s),
         NEW w \in Pid \X Digest, staging[w] # NoTree, ~(Rename(s) /\ Place(s) = w)
  PROVE  /\ staging'[w] # NoTree
         /\ \A f \in File : staging[w][f] # Absent => staging'[w][f] # Absent
<1> USE Places
<1>1. ASSUME NEW f \in File, NEW v \in Version \cup {Truncated},
             staging'[w] = [staging[w] EXCEPT ![f] = v]
      PROVE  /\ staging'[w] # NoTree
             /\ \A g \in File : staging[w][g] # Absent => staging'[w][g] # Absent
  BY <1>1, Written DEF TypeOK
<1>2. CASE OpenCopy(s) /\ Place(s) = w
  <2>1. PICK f \in left[s] \cap Files(source) : OpenCopy(s)!2!(f)
    BY <1>2 DEF OpenCopy
  <2>2. Made(staging[w]) = staging[w] /\ f \in File
    BY <2>1 DEF Made, Files
  <2>3. staging'[w] = [staging[w] EXCEPT ![f] = Truncated]
    BY <1>2, <2>1, <2>2 DEF TypeOK
  <2> QED BY <1>1, <2>2, <2>3
<1>3. CASE WriteCopy(s) /\ Place(s) = w /\ handle[s] = "staging"
  <2>0. PICK f \in copying[s] : WriteCopy(s)!2!(f)
    BY <1>3 DEF WriteCopy
  <2>1. PICK v \in Content(s, f) : staging' = [staging EXCEPT ![w] = [@ EXCEPT ![f] = v]]
    BY <1>3, <2>0
  <2>2. f \in File /\ v \in Version
    BY <2>1 DEF TypeOK, Content
  <2> QED BY <1>1, <2>1, <2>2 DEF TypeOK
<1>4. CASE MakeStaging(s) \/ SkipCopy(s)
  <2>1. Made(staging[w]) = staging[w]
    BY DEF Made
  <2>2. staging'[w] = staging[w]
    BY <1>4, <2>1 DEF MakeStaging, SkipCopy, TypeOK
  <2> QED BY <2>2
<1>5. CASE \/ List(s) \/ Walk(s) \/ Relist(s) \/ ChmodCopy(s) \/ ListRoot(s) \/ Verify(s)
           \/ Fail(s)
  BY <1>5 DEF List, Walk, Relist, ChmodCopy, ListRoot, Verify, Fail
<1>6. CASE \/ OpenCopy(s) /\ Place(s) # w
           \/ WriteCopy(s) /\ (Place(s) # w \/ handle[s] # "staging")
           \/ Rename(s)
  BY <1>6 DEF OpenCopy, WriteCopy, Rename, TypeOK
<1> QED BY <1>2, <1>3, <1>4, <1>5, <1>6 DEF Step

(***************************************************************************)
(* The parts of the invariant.                                             *)
(***************************************************************************)

\* Every step keeps what is left to walk or copy in line with the stage.
LEMMA StepLeft == TypeOK /\ LeftFits /\ [Next]_vars => LeftFits'
<1> SUFFICES ASSUME TypeOK, LeftFits, [Next]_vars PROVE LeftFits'
  OBVIOUS
<1>1. ASSUME NEW s \in Session, Step(s) PROVE LeftFits'
  <2>0. ASSUME NEW f, NEW more, NEW done, Take(s, f, more, done),
               more \notin {"rename", "mounted"}
        PROVE  pc'[s] \in {"rename", "mounted"} => left'[s] = {}
    BY <2>0 DEF Take, Goto, TypeOK
  <2>1. pc'[s] \in {"rename", "mounted"} => left'[s] = {}
    <3>1. CASE List(s) \/ MakeStaging(s) \/ Relist(s)
      BY <3>1 DEF List, MakeStaging, Relist, AfterWalk, Goto, TypeOK
    <3>2. CASE Walk(s) \/ SkipCopy(s)
      BY <2>0, <3>2 DEF Walk, SkipCopy
    <3>3. CASE OpenCopy(s) \/ WriteCopy(s) \/ ChmodCopy(s)
      BY <3>3 DEF OpenCopy, WriteCopy, ChmodCopy, Goto, TypeOK
    <3>4. CASE Rename(s) \/ ListRoot(s) \/ Fail(s)
      BY <3>4 DEF Rename, ListRoot, Fail, Goto, TypeOK
    <3>5. CASE Verify(s)
      <4>1. PICK f \in left[s] : IF Same(s, f) THEN Take(s, f, "compare", "mounted")
                                 ELSE left' = [left EXCEPT ![s] = {}] /\ Goto(s, "refused")
        BY <3>5 DEF Verify
      <4>2. CASE Take(s, f, "compare", "mounted")
        BY <2>0, <4>2
      <4>3. CASE Goto(s, "refused")
        BY <4>3 DEF Goto, TypeOK
      <4> QED BY <4>1, <4>2, <4>3
    <3> QED BY <1>1, <3>1, <3>2, <3>3, <3>4, <3>5 DEF Step
  <2>2. pc'[s] # "list"
    BY <1>1 DEF Step, List, Walk, MakeStaging, Relist, SkipCopy, OpenCopy, WriteCopy, ChmodCopy,
                Rename, ListRoot, Verify, Fail, AfterWalk, Take, Goto, TypeOK
  <2> QED BY <1>1, <2>1, <2>2, OthersKept DEF LeftFits
<1>2. CASE Edit \/ Remove \/ UNCHANGED vars
  BY <1>2 DEF Edit, Remove, vars, LeftFits
<1> QED BY <1>1, <1>2 DEF Next

\* Every step keeps handles with their writers.
LEMMA StepHandles == TypeOK /\ HandlesHeld /\ [Next]_vars => HandlesHeld'
<1> SUFFICES ASSUME TypeOK, HandlesHeld, [Next]_vars PROVE HandlesHeld'
  OBVIOUS
<1> DEFINE InStaging(t) == /\ staging[Place(t)] # NoTree
                           /\ \A f \in copying[t] : staging[Place(t)][f] # Absent
           InStore(t)   == /\ store[digest[t]] # NoTree /\ ~Unshared(digest[t])
                           /\ \A f \in copying[t] : store[digest[t]][f] # Absent
           Held(t)      == /\ handle[t] # "no" => pc[t] = "write"
                           /\ handle[t] = "staging" => InStaging(t)
                           /\ handle[t] = "store" => InStore(t)
<1>0. \A t \in Session : Held(t)
  BY DEF HandlesHeld
<1>1. ASSUME NEW t \in Session, handle[t] = "store",
             digest'[t] = digest[t], copying'[t] = copying[t]
      PROVE  InStore(t)'
  <2>0. PICK d \in Digest : d = digest[t]
    BY Places
  <2>1. store[d] # NoTree /\ ~Unshared(d) /\ \A f \in copying[t] : store[d][f] # Absent
    BY <1>1, <2>0 DEF HandlesHeld
  <2>2. store'[d] # NoTree
    BY <2>1, StoreKept
  <2>3. ~(Unshared(d)')
    BY <2>1, UnsharedBefore
  <2>4. Unshared(digest[t])' <=> Unshared(d)'
    BY <1>1, <2>0 DEF Unshared
  <2>5. \A f \in copying[t] : store'[d][f] # Absent
    <3> SUFFICES ASSUME NEW f \in copying[t] PROVE store'[d][f] # Absent
      OBVIOUS
    <3>1. f \in File
      BY DEF TypeOK
    <3>2. store[d] # Empty
      BY <2>1, <3>1 DEF Empty
    <3>3. Files(store'[d]) = Files(store[d])
      BY <2>1, <3>2, StoreKept
    <3> QED BY <2>1, <3>1, <3>3 DEF Files
  <2> QED BY <1>1, <2>0, <2>2, <2>3, <2>4, <2>5
<1>2. ASSUME NEW s \in Session, Step(s), NEW t \in Session, s # t
      PROVE  Held(t)'
  <2>1. /\ pc'[t] = pc[t] /\ digest'[t] = digest[t] /\ Place(t)' = Place(t)
        /\ copying'[t] = copying[t]
    BY <1>2, OthersKept
  <2>2. CASE Rename(s) /\ handle[t] = "staging" /\ Place(s) = Place(t)
    <3>1. handle'[t] = "store" /\ pc[s] = "rename" /\ pc[t] = "write"
      BY <2>2 DEF Rename, HandlesHeld
    <3>2. digest[s] = digest[t] /\ pidOf[s] = pidOf[t]
      BY <2>2 DEF Place
    <3>3. pc'[s] = "verify" /\ digest' = digest /\ store'[digest[s]] = staging[Place(s)]
      BY <2>2, Places DEF Rename, Goto, TypeOK
    <3>4. /\ store'[digest'[t]] # NoTree
          /\ \A f \in copying'[t] : store'[digest'[t]][f] # Absent
      BY <1>0, <2>1, <2>2, <3>2, <3>3
    <3>5. ~Unshared(digest[t])'
      BY <1>2, <2>1, <3>1, <3>2, <3>3 DEF Unshared, Walking
    <3> QED BY <2>1, <3>1, <3>4, <3>5
  <2>3. CASE ~(Rename(s) /\ handle[t] = "staging" /\ Place(s) = Place(t))
    <3>1. handle'[t] = handle[t]
      BY <1>2, <2>3, OthersKept DEF Rename, TypeOK
    <3>2. handle[t] = "staging" => InStaging(t)'
      <4> SUFFICES ASSUME handle[t] = "staging" PROVE InStaging(t)'
        OBVIOUS
      <4>1. /\ staging'[Place(t)] # NoTree
            /\ \A f \in File : staging[Place(t)][f] # Absent => staging'[Place(t)][f] # Absent
        BY <1>0, <1>2, <2>3, StagingStays, Places
      <4>2. copying[t] \subseteq File
        BY DEF TypeOK
      <4> QED BY <1>0, <2>1, <4>1, <4>2
    <3>3. handle[t] = "store" => InStore(t)'
      BY <1>1, <2>1
    <3> QED BY <1>0, <2>1, <3>1, <3>2, <3>3
  <2> QED BY <2>2, <2>3
<1>3. ASSUME NEW s \in Session, Step(s)
      PROVE  Held(s)'
  <2>1. CASE OpenCopy(s)
    <3>1. PICK f \in left[s] \cap Files(source) : OpenCopy(s)!2!(f)
      BY <2>1 DEF OpenCopy
    <3>2. f \in File /\ copying'[s] = {f}
      BY <3>1 DEF TypeOK
    <3>3. Made(staging[Place(s)]) \in Tree
      BY Places, MadeTree DEF TypeOK
    <3>4. staging'[Place(s)] = [Made(staging[Place(s)]) EXCEPT ![f] = Truncated]
      BY <3>1, Places DEF TypeOK
    <3>5. pc'[s] = "write" /\ handle'[s] = "staging" /\ Place(s)' = Place(s)
      BY <2>1 DEF OpenCopy, Goto, TypeOK, Place
    <3> QED BY <3>2, <3>3, <3>4, <3>5, Written
  <2>2. CASE ~OpenCopy(s)
    <3>1. handle'[s] = "no"
      <4>1. CASE List(s) \/ Walk(s) \/ MakeStaging(s) \/ Relist(s) \/ SkipCopy(s)
        BY <4>1 DEF List, Walk, MakeStaging, Relist, SkipCopy, HandlesHeld, TypeOK
      <4>2. CASE ChmodCopy(s) \/ Rename(s) \/ ListRoot(s) \/ Verify(s)
        <5>1. handle[s] = "no"
          BY <4>2 DEF ChmodCopy, Rename, ListRoot, Verify, HandlesHeld
        <5> QED BY <4>2, <5>1 DEF ChmodCopy, Rename, ListRoot, Verify, TypeOK
      <4>3. CASE WriteCopy(s) \/ Fail(s)
        BY <4>3 DEF WriteCopy, Fail, TypeOK
      <4> QED BY <1>3, <2>2, <4>1, <4>2, <4>3 DEF Step
    <3> QED BY <3>1
  <2> QED BY <2>1, <2>2
<1>4. CASE Edit \/ Remove \/ UNCHANGED vars
  BY <1>4 DEF Edit, Remove, vars, HandlesHeld, Unshared, Place
<1> QED BY <1>2, <1>3, <1>4 DEF Next, HandlesHeld

\* Every removal is noted for the sessions that had read the file.
LEMMA StepGone == TypeOK /\ LeftFits /\ GoneFits /\ [Next]_vars => GoneFits'
<1> SUFFICES ASSUME TypeOK, LeftFits, GoneFits, [Next]_vars PROVE GoneFits'
  OBVIOUS
<1> DEFINE Active == {"walk"} \cup Building
           Fits(t) == pc[t] \in Active => Files(digest[t]) \ Files(source) \subseteq gone[t]
<1>1. ASSUME NEW s \in Session, Step(s), NEW t \in Session, s # t PROVE Fits(t)'
  <2>1. pc'[t] = pc[t] /\ digest'[t] = digest[t] /\ gone'[t] = gone[t] /\ source' = source
    BY <1>1, OthersKept DEF Step, List, Walk, MakeStaging, Relist, SkipCopy, OpenCopy, WriteCopy,
                            ChmodCopy, Rename, ListRoot, Verify, Fail
  <2> QED BY <2>1 DEF GoneFits, Files
<1>2. ASSUME NEW s \in Session, Step(s) PROVE Fits(s)'
  <2>1. CASE Walk(s)
    <3>1. PICK f \in left[s] : Walk(s)!2!(f)
      BY <2>1 DEF Walk
    <3>2. /\ f \in File /\ source' = source /\ gone' = gone /\ pc[s] = "walk"
          /\ digest'[s] = [digest[s] EXCEPT ![f] = source[f]]
      BY <2>1, <3>1 DEF Walk, TypeOK
    <3>3. digest[s] \in [File -> Version \cup {Absent}]
      BY DEF TypeOK, Digest
    <3>4. Files(digest'[s]) \ Files(source) \subseteq Files(digest[s]) \ Files(source)
      BY <3>2, <3>3 DEF Files
    <3>5. Files(digest[s]) \ Files(source) \subseteq gone[s]
      BY <3>2 DEF GoneFits
    <3> QED BY <3>2, <3>4, <3>5 DEF Files
  <2>2. CASE List(s)
    <3>1. digest'[s] = Empty
      BY <2>2 DEF List, LeftFits
    <3> QED BY <3>1, Trees
  <2>3. CASE MakeStaging(s) \/ Relist(s) \/ SkipCopy(s) \/ OpenCopy(s) \/ WriteCopy(s)
             \/ ChmodCopy(s)
    <3>1. digest' = digest /\ gone' = gone /\ source' = source /\ pc[s] \in Active
      BY <2>3 DEF MakeStaging, Relist, SkipCopy, OpenCopy, WriteCopy, ChmodCopy, Building
    <3> QED BY <3>1 DEF GoneFits, Files
  <2>4. CASE Rename(s) \/ ListRoot(s) \/ Verify(s) \/ Fail(s)
    <3>1. pc'[s] \notin Active
      BY <2>4 DEF Rename, ListRoot, Verify, Fail, Take, Goto, TypeOK, Building
    <3> QED BY <3>1
  <2> QED BY <1>2, <2>1, <2>2, <2>3, <2>4 DEF Step
<1>3. ASSUME Edit PROVE GoneFits'
  <2>1. PICK f \in Edited, v \in Version : source' = [source EXCEPT ![f] = v]
    BY <1>3 DEF Edit
  <2>2. Files(source) \subseteq Files(source')
    BY <2>1, SkillAssumption DEF TypeOK, Digest, Files
  <2>3. pc' = pc /\ digest' = digest /\ gone' = gone
    BY <1>3 DEF Edit
  <2> QED BY <2>2, <2>3 DEF GoneFits, Files
<1>4. ASSUME Remove PROVE GoneFits'
  <2>1. PICK f \in Edited \cap Files(source) : Remove!2!(f)
    BY <1>4 DEF Remove
  <2>2. Files(source) \ {f} \subseteq Files(source')
    BY <2>1 DEF TypeOK, Digest, Files
  <2>3. pc' = pc /\ digest' = digest
    BY <1>4 DEF Remove
  <2>4. ASSUME NEW s \in Session, pc[s] \in Active
        PROVE  gone[s] \cup (Files(digest[s]) \cap {f}) \subseteq gone'[s]
    BY <2>1, <2>4
  <2>5. ASSUME NEW s \in Session, pc[s] \in Active
        PROVE  Files(digest[s]) \ Files(source') \subseteq gone'[s]
    BY <2>2, <2>4, <2>5 DEF GoneFits
  <2> QED BY <2>3, <2>5 DEF GoneFits, Files
<1>5. CASE UNCHANGED vars
  BY <1>5 DEF vars, GoneFits, Files
<1> QED BY <1>1, <1>2, <1>3, <1>4, <1>5 DEF Next, GoneFits

\* Every step keeps what a building session has copied.
LEMMA StepStaging ==
  TypeOK /\ HandlesHeld /\ GoneFits /\ StagingKept /\ [Next]_vars => StagingKept'
<1> SUFFICES ASSUME TypeOK, HandlesHeld, GoneFits, StagingKept, [Next]_vars,
                    NEW t \in Session, (pc[t] \in {"copy", "write", "chmod", "rename"})',
                    Vacant(digest[t])',
                    NEW f \in File, f \in Files(digest'[t]) \ (left'[t] \cup gone'[t])
             PROVE  staging'[Place(t)'] # NoTree /\ staging'[Place(t)'][f] # Absent
  BY DEF StagingKept, Files
<1> DEFINE There == staging[Place(t)] # NoTree /\ staging[Place(t)][f] # Absent
<1>0. ASSUME pc[t] \in {"copy", "write", "chmod", "rename"},
             digest'[t] = digest[t], gone[t] \subseteq gone'[t], f \notin left[t]
      PROVE  There
  <2>1. Vacant(digest[t])
    BY <1>0, Places, StoreKept DEF Vacant
  <2>2. f \in Files(digest[t]) \ (left[t] \cup gone[t])
    BY <1>0
  <2> QED BY <1>0, <2>1, <2>2 DEF StagingKept
<1>1. ASSUME NEW s \in Session, Step(s), s # t
      PROVE  staging'[Place(t)'] # NoTree /\ staging'[Place(t)'][f] # Absent
  <2>1. /\ pc'[t] = pc[t] /\ digest'[t] = digest[t] /\ left'[t] = left[t] /\ Place(t)' = Place(t)
        /\ gone'[t] = gone[t]
    BY <1>1, OthersKept
  <2>2. There
    BY <1>0, <2>1
  <2>3. ~(Rename(s) /\ Place(s) = Place(t))
    <3> SUFFICES ASSUME Rename(s), Place(s) = Place(t) PROVE FALSE
      OBVIOUS
    <3>1. digest[s] = digest[t] /\ store'[digest[s]] = staging[Place(s)]
      BY Places DEF Rename, Place, TypeOK
    <3>2. store'[digest'[t]] \in {NoTree, Empty}
      BY DEF Vacant
    <3>3. staging[Place(t)] = Empty
      BY <2>1, <2>2, <3>1, <3>2
    <3> QED BY <2>2, <3>3 DEF Empty
  <2> QED BY <1>1, <2>1, <2>2, <2>3, StagingStays, Places
<1>2. ASSUME Step(t)
      PROVE  staging'[Place(t)'] # NoTree /\ staging'[Place(t)'][f] # Absent
  <2>1. CASE Relist(t)
    <3>1. PICK listed \in Listing : Relist(t)!2!(listed)
      BY <2>1 DEF Relist
    <3>2. /\ left'[t] = listed /\ Files(source) \subseteq listed
          /\ pc[t] \in Building /\ digest' = digest /\ gone' = gone
      BY <2>1, <3>1 DEF Relist, TypeOK, Listing, Building
    <3>3. f \in Files(digest[t]) \ Files(source) /\ f \notin gone[t]
      BY <3>2
    <3> QED BY <3>2, <3>3 DEF GoneFits
  <2>2. CASE SkipCopy(t)
    <3>1. PICK g \in (left[t] \cap Nested) \ Files(source) : Take(t, g, "copy", "rename")
      BY <2>2 DEF SkipCopy
    <3>2. /\ left'[t] = left[t] \ {g} /\ pc[t] = "copy" /\ digest' = digest /\ gone' = gone
          /\ Place(t)' = Place(t) /\ ~Rename(t)
      BY <2>2, <3>1 DEF SkipCopy, Rename, Take, TypeOK, Place
    <3>3. f \in Files(digest[t]) \ gone[t] /\ pc[t] \in Building
      BY <3>2 DEF Building
    <3>4. f # g
      BY <3>1, <3>3 DEF GoneFits
    <3>5. There
      BY <1>0, <3>2, <3>4
    <3> QED BY <1>2, <3>2, <3>5, StagingStays, Places
  <2>3. CASE OpenCopy(t)
    <3>1. PICK g \in left[t] \cap Files(source) : OpenCopy(t)!2!(g)
      BY <2>3 DEF OpenCopy
    <3>2. /\ Place(t)' = Place(t) /\ digest' = digest /\ left'[t] = left[t] \ {g} /\ gone' = gone
          /\ pc[t] = "copy" /\ g \in File /\ ~Rename(t)
      BY <2>3, <3>1 DEF OpenCopy, Rename, Place, TypeOK
    <3>3. CASE f = g
      <4>1. Made(staging[Place(t)]) \in Tree
        BY Places, MadeTree DEF TypeOK
      <4>2. staging'[Place(t)] = [Made(staging[Place(t)]) EXCEPT ![f] = Truncated]
        BY <3>1, <3>3, Places DEF TypeOK
      <4> QED BY <3>2, <4>1, <4>2, Written
    <3>4. CASE f # g
      <4>1. There
        BY <1>0, <3>2, <3>4
      <4> QED BY <1>2, <3>2, <4>1, StagingStays, Places
    <3> QED BY <3>3, <3>4
  <2>4. CASE WriteCopy(t) \/ ChmodCopy(t)
    <3>1. /\ Place(t)' = Place(t) /\ digest' = digest /\ left' = left /\ gone' = gone
          /\ pc[t] \in {"write", "chmod"} /\ ~Rename(t)
      BY <2>4 DEF WriteCopy, ChmodCopy, Rename, Place
    <3>2. There
      BY <1>0, <3>1
    <3> QED BY <1>2, <3>1, <3>2, StagingStays, Places
  <2>5. CASE List(t) \/ Walk(t) \/ MakeStaging(t)
    BY <2>5 DEF List, Walk, MakeStaging, AfterWalk, Take, Goto, TypeOK
  <2>6. CASE Rename(t) \/ ListRoot(t) \/ Verify(t) \/ Fail(t)
    BY <2>6 DEF Rename, ListRoot, Verify, Fail, Take, Goto, TypeOK
  <2> QED BY <1>2, <2>1, <2>2, <2>3, <2>4, <2>5, <2>6 DEF Step
<1>3. ASSUME Edit \/ Remove \/ UNCHANGED vars
      PROVE  staging'[Place(t)'] # NoTree /\ staging'[Place(t)'][f] # Absent
  <2>1. /\ pc' = pc /\ digest' = digest /\ left' = left /\ staging' = staging
        /\ Place(t)' = Place(t)
    BY <1>3 DEF Edit, Remove, vars, Place
  <2>2. gone[t] \subseteq gone'[t]
    BY <1>3 DEF Edit, Remove, vars, TypeOK
  <2>3. There
    BY <1>0, <2>1, <2>2
  <2> QED BY <2>1, <2>3
<1> QED BY <1>1, <1>2, <1>3 DEF Next

\* Every step keeps what a session has verified.
LEMMA StepVerified ==
  TypeOK /\ HandlesHeld /\ VerifiedSoFar /\ [Next]_vars => VerifiedSoFar'
<1> SUFFICES ASSUME TypeOK, HandlesHeld, VerifiedSoFar, [Next]_vars, NEW t \in Session
             PROVE  /\ (pc[t] \in {"verify", "compare", "mounted"})' => (store[digest[t]] # NoTree)'
                    /\ (pc[t] \in {"compare", "mounted"} /\ digest[t] # Empty)' =>
                         /\ (Files(store[digest[t]]) = Files(digest[t]))'
                         /\ Unshared(digest[t])' =>
                              \A f \in Files(digest'[t]) \ left'[t] : Same(t, f)'
  BY DEF VerifiedSoFar, Files
<1> DEFINE Sound == /\ store'[digest'[t]] # NoTree
                    /\ (pc[t] \in {"compare", "mounted"} /\ digest[t] # Empty)' =>
                         /\ Files(store'[digest'[t]]) = Files(digest'[t])
                         /\ Unshared(digest[t])' =>
                              \A f \in Files(digest'[t]) \ left'[t] : Same(t, f)'
<1>0. ASSUME digest'[t] = digest[t], pc[t] \in {"verify", "compare", "mounted"}
      PROVE  store'[digest[t]] # NoTree
  BY <1>0, Places, StoreKept DEF VerifiedSoFar
<1>1. ASSUME digest'[t] = digest[t], pc[t] \in {"compare", "mounted"}, digest[t] # Empty
      PROVE  /\ Files(store'[digest[t]]) = Files(digest[t])
             /\ Unshared(digest[t])' => /\ \A f \in Files(digest[t]) \ left[t] : Same(t, f)
                                       /\ store'[digest[t]] = store[digest[t]]
  <2>1. PICK d \in Digest : d = digest[t]
    BY Places
  <2>2. store[d] # NoTree /\ Files(store[d]) = Files(d)
    BY <1>1, <2>1 DEF VerifiedSoFar
  <2>3. Files(d) # {}
    BY <1>1, <2>1 DEF Files, Digest, Empty
  <2>4. store[d] # Empty
    BY <2>2, <2>3, Trees
  <2>5. Unshared(digest[t])' <=> Unshared(d)'
    BY <1>1, <2>1 DEF Unshared
  <2>6. Unshared(d)' => Unshared(digest[t]) /\ store'[d] = store[d]
    BY <2>1, <2>2, <2>4, UnsharedBefore, StoreKept
  <2>7. Files(store'[d]) = Files(d)
    BY <2>2, <2>4, StoreKept
  <2> QED BY <1>1, <2>1, <2>5, <2>6, <2>7 DEF VerifiedSoFar
<1>2. ASSUME digest'[t] = digest[t], pc'[t] = pc[t], left'[t] = left[t],
             pc[t] \in {"verify", "compare", "mounted"}
      PROVE  Sound
  BY <1>0, <1>1, <1>2 DEF Same
<1>3. ASSUME NEW s \in Session, Step(s), s # t, pc[t] \in {"verify", "compare", "mounted"}
      PROVE  Sound
  BY <1>2, <1>3, OthersKept
<1>4. ASSUME Step(t), pc'[t] \in {"verify", "compare", "mounted"}
      PROVE  Sound
  <2>1. CASE List(t)
    <3>1. PICK listed \in Listing : List(t)!2!(listed)
      BY <2>1 DEF List
    <3>2. pc'[t] = "verify" /\ store[digest[t]] # NoTree
      BY <1>4, <3>1 DEF AfterWalk, Goto, TypeOK
    <3> QED BY <2>1, <3>2 DEF List
  <2>2. CASE Walk(t)
    <3>1. PICK f \in left[t] : Walk(t)!2!(f)
      BY <2>2 DEF Walk
    <3>2. pc'[t] = "verify" /\ store[digest'[t]] # NoTree
      BY <1>4, <3>1 DEF AfterWalk, Take, Goto, TypeOK
    <3> QED BY <2>2, <3>2 DEF Walk
  <2>3. CASE Rename(t)
    <3>1. pc'[t] = "verify" /\ digest' = digest /\ store'[digest[t]] = staging[Place(t)]
      BY <2>3, Places DEF Rename, TypeOK, Goto
    <3> QED BY <2>3, <3>1 DEF Rename
  <2>4. CASE ListRoot(t)
    <3>1. pc[t] = "verify" /\ digest' = digest /\ store' = store
      BY <2>4 DEF ListRoot
    <3>2. /\ Files(store[digest[t]]) = Files(digest[t]) /\ left'[t] = Files(digest[t])
      BY <1>4, <2>4 DEF ListRoot, Goto, TypeOK
    <3> QED BY <1>0, <3>1, <3>2
  <2>5. CASE Verify(t)
    <3>1. PICK f \in left[t] : IF Same(t, f) THEN Take(t, f, "compare", "mounted")
                               ELSE left' = [left EXCEPT ![t] = {}] /\ Goto(t, "refused")
      BY <2>5 DEF Verify
    <3>2. pc[t] = "compare" /\ digest' = digest /\ store' = store
      BY <2>5 DEF Verify
    <3>3. Same(t, f) /\ left'[t] = left[t] \ {f}
      BY <1>4, <3>1 DEF Take, Goto, TypeOK
    <3> QED BY <1>0, <1>1, <3>2, <3>3 DEF Same
  <2>6. CASE MakeStaging(t) \/ Relist(t) \/ SkipCopy(t) \/ OpenCopy(t) \/ WriteCopy(t)
             \/ ChmodCopy(t) \/ Fail(t)
    BY <1>4, <2>6 DEF MakeStaging, Relist, SkipCopy, OpenCopy, WriteCopy, ChmodCopy, Fail,
                      Take, Goto, TypeOK
  <2> QED BY <1>4, <2>1, <2>2, <2>3, <2>4, <2>5, <2>6 DEF Step
<1>5. ASSUME Edit \/ Remove \/ UNCHANGED vars, pc[t] \in {"verify", "compare", "mounted"}
      PROVE  Sound
  BY <1>2, <1>5 DEF Edit, Remove, vars
<1>6. pc'[t] \in {"verify", "compare", "mounted"} => Sound
  <2>1. ASSUME NEW s \in Session, Step(s), s # t PROVE pc'[t] = pc[t]
    BY <2>1, OthersKept
  <2>2. Edit \/ Remove \/ UNCHANGED vars => pc'[t] = pc[t]
    BY DEF Edit, Remove, vars
  <2> QED BY <1>3, <1>4, <1>5, <2>1, <2>2 DEF Next
<1> QED BY <1>6

\* A directory is published only by a rename, when its session has nothing
\* left to copy.
LEMMA StepPublished ==
  TypeOK /\ LeftFits /\ HandlesHeld /\ StagingKept /\ PublishedWhole /\ [Next]_vars
    => PublishedWhole'
<1> SUFFICES ASSUME TypeOK, LeftFits, HandlesHeld, StagingKept, PublishedWhole, [Next]_vars,
                    NEW d \in Digest, store'[d] # NoTree,
                    NEW f \in Files(d) \ Files(store'[d])
             PROVE  \E s \in Session : pc'[s] \notin Walking /\ digest'[s] = d /\ f \in gone'[s]
  BY DEF PublishedWhole, Files
<1>1. ASSUME store[d] # NoTree, Files(store'[d]) = Files(store[d])
      PROVE  \E s \in Session : pc'[s] \notin Walking /\ digest'[s] = d /\ f \in gone'[s]
  <2>1. PICK s \in Session : pc[s] \notin Walking /\ digest[s] = d /\ f \in gone[s]
    BY <1>1 DEF PublishedWhole
  <2> QED BY <2>1, Walked
<1>2. ASSUME NEW s \in Session, Rename(s), digest[s] = d
      PROVE  f \in gone[s]
  <2>1. store'[d] = staging[Place(s)]
    BY <1>2, Places DEF Rename, TypeOK
  <2>2. pc[s] = "rename" /\ left[s] = {} /\ Vacant(digest[s])
    BY <1>2 DEF Rename, LeftFits
  <2> QED BY <1>2, <2>1, <2>2 DEF StagingKept, Files
<1>3. ASSUME NEW s \in Session, Rename(s), digest[s] = d
      PROVE  pc'[s] \notin Walking /\ digest'[s] = d /\ f \in gone'[s]
  BY <1>2, <1>3 DEF Rename, Goto, TypeOK, Walking
<1>4. ASSUME \A s \in Session : ~(Rename(s) /\ digest[s] = d)
      PROVE  store[d] # NoTree /\ Files(store'[d]) = Files(store[d])
  <2>1. CASE store[d] # NoTree /\ store[d] # Empty
    BY <2>1, StoreKept
  <2>2. CASE store[d] \in {NoTree, Empty}
    <3>1. ASSUME NEW s \in Session, WriteCopy(s), handle[s] = "store"
          PROVE  digest[s] # d
      <4>1. PICK g \in copying[s] : WriteCopy(s)!2!(g)
        BY <3>1 DEF WriteCopy
      <4>2. g \in File /\ store[digest[s]] # NoTree /\ store[digest[s]][g] # Absent
        BY <3>1, <4>1 DEF HandlesHeld, TypeOK
      <4> QED BY <2>2, <4>2 DEF Empty
    <3>2. ASSUME NEW s \in Session, Step(s) PROVE store'[d] = store[d]
      <4>1. CASE WriteCopy(s)
        BY <3>1, <4>1 DEF WriteCopy, TypeOK
      <4>2. CASE Rename(s)
        BY <1>4, <4>2 DEF Rename, TypeOK
      <4>3. CASE ~WriteCopy(s) /\ ~Rename(s)
        BY <3>2, <4>3 DEF Step, List, Walk, MakeStaging, Relist, SkipCopy, OpenCopy, ChmodCopy,
                          ListRoot, Verify, Fail
      <4> QED BY <4>1, <4>2, <4>3
    <3>3. store'[d] = store[d]
      BY <3>2 DEF Next, Edit, Remove, vars
    <3> QED BY <3>3
  <2> QED BY <2>1, <2>2
<1> QED BY <1>1, <1>3, <1>4

\* Nothing is built, held, verified or published at the start.
LEMMA InitInductive == Init => Inductive
<1> SUFFICES ASSUME Init PROVE Inductive
  OBVIOUS
<1>1. TypeOK
  BY InitType
<1>2. \A s \in Session : pc[s] = "list" /\ handle[s] = "no" /\ digest[s] = Empty
  BY DEF Init
<1>3. PublishedWhole
  BY DEF Init, PublishedWhole
<1> QED BY <1>1, <1>2, <1>3 DEF Inductive, LeftFits, HandlesHeld, GoneFits, StagingKept,
                                VerifiedSoFar, Building

\* Every step keeps the invariant.
LEMMA StepInductive == Inductive /\ [Next]_vars => Inductive'
  BY StepType, StepLeft, StepHandles, StepGone, StepStaging, StepVerified, StepPublished
     DEF Inductive

(***************************************************************************)
(* The theorems.                                                           *)
(***************************************************************************)

\* The invariant behind the others: what sessions that build, write, publish
\* and verify in one store may rely on between their calls.
THEOREM StoreInductive == Spec => []Inductive
  BY InitInductive, StepInductive, PTL DEF Spec

\* The store's variables keep their types: nobody writes a file of a
\* directory that is not there.
THEOREM StoreTypeOK == Spec => []TypeOK
<1>1. Inductive => TypeOK
  BY DEF Inductive
<1> QED BY <1>1, StoreInductive, PTL

\* buildSnapshot() makes a directory visible under its digest with every file
\* of the digest in it, however many sessions and processes build, but for
\* files removed from the skill while one of them was building.
THEOREM StorePublishedWhole == Spec => []PublishedWhole
<1>1. Inductive => PublishedWhole
  BY DEF Inductive
<1> QED BY <1>1, StoreInductive, PTL

\* A session that verifySnapshot() lets through mounts exactly the files it
\* has the digest of, whatever was removed or added meanwhile, and exactly
\* their content, unless sessions share the staging directory of it.
THEOREM StoreMountedIntact == Spec => []MountedIntact
<1>1. Inductive => MountedIntact
  <2> SUFFICES ASSUME Inductive, NEW s \in Session, pc[s] = "mounted", digest[s] # Empty
               PROVE  /\ Files(store[digest[s]]) = Files(digest[s])
                      /\ Unshared(digest[s]) => Intact(digest[s])
    BY DEF MountedIntact
  <2>1. /\ store[digest[s]] # NoTree
        /\ Files(store[digest[s]]) = Files(digest[s])
        /\ Unshared(digest[s]) =>
             \A f \in Files(digest[s]) : store[digest[s]][f] = digest[s][f]
    BY DEF Inductive, VerifiedSoFar, LeftFits, Same
  <2>2. digest[s] \in Digest /\ store[digest[s]] \in Tree
    BY <2>1, Places DEF Inductive, TypeOK
  <2>3. ASSUME Unshared(digest[s]) PROVE store[digest[s]] = digest[s]
    <3>1. \A f \in File : store[digest[s]][f] = digest[s][f]
      BY <2>1, <2>3 DEF Files
    <3> QED BY <2>2, <3>1 DEF Digest, Tree
  <2> QED BY <2>1, <2>3 DEF Intact
<1> QED BY <1>1, StoreInductive, PTL

\* An intact snapshot is never altered, by whoever builds, fails or publishes,
\* unless sessions share its staging directory and the skill was edited.
THEOREM StoreIntactStays == Spec => IntactStays
<1>1. Inductive /\ [Next]_vars
        => [\A d \in Digest \ {Empty} :
              Intact(d) /\ (Unshared(d) \/ (source = d /\ NoneKept(d))) => Intact(d)']_vars
  <2> SUFFICES ASSUME Inductive, [Next]_vars,
                      NEW d \in Digest \ {Empty}, Intact(d),
                      Unshared(d) \/ (source = d /\ NoneKept(d))
               PROVE  Intact(d)'
    OBVIOUS
  <2>1. store[d] # NoTree /\ store[d] # Empty
    BY Trees DEF Intact
  <2>2. store'[d] = d
    BY <2>1, StoreKept DEF Inductive, Intact
  <2> QED BY <2>2 DEF Intact
<1> QED BY <1>1, StoreInductive, PTL DEF Spec, IntactStays
=============================================================================
