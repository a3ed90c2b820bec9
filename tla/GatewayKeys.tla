----------------------------- MODULE GatewayKeys -----------------------------
(***************************************************************************)
(* What a request to the agent gateway passes first: the API keys and      *)
(* their quota (auth-middleware.ts), then the rate limiter (rate-          *)
(* limiter.ts).  The keys are in memory and in api-keys.json, which is     *)
(* overwritten in place; the usage is saved at every tenth request only.   *)
(***************************************************************************)
EXTENDS Integers, FiniteSets

CONSTANTS
  Key,         \* the keys that are made
  Tier,        \* free, pro, enterprise, admin
  FreeTier,    \* the tier of who registers
  DayLimit,    \* TIER_LIMITS[tier].reqPerDay
  MinuteLimit, \* TIER_RATE_LIMITS, and DEFAULT_RATE_LIMIT for Anyone
  Anyone,      \* a caller without a key, known by its address
  SaveEvery,   \* 10 in the code
  Window,      \* the minute of the rate limiter, in ticks
  MaxClock, MaxDay, MaxLosses \* bounds

Tiers == Tier \cup {Anyone}

KeysAssumption ==
  /\ FreeTier \in Tier /\ Anyone \notin Key \cup Tier
  /\ DayLimit \in [Tier -> Nat] /\ MinuteLimit \in [Tiers -> Nat]
  /\ SaveEvery \in Nat \ {0} /\ Window \in Nat \ {0}
  /\ MaxClock \in Nat /\ MaxDay \in Nat /\ MaxLosses \in Nat

VARIABLES
  keyFile, \* api-keys.json: its entries, or none if it is absent or does not parse
  keys,    \* the entries in memory
  gateway, \* the process runs
  clock, day,
  windows, \* the buckets of the rate limiter: the requests whose time stamps are kept
  served,  \* the requests of a key that its quota let through today
  passed,  \* the requests that the rate limiter let through, in this process
  losses,  \* today's ends without a save, and saves of the usage that failed
  issued,  \* the keys that were made
  revoked  \* the keys whose revocation was answered as done

keyVars == <<keyFile, keys, gateway, clock, day, windows, served, passed, losses, issued,
             revoked>>

None == [tier |-> FreeTier, known |-> FALSE, active |-> FALSE, daily |-> 0, day |-> 0]
NoKeys == [k \in Key |-> None]
Ids == Key \cup {Anyone}

Entries == [Key -> [tier : Tier, known : BOOLEAN, active : BOOLEAN, daily : Nat, day : 0..MaxDay]]

\* A request that was let through: its time, and its number among those of its caller.
Stamp == (0..MaxClock) \X (Nat \ {0})

KeysTypeOK ==
  /\ keyFile \in Entries /\ keys \in Entries /\ gateway \in BOOLEAN
  /\ clock \in 0..MaxClock /\ day \in 0..MaxDay /\ losses \in 0..MaxLosses
  /\ windows \in [Ids -> SUBSET Stamp] /\ passed \in [Ids -> SUBSET Stamp]
  /\ served \in [Key -> Nat] /\ issued \subseteq Key /\ revoked \subseteq issued

KeysInit ==
  /\ keyFile = NoKeys /\ keys = NoKeys /\ gateway = FALSE
  /\ clock = 0 /\ day = 0 /\ losses = 0
  /\ windows = [i \in Ids |-> {}] /\ passed = windows
  /\ served = [k \in Key |-> 0] /\ issued = {} /\ revoked = {}
----------------------------------------------------------------------------
(***************************************************************************)
(* The store.                                                              *)
(***************************************************************************)
limiterVars == <<windows, passed>>
timeVars == <<clock, day>>
keyHistory == <<issued, revoked>>

\* saveStore() throws when it cannot open the file, which then stays as it is, and when
\* a write fails on the way, which leaves a file that does not parse.
SaveFails == keyFile' \in {keyFile, NoKeys}

\* A file that cannot be read is taken for an empty one, and may be written over.
Load ==
  /\ ~gateway /\ gateway' = TRUE /\ keys' \in {keyFile, NoKeys}
  /\ UNCHANGED <<keyFile, timeVars, limiterVars, served, losses, keyHistory>>

\* POST /register makes a free key, POST /keys/create one of any tier.  Keys are
\* random, so none is made twice.
CreateApiKey(k, tier) ==
  /\ gateway /\ k \notin issued /\ issued' = issued \cup {k}
  /\ keys' = [keys EXCEPT ![k] =
                [tier |-> tier, known |-> TRUE, active |-> TRUE, daily |-> 0, day |-> day]]
  /\ keyFile' = keys' \/ SaveFails
  /\ UNCHANGED <<gateway, timeVars, limiterVars, served, losses, revoked>>

\* The key is out of memory at once; POST /keys/revoke answers when it is saved, and
\* fails if that throws.
RevokeApiKey(k) ==
  /\ gateway /\ keys[k].known
  /\ keys' = [keys EXCEPT ![k].active = FALSE]
  /\ \/ keyFile' = keys' /\ revoked' = revoked \cup {k}
     \/ SaveFails /\ UNCHANGED revoked
  /\ UNCHANGED <<gateway, timeVars, limiterVars, served, losses, issued>>

\* The process ends: what it had in memory is gone.
Ends ==
  /\ gateway /\ gateway' = FALSE /\ keys' = NoKeys
  /\ windows' = [i \in Ids |-> {}] /\ passed' = windows'
  /\ UNCHANGED <<timeVars, served, keyHistory>>

\* shutdown() saves the store.
Shutdown == Ends /\ keyFile' = keys /\ UNCHANGED losses

\* A crash does not save it, and may come in the middle of a save; a shutdown whose save
\* throws is one.
Crash == Ends /\ SaveFails /\ losses < MaxLosses /\ losses' = losses + 1
----------------------------------------------------------------------------
(***************************************************************************)
(* A request.  The middleware runs without an await.                       *)
(***************************************************************************)

\* checkQuota(): the count starts anew with the day.
Today(e) == IF e.day = day THEN e ELSE [e EXCEPT !.daily = 0, !.day = day]
InQuota(e) == Today(e).daily < DayLimit[e.tier]
Used(e) == [Today(e) EXCEPT !.daily = @ + 1]

Recent(w, from) == {r \in w : r[1] > from}

\* The sliding window of rateLimiter(): those of the last minute count.
Limited(i, tier) ==
  LET w == Recent(windows[i], clock - Window) r == <<clock, Cardinality(passed[i]) + 1>> IN
  IF Cardinality(w) >= MinuteLimit[tier]
  THEN windows' = [windows EXCEPT ![i] = w] /\ UNCHANGED passed
  ELSE /\ windows' = [windows EXCEPT ![i] = w \cup {r}]
       /\ passed' = [passed EXCEPT ![i] = @ \cup {r}]

\* A valid key within its quota: the use is counted in memory before the rate limiter
\* sees the request, and a save of the usage that throws ends it there.
Request(k) ==
  LET used == Used(keys[k]) IN
  /\ gateway /\ keys[k].known /\ keys[k].active /\ InQuota(keys[k])
  /\ keys' = [keys EXCEPT ![k] = used]
  /\ \/ /\ keyFile' = IF used.daily % SaveEvery = 0 THEN keys' ELSE keyFile
        /\ Limited(k, used.tier)
        /\ served' = [served EXCEPT ![k] = @ + 1]
        /\ UNCHANGED losses
     \/ /\ used.daily % SaveEvery = 0 /\ SaveFails
        /\ losses < MaxLosses /\ losses' = losses + 1
        /\ UNCHANGED <<limiterVars, served>>
  /\ UNCHANGED <<gateway, timeVars, keyHistory>>

\* Where keys are not asked for, the address counts.
RequestAnyone ==
  /\ gateway /\ Limited(Anyone, Anyone)
  /\ UNCHANGED <<keyFile, keys, gateway, timeVars, served, losses, keyHistory>>

\* Time passes; the buckets are pruned now and then.
Tick ==
  /\ clock < MaxClock /\ clock' = clock + 1
  /\ windows' \in {windows, [i \in Ids |-> Recent(windows[i], clock' - 2 * Window)]}
  /\ UNCHANGED <<keyFile, keys, gateway, day, served, passed, losses, keyHistory>>

Midnight ==
  /\ day < MaxDay /\ day' = day + 1
  /\ served' = [k \in Key |-> 0] /\ losses' = 0
  /\ UNCHANGED <<keyFile, keys, gateway, clock, limiterVars, keyHistory>>

KeysNext ==
  \/ Load \/ Shutdown \/ Crash \/ RequestAnyone \/ Tick \/ Midnight
  \/ \E k \in Key : RevokeApiKey(k) \/ Request(k) \/ \E tier \in Tier : CreateApiKey(k, tier)

KeysSpec == KeysInit /\ [][KeysNext]_keyVars
----------------------------------------------------------------------------
(***************************************************************************)
(* What the gateway promises.                                              *)
(***************************************************************************)

\* A crash forgets the uses since the last save, and a save of the usage that fails adds
\* one interval to what the next crash forgets: a key gets through its daily limit, and
\* less than SaveEvery requests more for each of these losses of the day.
QuotaHeld ==
  \A k \in Key : keys[k].known =>
    served[k] <= DayLimit[keys[k].tier] + (SaveEvery - 1) * losses

\* In no minute does the rate limiter let more requests of one caller through than
\* the tier allows, though buckets are pruned and callers come and go.
RateHeld ==
  \A i \in Ids :
    Cardinality(Recent(passed[i], clock - Window)) <=
      MinuteLimit[IF i = Anyone THEN Anyone ELSE keys[i].tier]

\* A key whose revocation was answered as done is out for good, across restarts, the failed
\* writes of other requests, unreadable files and crashes.
RevokedStaysOut == \A k \in revoked : ~keys[k].active /\ ~keyFile[k].active
=============================================================================
