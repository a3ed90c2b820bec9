---------------------------- MODULE SkillRouting -----------------------------
(***************************************************************************)
(* How a request becomes an answer: the router's index and its choice      *)
(* (core/src/router.ts) and the front ends that run what it chose: the web *)
(* route (apps/web api/ask), the CLI's ask and the gateway's /agent/ask.   *)
(* The requests of the web route share a router that is replaced before    *)
(* its index is built.                                                     *)
(***************************************************************************)
EXTENDS Integers, Sequences, FiniteSets, SequencesExt, FiniteSetsExt

CONSTANTS
  Requests,    \* requests
  Skill,       \* skills in the registry
  Eligible,    \* those shouldIncludeSkill() lets through and that can be executed here
  Score,       \* what a skill scores for the query, by which candidates are ordered
  NameMatch,   \* skills whose name has a word of the query
  KeywordMatch,\* skills with a word of the query anywhere
  TopK,        \* how many skills come by similarity, 20 in the code
  MaxNamed,    \* how many more by name, 5
  MaxKeyword,  \* how many without embeddings, 10
  MaxAttempts  \* how many candidates the web route runs, 3, and the CLI, execution.maxRetries

RoutingAssumption ==
  /\ IsFiniteSet(Skill) /\ Eligible \subseteq Skill
  /\ NameMatch \subseteq KeywordMatch /\ KeywordMatch \subseteq Skill
  /\ Score \in [Skill -> Nat] /\ \A s, t \in Skill : Score[s] = Score[t] => s = t
  /\ TopK \in Nat \ {0} /\ MaxNamed \in Nat /\ MaxKeyword \in Nat \ {0}
  /\ MaxAttempts \in Nat \ {0}

VARIABLES
  front,       \* where each request came in
  routers,     \* the web routers made: whether each has its index
  initialized, \* the web route's isInitialized
  request,     \* the await each request is at
  ownRouter,   \* the router its initialisation made, 0 if none
  raced,       \* web requests whose initialisation overlapped another's
  misrouted,   \* requests that were routed before there was an index
  previous,    \* the skill that answered last in the session of a gateway request
  routed,      \* the skills a request is routed to, best first
  attempts,    \* what running them came to
  reply        \* what the request is answered with

routingVars == <<front, routers, initialized, request, ownRouter, raced, misrouted, previous,
                 routed, attempts, reply>>
webRouter == <<routers, initialized, ownRouter, raced>>

Outcomes == {"success", "failed", "throws", "credential", "unsupported"}
Attempt == [skill : Skill, outcome : Outcomes]

RoutingTypeOK ==
  /\ front \in [Requests -> {"web", "cli", "gateway"}]
  /\ routers \in Seq(BOOLEAN) /\ initialized \in BOOLEAN
  /\ request \in [Requests -> {"new", "loading", "indexing", "routing", "running", "answered"}]
  /\ ownRouter \in [Requests -> 0..Len(routers)]
  /\ raced \subseteq Requests /\ misrouted \subseteq Requests
  /\ previous \in [Requests -> SUBSET Skill]
  /\ \A q \in Requests : routed[q] \in Seq(Skill) /\ attempts[q] \in Seq(Attempt)
  /\ reply \in [Requests -> {"none", "model", "skill", "missing", "error"}]

RoutingInit ==
  /\ front \in [Requests -> {"web", "cli", "gateway"}]
  /\ routers = <<>> /\ initialized = FALSE /\ raced = {} /\ misrouted = {}
  /\ request = [q \in Requests |-> "new"] /\ ownRouter = [q \in Requests |-> 0]
  /\ previous = [q \in Requests |-> {}]
  /\ routed = [q \in Requests |-> <<>>] /\ attempts = [q \in Requests |-> <<>>]
  /\ reply = [q \in Requests |-> "none"]

At(q, from, to) == request[q] = from /\ request' = [request EXCEPT ![q] = to]
----------------------------------------------------------------------------
(***************************************************************************)
(* Initialisation: the web route's initOctopus(); the CLI and the gateway  *)
(* have an index of their own before they route.                           *)
(***************************************************************************)

Initialising == {q \in Requests : request[q] \in {"loading", "indexing"}}

\* A request that finds the web route initialised goes straight to the router; one that
\* does not loads the registry, whatever others are doing.
WebBegins(q) ==
  /\ front[q] = "web"
  /\ \/ initialized /\ At(q, "new", "routing") /\ raced' = raced
     \/ /\ ~initialized /\ At(q, "new", "loading")
        /\ raced' = IF Initialising = {} THEN raced ELSE raced \cup Initialising \cup {q}
  /\ UNCHANGED <<front, routers, initialized, ownRouter, misrouted, previous, routed, attempts,
                 reply>>

\* The new router takes the place of the old one and starts to embed the skills.
WebRouter(q) ==
  /\ At(q, "loading", "indexing")
  /\ routers' = Append(routers, FALSE)
  /\ ownRouter' = [ownRouter EXCEPT ![q] = Len(routers) + 1]
  /\ UNCHANGED <<front, initialized, raced, misrouted, previous, routed, attempts, reply>>

\* The index of its router is built, though embeddings may have failed; the request is
\* routed by whatever router is there now.
WebReady(q) ==
  /\ At(q, "indexing", "routing")
  /\ routers' = [routers EXCEPT ![ownRouter[q]] = TRUE] /\ initialized' = TRUE
  /\ UNCHANGED <<front, ownRouter, raced, misrouted, previous, routed, attempts, reply>>

WebFails(q) ==
  /\ At(q, "loading", "answered") /\ reply' = [reply EXCEPT ![q] = "error"]
  /\ UNCHANGED <<front, webRouter, misrouted, previous, routed, attempts>>

\* The CLI builds its index, and the gateway has its engine and the session's last skill.
OwnIndex(q) ==
  /\ front[q] \in {"cli", "gateway"} /\ At(q, "new", "routing")
  /\ \E P \in {{}} \cup {{s} : s \in IF front[q] = "cli" THEN {} ELSE Skill} :
       previous' = [previous EXCEPT ![q] = P]
  /\ UNCHANGED <<front, webRouter, misrouted, routed, attempts, reply>>
----------------------------------------------------------------------------
(***************************************************************************)
(* Router.route().                                                         *)
(***************************************************************************)

Top(S, k) == {s \in S : Cardinality({t \in S : Score[t] > Score[s]}) < k}

\* With embeddings of the query and of skills, the most similar and some that its words
\* name; else those with a word of it, or all.
Candidates(embedded) ==
  LET similar == embedded \cap Eligible
      top == Top(similar, TopK)
      words == KeywordMatch \cap Eligible IN
  IF similar # {} THEN top \cup Top((similar \cap NameMatch) \ top, MaxNamed)
  ELSE Top(IF words # {} THEN words ELSE Eligible, MaxKeyword)

ByScore(S) ==
  CHOOSE best \in [1..Cardinality(S) -> S] :
    \A i, j \in 1..Cardinality(S) : i < j => Score[best[i]] > Score[best[j]]

\* The model picks one of the candidates, which comes first, or none; when it cannot be
\* reached the best by score is the only one.
RouterChoices(C) ==
  IF C = {} THEN {<<>>}
  ELSE {<<>>, <<ByScore(C)[1]>>} \cup {<<s>> \o ByScore(C \ {s}) : s \in C}

\* The web route's router may not have its index yet: then nothing matches.
Indexed(q) == front[q] # "web" \/ Last(routers)

Route(q) ==
  /\ At(q, "routing", "running")
  /\ IF Indexed(q)
     THEN /\ \E embedded \in SUBSET Skill :
               LET C == Candidates(embedded) IN
               \E choice \in RouterChoices(IF C = {} THEN C ELSE C \cup previous[q]) :
                 routed' = [routed EXCEPT ![q] = choice]
          /\ misrouted' = misrouted
     ELSE misrouted' = misrouted \cup {q} /\ routed' = routed
  /\ UNCHANGED <<front, webRouter, previous, attempts, reply>>
----------------------------------------------------------------------------
(***************************************************************************)
(* Running the candidates.                                                 *)
(***************************************************************************)

\* How many candidates a front end runs: the gateway and its channels one.
Limit(q) == IF front[q] = "gateway" THEN Min({1, Len(routed[q])})
            ELSE Min({MaxAttempts, Len(routed[q])})

\* What an outcome is answered with, "none" when the next candidate is tried.  The CLI
\* goes on after everything but a success; the gateway passes on whatever a skill that
\* ran came to.
Ends(f, outcome) ==
  CASE outcome = "success" -> "skill"
    [] outcome = "failed" /\ f = "gateway" -> "skill"
    [] outcome = "throws" /\ f = "gateway" -> "error"
    [] outcome \in {"credential", "unsupported"} /\ f # "cli" -> "missing"
    [] OTHER -> "none"

Run(q) ==
  /\ request[q] = "running" /\ Len(attempts[q]) < Limit(q)
  /\ \E outcome \in Outcomes :
       /\ attempts' = [attempts EXCEPT ![q] =
            Append(@, [skill |-> routed[q][Len(@) + 1], outcome |-> outcome])]
       /\ reply' = [reply EXCEPT ![q] = Ends(front[q], outcome)]
  /\ request' = [request EXCEPT ![q] = IF reply'[q] = "none" THEN "running" ELSE "answered"]
  /\ UNCHANGED <<front, webRouter, misrouted, previous, routed>>

\* With no candidate left the model answers, if it can be reached.
Fallback(q) ==
  /\ Len(attempts[q]) = Limit(q) /\ At(q, "running", "answered")
  /\ \E r \in {"model", "error"} : reply' = [reply EXCEPT ![q] = r]
  /\ UNCHANGED <<front, webRouter, misrouted, previous, routed, attempts>>

RoutingNext == \E q \in Requests :
  \/ WebBegins(q) \/ WebRouter(q) \/ WebReady(q) \/ WebFails(q) \/ OwnIndex(q)
  \/ Route(q) \/ Run(q) \/ Fallback(q)

RoutingSpec == RoutingInit /\ [][RoutingNext]_routingVars
----------------------------------------------------------------------------
(***************************************************************************)
(* What an answer promises.                                                *)
(***************************************************************************)

\* However requests overlap, one is routed without an index only after two requests of
\* the web route have initialised it at once, and only until the last of them is done.
RoutedWhole ==
  /\ misrouted # {} => Cardinality(raced) > 1
  /\ initialized /\ ~Last(routers) => \E q \in raced : request[q] = "indexing"

\* No skill runs for a request that is not eligible, unless the session has just used
\* it, and none runs twice; what answers as a skill has run, with success wherever the
\* front end looks at that; and the model answers only when no candidate has.
AnswerEarned ==
  \A q \in Requests :
    LET a == attempts[q] n == Len(attempts[q]) IN
    /\ \A i \in 1..n : /\ a[i].skill \in Eligible \cup previous[q]
                       /\ \A j \in 1..n : a[i].skill = a[j].skill => i = j
    /\ n <= MaxAttempts /\ \A i \in 1..n - 1 : a[i].outcome # "success"
    /\ reply[q] = "skill" =>
         /\ n > 0
         /\ a[n].outcome \in IF front[q] = "gateway" THEN {"success", "failed"} ELSE {"success"}
    /\ reply[q] = "model" =>
         /\ \A i \in 1..n : a[i].outcome # "success"
         /\ n = Limit(q)
=============================================================================
