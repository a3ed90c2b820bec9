--------------------------- MODULE GatewaySessions ---------------------------
(***************************************************************************)
(* The chat sessions of the gateway (session.ts) and the handlers that     *)
(* share them: those of the channels (channels/channel-handler.ts) and     *)
(* /ask (agent-protocol.ts).  A handler keeps the session object over its  *)
(* awaits, while others add to it, it expires, or a new one takes its      *)
(* place.                                                                  *)
(***************************************************************************)
EXTENDS Integers, Sequences, FiniteSets

CONSTANTS
  Message,    \* messages that come in
  Peer,       \* (platform, channel, user): the key of a session
  From,       \* who sends each message
  ById,       \* the messages that come by /ask with the id of a session
  MaxMessages \* 50 in the code

SessionsAssumption ==
  From \in [Message -> Peer] /\ ById \subseteq Message /\ MaxMessages \in Nat \ {0}

VARIABLES
  sessions, \* every session object made: its peer and its messages
  current,  \* the session in the map for each peer, 0 if there is none
  expired,  \* the sessions without a message for half an hour
  handler,  \* the await the handler of each message is at
  inSession,\* the session it keeps
  credited  \* the implicit feedback recorded: which message, for the answer to which

sessionVars == <<sessions, current, expired, handler, inSession, credited>>

Entry == [by : {"user", "assistant"}, of : Message, skill : BOOLEAN]

SessionsTypeOK ==
  /\ \A s \in 1..Len(sessions) : /\ sessions[s].peer \in Peer
                                 /\ sessions[s].messages \in Seq(Entry)
                                 /\ Len(sessions[s].messages) <= MaxMessages
  /\ current \in [Peer -> 0..Len(sessions)] /\ expired \subseteq 1..Len(sessions)
  /\ handler \in [Message -> {"new", "running", "done"}]
  /\ inSession \in [Message -> 0..Len(sessions)]
  /\ credited \subseteq Message \X Message

SessionsInit ==
  /\ sessions = <<>> /\ current = [p \in Peer |-> 0] /\ expired = {}
  /\ handler = [m \in Message |-> "new"] /\ inSession = [m \in Message |-> 0] /\ credited = {}
----------------------------------------------------------------------------
(***************************************************************************)
(* SessionManager.                                                         *)
(***************************************************************************)

\* addMessage(): the last MaxMessages are kept.
Added(messages, e) ==
  LET all == Append(messages, e) n == Len(all) IN
  SubSeq(all, IF n > MaxMessages THEN n - MaxMessages + 1 ELSE 1, n)

Says(m) == [by |-> "user", of |-> m, skill |-> FALSE]
Replies(m, skill) == [by |-> "assistant", of |-> m, skill |-> skill]

\* getOrCreate(): the session in the map unless it has expired; else a new one.
Live(p) == current[p] # 0 /\ current[p] \notin expired

\* The messages of session s, none if it is new.
MessagesOf(s) == IF s <= Len(sessions) THEN sessions[s].messages ELSE <<>>

\* The session s, of peer p, in the map, now has these messages.
Extend(s, p, messages) ==
  /\ sessions' = IF s <= Len(sessions)
                 THEN [sessions EXCEPT ![s].messages = messages]
                 ELSE Append(sessions, [peer |-> p, messages |-> messages])
  /\ expired' = expired \ {s}

\* The time to live passes; prune() takes the session out of the map.
Expire(s) ==
  /\ s \notin expired /\ expired' = expired \cup {s}
  /\ UNCHANGED <<sessions, current, handler, inSession, credited>>

Prune(p) ==
  /\ current[p] \in expired /\ current' = [current EXCEPT ![p] = 0]
  /\ UNCHANGED <<sessions, expired, handler, inSession, credited>>
----------------------------------------------------------------------------
(***************************************************************************)
(* The handlers.                                                           *)
(***************************************************************************)

\* A message is for the session of its sender's key; or, by /ask with the id of a session,
\* for that session, whosever it is and expired or not, as long as the map has it.
SessionFor(m) ==
  {IF Live(From[m]) THEN current[From[m]] ELSE Len(sessions) + 1}
    \cup IF m \in ById THEN {current[p] : p \in Peer} \ {0} ELSE {}

\* The handler of m has taken s for its session; a new one goes into the map.
Joins(m, s) ==
  /\ inSession' = [inSession EXCEPT ![m] = s]
  /\ current' = IF s <= Len(sessions) THEN current ELSE [current EXCEPT ![From[m]] = s]

\* A message is added and routed.
Receive(m) ==
  /\ handler[m] = "new"
  /\ \E s \in SessionFor(m) :
       /\ Extend(s, From[m], Added(MessagesOf(s), Says(m)))
       /\ Joins(m, s)
  /\ handler' = [handler EXCEPT ![m] = "running"]
  /\ UNCHANGED credited

\* The last answer of a skill in the session.
LastSkill(messages) ==
  {messages[i].of : i \in {i \in 1..Len(messages) :
     messages[i].skill /\ \A j \in i + 1..Len(messages) : ~messages[j].skill}}

\* /ask takes a message that looks like feedback for feedback on the last skill that
\* answered in the session, and thanks for it; without an id the session is a new one.
Feedback(m) ==
  /\ m \in ById /\ handler[m] = "new"
  /\ \E s \in SessionFor(m) :
       /\ s <= Len(sessions)
       /\ \E about \in LastSkill(Added(MessagesOf(s), Says(m))) :
            credited' = credited \cup {<<m, about>>}
       /\ Extend(s, From[m], Added(Added(MessagesOf(s), Says(m)), Replies(m, FALSE)))
       /\ Joins(m, s)
  /\ handler' = [handler EXCEPT ![m] = "done"]

\* The answer of the model or of a skill goes to the session the handler has kept.
Answer(m) ==
  /\ handler[m] = "running"
  /\ \E skill \in BOOLEAN :
       Extend(inSession[m], From[m], Added(MessagesOf(inSession[m]), Replies(m, skill)))
  /\ handler' = [handler EXCEPT ![m] = "done"]
  /\ UNCHANGED <<current, inSession, credited>>

\* Missing credentials or tools, and errors, are answered but not kept.
Unanswered(m) ==
  /\ handler[m] = "running" /\ handler' = [handler EXCEPT ![m] = "done"]
  /\ UNCHANGED <<sessions, current, expired, inSession, credited>>

SessionsNext ==
  \/ \E m \in Message : Feedback(m) \/ Receive(m) \/ Answer(m) \/ Unanswered(m)
  \/ \E s \in 1..Len(sessions) : Expire(s)
  \/ \E p \in Peer : Prune(p)

SessionsSpec == SessionsInit /\ [][SessionsNext]_sessionVars
----------------------------------------------------------------------------
(***************************************************************************)
(* What the sessions promise.                                              *)
(***************************************************************************)

\* However the handlers of one chat interleave and its sessions expire, a question and its
\* answer are in the session that the question came to, the answer after the question
\* unless the cap has dropped it; no question is answered twice; and feedback is for a
\* skill that answered in the session it came to.  Only a message with the id of a
\* session gets into the session of another sender, where it may rate the answers.
AnswersInContext ==
  /\ \A s \in 1..Len(sessions) :
       LET messages == sessions[s].messages
           Answers(i) == messages[i].by = "assistant" IN
       \A i \in 1..Len(messages) :
         /\ inSession[messages[i].of] = s
         /\ From[messages[i].of] = sessions[s].peer \/ messages[i].of \in ById
         /\ Answers(i) =>
              /\ \/ \E j \in 1..i - 1 : messages[j] = Says(messages[i].of)
                 \/ Len(messages) = MaxMessages
              /\ \A j \in 1..Len(messages) :
                   Answers(j) /\ messages[j].of = messages[i].of => j = i
  /\ \A c \in credited : inSession[c[1]] = inSession[c[2]]
=============================================================================
