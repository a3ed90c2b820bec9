----------------------------- MODULE PeerPairing -----------------------------
(***************************************************************************)
(* The policy for direct messages (security/dm-policy.ts) and the pairing  *)
(* store behind it (security/pairing-store.ts): a peer that is not paired  *)
(* is sent a code, and its messages are dropped until it replies with it.  *)
(* The store keeps pairs by peer and channel, but pending codes by peer.   *)
(***************************************************************************)
EXTENDS Integers, FiniteSets

CONSTANTS
  Chat,     \* channel types
  PeerId,   \* ids of peers: the same id may be in use on two channels
  MaxCodes  \* bound: the codes made

PairingAssumption == MaxCodes \in Nat

VARIABLES
  peers,       \* the pairs (peer, channel) in pairing.json
  pendingCode, \* the code that is pending for each peer, 0 if none
  dueCodes,    \* the codes that have expired
  codes,       \* the number of codes made
  sentTo,      \* the channel each code was sent to
  verdict      \* the last verdict: which peer, on which channel, what, and with which code

pairingVars == <<peers, pendingCode, dueCodes, codes, sentTo, verdict>>

Unknown == "unknown"
Channels == Chat \cup {Unknown}

PairingTypeOK ==
  /\ peers \subseteq PeerId \X Channels /\ pendingCode \in [PeerId -> 0..MaxCodes]
  /\ codes \in 0..MaxCodes /\ dueCodes \subseteq 1..codes
  /\ DOMAIN sentTo = 1..codes /\ \A c \in 1..codes : sentTo[c] \in PeerId \X Chat
  /\ verdict.result \in {"none", "allow", "pairing_code_sent"}

NoVerdict == [result |-> "none"]

PairingInit ==
  /\ peers = {} /\ pendingCode = [p \in PeerId |-> 0] /\ dueCodes = {} /\ codes = 0
  /\ sentTo = <<>> /\ verdict = NoVerdict
----------------------------------------------------------------------------
Paired(p, ch) == <<p, ch>> \in peers

\* generatePairingCode(): a new code takes the place of the one before.
Challenge(p, ch) ==
  /\ codes < MaxCodes /\ codes' = codes + 1
  /\ pendingCode' = [pendingCode EXCEPT ![p] = codes + 1]
  /\ sentTo' = [c \in 1..codes + 1 |-> IF c = codes + 1 THEN <<p, ch>> ELSE sentTo[c]]
  /\ verdict' = [result |-> "pairing_code_sent", peer |-> p, chat |-> ch, code |-> 0]

\* validatePairingCode(): the right code in time pairs the peer, on no channel that a
\* message comes from.
Valid(p, code) == code # 0 /\ code = pendingCode[p] /\ code \notin dueCodes

\* evaluateDMPolicy() in the mode `pairing`: a message with a code, or none (0).
DirectMessage(p, ch, code) ==
  IF Paired(p, ch) THEN
    /\ verdict' = [result |-> "allow", peer |-> p, chat |-> ch, code |-> 0]
    /\ UNCHANGED <<peers, pendingCode, dueCodes, codes, sentTo>>
  ELSE IF Valid(p, code) THEN
    /\ peers' = peers \cup {<<p, Unknown>>} /\ pendingCode' = [pendingCode EXCEPT ![p] = 0]
    /\ verdict' = [result |-> "allow", peer |-> p, chat |-> ch, code |-> code]
    /\ UNCHANGED <<dueCodes, codes, sentTo>>
  ELSE Challenge(p, ch) /\ UNCHANGED <<peers, dueCodes>>

Approve(p, ch) ==
  /\ ~Paired(p, ch) /\ peers' = peers \cup {<<p, ch>>} /\ verdict' = NoVerdict
  /\ UNCHANGED <<pendingCode, dueCodes, codes, sentTo>>

Revoke(p, ch) ==
  /\ Paired(p, ch) /\ peers' = peers \ {<<p, ch>>} /\ verdict' = NoVerdict
  /\ UNCHANGED <<pendingCode, dueCodes, codes, sentTo>>

\* Ten minutes pass.
CodeExpires(c) ==
  /\ c \notin dueCodes /\ dueCodes' = dueCodes \cup {c} /\ verdict' = NoVerdict
  /\ UNCHANGED <<peers, pendingCode, codes, sentTo>>

PairingNext ==
  \/ \E p \in PeerId, ch \in Chat :
       Approve(p, ch) \/ Revoke(p, ch) \/ \E code \in 0..codes : DirectMessage(p, ch, code)
  \/ \E c \in 1..codes : CodeExpires(c)

PairingSpec == PairingInit /\ [][PairingNext]_pairingVars
----------------------------------------------------------------------------
\* A direct message is let through only if its sender is paired on that channel, or
\* answers with the code that was last sent to that id, in time; a code that was used,
\* replaced or has expired lets no message through.
AllowedEarned ==
  verdict.result = "allow" =>
    \/ verdict.code = 0 /\ Paired(verdict.peer, verdict.chat)
    \/ /\ verdict.code \notin dueCodes
       /\ sentTo[verdict.code][1] = verdict.peer
       /\ \A c \in 1..codes : c > verdict.code => sentTo[c][1] # verdict.peer
       /\ pendingCode[verdict.peer] = 0
=============================================================================
