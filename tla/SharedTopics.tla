---------------------------- MODULE SharedTopics ----------------------------
(***************************************************************************)
(* The shareable topics of one companion and how a random visit chooses    *)
(* among them.  The owner creates, rewrites and revokes topics and turns   *)
(* random visits on and off (companion.service.ts); an invitation in mode  *)
(* random_host_topic takes the topic that was used longest ago and marks   *)
(* it used (visit.service.ts resolveInvitationTopic).  Invitations to one  *)
(* host hold the lock on his account, so they never overlap; the owner's   *)
(* requests take no such lock and land between the reads and the writes of *)
(* an invitation, and between those of a policy change.                    *)
(*                                                                         *)
(* The text of a topic is left out, and so is the audience: the only value *)
(* the request may carry is "friends".                                     *)
(***************************************************************************)
EXTENDS Naturals

CONSTANTS Topics,          \* topic ids
          NoTopic,         \* no topic is being selected
          MaxTopicTime     \* bound: writes to topics

ASSUME TopicAssumption == NoTopic \notin Topics /\ MaxTopicTime \in Nat

VARIABLES topic,           \* the ShareableTopic rows
          randomOn,        \* NetworkCompanion.randomVisitsEnabled
          policy,          \* updateSocialPolicy, between its count and its write
          selecting,       \* the topic an invitation read and has yet to mark
          topicTime,       \* the time of the last write
          overlooked       \* history: what was on offer ever since a topic's use

topicVars == <<topic, randomOn, policy, selecting, topicTime, overlooked>>

Expiry == {"never", "ahead", "past"}
TopicRow == [state : {"absent", "shared", "revoked"}, random : BOOLEAN,
             expiry : Expiry, lastUsedAt : 0..MaxTopicTime,
             updatedAt : 0..MaxTopicTime]

Absent == [state |-> "absent", random |-> FALSE, expiry |-> "never",
           lastUsedAt |-> 0, updatedAt |-> 0]

TopicTypeOK ==
  /\ topic \in [Topics -> TopicRow]
  /\ randomOn \in BOOLEAN
  /\ policy \in {"idle", "on", "off"}
  /\ selecting \in Topics \cup {NoTopic}
  /\ topicTime \in 0..MaxTopicTime
  /\ overlooked \in [Topics -> SUBSET Topics]

\* The where clause shared by the selection, the policy and the revocation.
OnOffer(t) ==
  /\ topic[t].state = "shared"
  /\ topic[t].random
  /\ topic[t].expiry # "past"

TopicInit ==
  /\ topic = [t \in Topics |-> Absent]
  /\ randomOn = FALSE
  /\ policy = "idle"
  /\ selecting = NoTopic
  /\ topicTime = 0
  /\ overlooked = [t \in Topics |-> {}]

\* One write to the row of t, at a new time; the rows that left the offer or
\* were used are no longer overlooked.
WriteTopic(t, row) ==
  /\ topicTime < MaxTopicTime
  /\ topicTime' = topicTime + 1
  /\ topic' = [topic EXCEPT ![t] = [row EXCEPT !.updatedAt = topicTime + 1]]

StillOverlooked(gone) == [t \in Topics |-> overlooked[t] \ gone]

OffTheOffer(t) == StillOverlooked(IF OnOffer(t)' THEN {} ELSE {t})

-----------------------------------------------------------------------------
(* The owner's requests.                                                    *)

\* normalizeShareableTopic refuses an expiry that is not ahead.
RequestedExpiry == {"never", "ahead"}

OwnedTopic(t) == topic[t].state # "absent"

CreateShareableTopic(t, random, expiry) ==
  /\ ~OwnedTopic(t)
  /\ WriteTopic(t, [Absent EXCEPT !.state = "shared", !.random = random,
                                  !.expiry = expiry])
  /\ UNCHANGED <<randomOn, policy, selecting, overlooked>>

\* The update brings a revoked topic back.  A request without an expiry keeps
\* the one the row has, even when it is past.
UpdateShareableTopic(t, random, expiry) ==
  /\ OwnedTopic(t)
  /\ WriteTopic(t, [topic[t] EXCEPT !.state = "shared", !.random = random,
                      !.expiry = IF expiry = "never" THEN @ ELSE expiry])
  /\ overlooked' = OffTheOffer(t)
  /\ UNCHANGED <<randomOn, policy, selecting>>

\* One transaction: when no topic remains on offer, random visits end.
RevokeShareableTopic(t) ==
  /\ OwnedTopic(t)
  /\ WriteTopic(t, [topic[t] EXCEPT !.state = "revoked", !.random = FALSE])
  /\ randomOn' = (randomOn /\ \E u \in Topics : OnOffer(u)')
  /\ overlooked' = OffTheOffer(t)
  /\ UNCHANGED <<policy, selecting>>

\* updateSocialPolicy counts the topics on offer and writes afterwards,
\* outside a transaction.  on is the value it will write: the request's or,
\* without one, the value it read.  Whether the companion is published is
\* another component's state: an unready companion only refuses.
CountTopics(on) ==
  /\ policy = "idle"
  /\ on => \E t \in Topics : OnOffer(t)
  /\ policy' = IF on THEN "on" ELSE "off"
  /\ UNCHANGED <<topic, randomOn, selecting, topicTime, overlooked>>

WritePolicy ==
  /\ policy # "idle"
  /\ randomOn' = (policy = "on")
  /\ policy' = "idle"
  /\ UNCHANGED <<topic, selecting, topicTime, overlooked>>

\* Time passes the expiry of a topic.
TopicExpires(t) ==
  /\ topic[t].expiry = "ahead"
  /\ topic' = [topic EXCEPT ![t].expiry = "past"]
  /\ overlooked' = StillOverlooked({t})
  /\ UNCHANGED <<randomOn, policy, selecting, topicTime>>

-----------------------------------------------------------------------------
(* The selection of an invitation in mode random_host_topic.                *)

\* Nulls last: what ORDER BY does unless it is told otherwise.
UsedLongerNullsLast(t, u) ==
  /\ topic[t].lastUsedAt # 0
  /\ topic[u].lastUsedAt = 0 \/ topic[t].lastUsedAt < topic[u].lastUsedAt

\* orderBy lastUsedAt asc with nulls (0 here) first ...
UsedLonger(t, u) == topic[t].lastUsedAt < topic[u].lastUsedAt

\* ... and updatedAt desc.
ChosenBefore(t, u) ==
  \/ UsedLonger(t, u)
  \/ /\ ~UsedLonger(u, t)
     /\ topic[t].updatedAt > topic[u].updatedAt

\* Reads only: the invitation holds the accounts' locks, not the topic's.  That
\* random visits are on is read by an earlier statement, here by the same step:
\* which topic is chosen does not depend on it.
SelectTopic(t) ==
  /\ selecting = NoTopic
  /\ randomOn
  /\ OnOffer(t)
  /\ \A u \in Topics \ {t} : OnOffer(u) => ChosenBefore(t, u)
  /\ selecting' = t
  /\ UNCHANGED <<topic, randomOn, policy, topicTime, overlooked>>

\* The update of lastUsedAt and the commit; @updatedAt moves as well.  The
\* snapshot is the topic as it was read, revoked or not by now.
MarkUsed ==
  /\ selecting # NoTopic
  /\ WriteTopic(selecting, [topic[selecting] EXCEPT !.lastUsedAt = topicTime + 1])
  /\ overlooked' = [StillOverlooked({selecting}) EXCEPT
                      ![selecting] = {u \in Topics \ {selecting} : OnOffer(u)}]
  /\ selecting' = NoTopic
  /\ UNCHANGED <<randomOn, policy>>

\* A later check of the invitation fails and its transaction rolls back.
InvitationFails ==
  /\ selecting # NoTopic
  /\ selecting' = NoTopic
  /\ UNCHANGED <<topic, randomOn, policy, topicTime, overlooked>>

TopicNext ==
  \/ \E t \in Topics, random \in BOOLEAN, expiry \in RequestedExpiry :
       \/ CreateShareableTopic(t, random, expiry)
       \/ UpdateShareableTopic(t, random, expiry)
  \/ \E t \in Topics :
       RevokeShareableTopic(t) \/ TopicExpires(t) \/ SelectTopic(t)
  \/ \E on \in BOOLEAN : CountTopics(on)
  \/ WritePolicy \/ MarkUsed \/ InvitationFails

TopicSpec == TopicInit /\ [][TopicNext]_topicVars

-----------------------------------------------------------------------------
\* A topic is used again only after every topic that has been on offer ever
\* since its last use: the owner's rewrites, which also move updatedAt, and
\* the invitations that fail never let one topic push another aside.
\* (resolveInvitationTopic, visit.service.ts:485-496)
TopicsTakeTurns ==
  [][\A t \in Topics :
       topic'[t].lastUsedAt # topic[t].lastUsedAt => overlooked[t] = {}]_topicVars
=============================================================================
