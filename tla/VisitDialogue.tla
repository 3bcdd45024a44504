---------------------------- MODULE VisitDialogue ----------------------------
(***************************************************************************)
(* The conversation of a Visit room (VisitSocialService): the approved     *)
(* share, the topics that take turns, who speaks next, the Shared Moment   *)
(* and the relationships it settles; with as much of the room as decides   *)
(* who is there (VisitService, VisitRoomService) and with the deletion of  *)
(* a guest's account, which keeps what was said.                           *)
(*                                                                         *)
(* Every handler is one transaction that locks the session row. A turn     *)
(* that is sent again with its clientTurnId is answered with the turn on   *)
(* record and changes nothing. Visits follow one another among the same    *)
(* people; relationship rows outlive them.                                 *)
(***************************************************************************)
EXTENDS Naturals, Sequences, FiniteSets, SequencesExt

CONSTANTS
  Visitor, Host,
  Guests,
  RoomMaxTurns,       \* ROOM_MAX_TURNS
  MinimumTurns,       \* VisitRoomTopic.minimumTurns
  MaximumTurns,       \* VisitRoomTopic.maximumTurns
  MaxVisits,          \* bound on the visits
  MaxSevered          \* bound on the friendships that end

ASSUME DialogueAssumption ==
  /\ Visitor # Host
  /\ Visitor \notin Guests /\ Host \notin Guests
  /\ RoomMaxTurns \in Nat /\ RoomMaxTurns >= 2         \* 15
  /\ MinimumTurns \in Nat /\ MinimumTurns >= 2         \* 3, the column's default
  /\ MaximumTurns \in Nat /\ MaximumTurns >= MinimumTurns      \* 6, the default
  /\ MaxVisits \in Nat /\ MaxSevered \in Nat

Users == {Visitor, Host} \cup Guests
Pairs == {pair \in SUBSET Users : Cardinality(pair) = 2}
NoTopic == 0
Topic == [state : {"queued", "active", "completed"}, by : Users, text : Users]

VARIABLES
  state,      \* VisitSession.state; "none" before the first visit
  part,       \* VisitSessionParticipant.state; "absent" without a row
  readied,    \* participants with readyAt
  joined,     \* the guests in the order of joinedAt
  topics,     \* VisitRoomTopic by sequence: state, creator and whose text it is
  share,      \* VisitShareEnvelope: topic and whose text it is; topic 0 without a row
  turns,      \* VisitTurn by sequence: sender and topic
  moment,     \* VisitSharedMoment.turnCount, 0 without a row
  bond,       \* CompanionRelationship: visitCount and totalTurnCount by pair
  severed,    \* pairs that are no longer friends, or blocked
  deleting,   \* guests with deletionRequestedAt
  visits,     \* visits begun
  shared,     \* history: Shared Moments of which both of a pair were part
  spoken      \* history: who spoke since a participant last did or became active

vars == <<state, part, readied, joined, topics, share, turns, moment, bond, severed,
          deleting, visits, shared, spoken>>

room == <<state, part, readied, joined, topics, share, turns>>
people == <<severed, deleting>>

NoShare == [topic |-> NoTopic, text |-> Visitor]

Init ==
  /\ state = "none"
  /\ part = [u \in Users |-> "absent"]
  /\ readied = {}
  /\ joined = <<>>
  /\ topics = <<>>
  /\ share = NoShare
  /\ turns = <<>>
  /\ moment = 0
  /\ bond = [pair \in Pairs |-> [visits |-> 0, turns |-> 0]]
  /\ severed = {}
  /\ deleting = {}
  /\ visits = 0
  /\ shared = [pair \in Pairs |-> 0]
  /\ spoken = [u \in Users |-> {}]

TypeOK ==
  /\ state \in {"none", "preparing", "ready", "active", "ended", "cancelled"}
  /\ part \in [Users -> {"absent", "preparing", "ready", "active", "left"}]
  /\ readied \subseteq Users
  /\ joined \in Seq(Guests) /\ IsInjective(joined)
  /\ topics \in Seq(Topic)
  /\ share \in [topic : 0 .. Len(topics), text : Users]
  /\ turns \in Seq([by : Users, topic : 1 .. Len(topics)]) /\ Len(turns) <= RoomMaxTurns
  /\ moment \in 0 .. RoomMaxTurns
  /\ bond \in [Pairs -> [visits : 0 .. MaxVisits, turns : 0 .. RoomMaxTurns * MaxVisits]]
  /\ severed \subseteq Pairs
  /\ deleting \subseteq Guests
  /\ visits \in 0 .. MaxVisits
  /\ shared \in [Pairs -> 0 .. MaxVisits]
  /\ spoken \in [Users -> SUBSET Users]

(***************************************************************************)
(* The room                                                                *)
(***************************************************************************)
Live == state \in {"preparing", "ready", "active"}

(* participantRank, then joinedAt *)
Order == <<Visitor, Host>> \o joined

(* loadParticipants, active ones only: in the places they have in Order *)
Speakers == {u \in Range(Order) : part[u] = "active"}
Place(u) == CHOOSE i \in DOMAIN Order : Order[i] = u

Eligible(people_) ==
  /\ \A pair \in severed : ~(pair \subseteq people_)
  /\ Cardinality(people_) > 1 => people_ \cap deleting = {}

IsParticipant(u) == u \in {Visitor, Host} \/ part[u] \notin {"absent", "left"}

ActiveTopic ==
  IF \E i \in DOMAIN topics : topics[i].state = "active"
    THEN CHOOSE i \in DOMAIN topics :
           /\ topics[i].state = "active"
           /\ \A k \in 1 .. i - 1 : topics[k].state # "active"
    ELSE NoTopic

(* acceptInvitation: a topic, the visitor's or the host's own, comes with   *)
(* the invitation or not at all                                             *)
AcceptInvitation(author) ==
  /\ ~Live
  /\ visits < MaxVisits
  /\ Eligible({Visitor, Host})
  /\ visits' = visits + 1
  /\ state' = "preparing"
  /\ part' = [u \in Users |-> IF u \in {Visitor, Host} THEN "preparing" ELSE "absent"]
  /\ readied' = {}
  /\ joined' = <<>>
  /\ topics' = [i \in 1 .. Cardinality(author) |->
                  [state |-> "active", by |-> CHOOSE a \in author : TRUE,
                   text |-> CHOOSE a \in author : TRUE]]
  /\ share' = IF author = {} THEN NoShare
              ELSE [topic |-> 1, text |-> CHOOSE a \in author : TRUE]
  /\ turns' = <<>>
  /\ moment' = 0
  /\ spoken' = [u \in Users |-> {}]
  /\ UNCHANGED <<bond, people, shared>>

(* setShare: the visitor's own Discovery; an existing first topic keeps its *)
(* creator                                                                  *)
SetShare ==
  /\ state = "preparing"
  /\ Eligible({u \in Users : part[u] # "absent"})
  /\ topics' = IF topics = <<>>
                 THEN <<[state |-> "active", by |-> Visitor, text |-> Visitor]>>
                 ELSE [topics EXCEPT ![1].state = "active", ![1].text = Visitor]
  /\ share' = [topic |-> 1, text |-> Visitor]
  /\ UNCHANGED <<state, part, readied, joined, turns, moment, bond, people, visits,
                 shared, spoken>>

MarkReady(u) ==
  /\ u \in {Visitor, Host}
  /\ state = "preparing"
  /\ Eligible({Visitor, Host})
  /\ part' = [part EXCEPT ![u] = "ready"]
  /\ readied' = readied \cup {u}
  /\ state' = IF {Visitor, Host} \subseteq readied' THEN "ready" ELSE state
  /\ UNCHANGED <<joined, topics, share, turns, moment, bond, people, visits, shared, spoken>>

StartSession ==
  /\ state = "ready"
  /\ Eligible({Visitor, Host})
  /\ state' = "active"
  /\ part' = [u \in Users |-> IF part[u] = "ready" THEN "active" ELSE part[u]]
  /\ UNCHANGED <<readied, joined, topics, share, turns, moment, bond, people, visits,
                 shared, spoken>>

(* acceptJoinRequest, with or without a topic of the guest's *)
AcceptJoinRequest(g, withTopic) ==
  /\ g \in Guests
  /\ state \in {"ready", "active"}
  /\ part[g] = "absent"
  /\ Eligible({g} \cup {u \in Users : part[u] \notin {"absent", "left"}})
  /\ part' = [part EXCEPT ![g] = "preparing"]
  /\ joined' = Append(joined, g)
  /\ topics' = IF withTopic
                 THEN Append(topics, [state |-> "queued", by |-> g, text |-> g])
                 ELSE topics
  /\ UNCHANGED <<state, readied, share, turns, moment, bond, people, visits, shared,
                 spoken>>

MarkParticipantReady(u) ==
  /\ part[u] \in {"preparing", "ready"}
  /\ part' = [part EXCEPT ![u] = "active"]
  /\ readied' = readied \cup {u}
  /\ spoken' = [spoken EXCEPT ![u] = {}]
  /\ UNCHANGED <<state, joined, topics, share, turns, moment, bond, people, visits, shared>>

LastSender == IF turns = <<>> THEN {} ELSE {Last(turns).by}

(* The rotation starts again when the last speaker leaves *)
LeaveRoom(u) ==
  /\ u # Host
  /\ part[u] \notin {"absent", "left"}
  /\ part' = [part EXCEPT ![u] = "left"]
  /\ spoken' = IF u \in LastSender THEN [p \in Users |-> {}] ELSE spoken
  /\ UNCHANGED <<state, readied, joined, topics, share, turns, moment, bond, people,
                 visits, shared>>

(* endRoom: everybody left *)
Emptied == [u \in Users |-> IF part[u] = "absent" THEN "absent" ELSE "left"]

(* endSession, by its people or for want of a heartbeat *)
EndSession ==
  /\ Live
  /\ state' = IF state = "active" THEN "ended" ELSE "cancelled"
  /\ part' = Emptied
  /\ UNCHANGED <<readied, joined, topics, share, turns, moment, bond, people, visits,
                 shared, spoken>>

(***************************************************************************)
(* Turns                                                                   *)
(***************************************************************************)

(* mutant: the turn number picks the speaker *)
NextActorByCount ==
  CHOOSE u \in Speakers :
    Cardinality({p \in Speakers : Place(p) < Place(u)}) = Len(turns) % Cardinality(Speakers)

First(people_) == CHOOSE u \in people_ : \A p \in people_ : Place(u) <= Place(p)

(* nextActor: the speaker after the last sender, or the first one when      *)
(* there is none or the last sender speaks no more                          *)
NextActor ==
  LET later == {p \in Speakers : \E s \in LastSender \cap Speakers : Place(s) < Place(p)}
  IN  First(IF later = {} THEN Speakers ELSE later)

TurnsBy(who, turns_) == Cardinality({i \in DOMAIN turns_ : turns_[i].by \in who})

TurnsOn(topic, turns_) == Cardinality({i \in DOMAIN turns_ : turns_[i].topic = topic})

Queued(after) == {i \in DOMAIN topics : topics[i].state = "queued" /\ i > after}

(* mutant: everybody with a row, ready or not *)
SettledUnready(turns_) ==
  bond' = [pair \in Pairs |->
    IF \A u \in pair : part[u] # "absent"
      THEN [visits |-> bond[pair].visits + 1,
            turns |-> bond[pair].turns + TurnsBy(pair, turns_)]
      ELSE bond[pair]]

(* settleRelationships: every pair that was ready, and the turns of the two *)
Settled(turns_) ==
  bond' = [pair \in Pairs |->
    IF pair \subseteq readied
      THEN [visits |-> bond[pair].visits + 1,
            turns |-> bond[pair].turns + TurnsBy(pair, turns_)]
      ELSE bond[pair]]

Together == [pair \in Pairs |-> IF pair \subseteq readied THEN shared[pair] + 1
                                ELSE shared[pair]]

(* ensureMoment: the insert that wins settles *)
EnsureMoment(turns_) ==
  IF moment = 0
    THEN moment' = Len(turns_) /\ Settled(turns_) /\ shared' = Together
    ELSE UNCHANGED <<moment, bond, shared>>

(* A topic is over at the room's limit, at its own, or at a natural boundary *)
TopicOver(topic, turns_, boundary) ==
  \/ Len(turns_) >= RoomMaxTurns
  \/ TurnsOn(topic, turns_) >= MaximumTurns
  \/ TurnsOn(topic, turns_) >= MinimumTurns /\ boundary

(* mutant: the topic that came last is next *)
LatestQueued(after) == CHOOSE i \in Queued(after) : \A k \in Queued(after) : k <= i

NextTopic(after) == CHOOSE i \in Queued(after) : \A k \in Queued(after) : i <= k

(* progressRoom: go on, pass to the next queued topic, or end the room      *)
ProgressRoom(topic, turns_, boundary) ==
  LET over == TopicOver(topic, turns_, boundary)
      done == [topics EXCEPT ![topic].state = "completed"]
      follower == NextTopic(topic)
  IN
  CASE ~over ->
         UNCHANGED <<state, part, topics, share, moment, bond, shared>>
    [] over /\ Queued(topic) # {} /\ Len(turns_) < RoomMaxTurns ->
         /\ topics' = [done EXCEPT ![follower].state = "active"]
         /\ share' = [topic |-> follower, text |-> topics[follower].text]
         /\ UNCHANGED <<state, part, moment, bond, shared>>
    [] OTHER ->
         /\ topics' = done
         /\ state' = "ended"
         /\ part' = Emptied
         /\ EnsureMoment(turns_)
         /\ UNCHANGED share

(* appendTurn; boundary: the intent is LEAVE or PAUSE *)
AppendTurn(u, boundary) ==
  LET turns_ == Append(turns, [by |-> u, topic |-> ActiveTopic]) IN
  /\ state = "active"
  /\ part[u] = "active"
  /\ Eligible(Speakers)
  /\ share.topic # NoTopic
  /\ ActiveTopic # NoTopic
  /\ Len(turns) < RoomMaxTurns
  /\ u = NextActor
  /\ turns' = turns_
  /\ ProgressRoom(ActiveTopic, turns_, boundary)
  /\ spoken' = [p \in Users |-> IF p = u THEN {} ELSE spoken[p] \cup {u}]
  /\ UNCHANGED <<readied, joined, people, visits>>

(* mutant: a moment of a room that is still going on *)
FinalizeMomentAnytime(u) ==
  /\ IsParticipant(u)
  /\ share.topic # NoTopic
  /\ Len(turns) >= 2
  /\ EnsureMoment(turns)
  /\ UNCHANGED <<room, people, visits, spoken>>

(* finalizeMoment, for a room that ended without one *)
FinalizeMoment(u) ==
  /\ IsParticipant(u)
  /\ state = "ended"
  /\ share.topic # NoTopic
  /\ Len(turns) >= 2
  /\ EnsureMoment(turns)
  /\ UNCHANGED <<room, people, visits, spoken>>

(***************************************************************************)
(* Friendships and accounts                                                *)
(***************************************************************************)
Sever(pair) ==
  /\ pair \notin severed
  /\ Cardinality(severed) < MaxSevered
  /\ severed' = severed \cup {pair}
  /\ UNCHANGED <<room, moment, bond, deleting, visits, shared, spoken>>

(* deleteAccount for a guest: everybody in the rooms it is in is marked as  *)
(* having left, and the rooms go on                                         *)
DeleteAccount(g) ==
  /\ g \in Guests
  /\ g \notin deleting
  /\ deleting' = deleting \cup {g}
  /\ part' = IF Live /\ part[g] \notin {"absent", "left"} THEN Emptied ELSE part
  /\ spoken' = IF part' # part THEN [p \in Users |-> {}] ELSE spoken
  /\ UNCHANGED <<state, readied, joined, topics, share, turns, moment, bond, severed,
                 visits, shared>>

Next ==
  \/ \E author \in {{}, {Visitor}, {Host}} : AcceptInvitation(author)
  \/ SetShare \/ StartSession \/ EndSession
  \/ \E u \in Users : MarkReady(u) \/ MarkParticipantReady(u) \/ LeaveRoom(u)
                      \/ FinalizeMoment(u) \/ DeleteAccount(u)
  \/ \E u \in Users, flag \in BOOLEAN : AcceptJoinRequest(u, flag) \/ AppendTurn(u, flag)
  \/ \E pair \in Pairs : Sever(pair)

Spec == Init /\ [][Next]_vars

(***************************************************************************)
(* Properties                                                              *)
(***************************************************************************)

(* Round robin: nobody speaks twice while somebody else who is active has   *)
(* not spoken, whoever joins, gets ready or leaves meanwhile (nextActor).   *)
(* When the last speaker leaves, the order starts again with its first, and *)
(* those after the leaver lose their turn.                                  *)
RoundRobin ==
  [][\A u \in Users : turns' # turns /\ turns' # <<>> /\ Last(turns').by = u =>
       \A p \in Speakers \ {u} : u \notin spoken[p]]_vars

(* The share and the topics are kept in step: once there is a share, the    *)
(* room has exactly one active topic until it has ended by itself, every    *)
(* topic before it is completed and every one after it queued, and the      *)
(* share shows its text. So a room never falls silent for want of a topic.  *)
ShareFollowsTopic ==
  share.topic # NoTopic =>
    \/ /\ topics[share.topic].state = "active"
       /\ \A i \in DOMAIN topics : /\ i < share.topic => topics[i].state = "completed"
                                   /\ i > share.topic => topics[i].state = "queued"
       /\ share.text = topics[share.topic].text
    \/ state = "ended" /\ topics[share.topic].state = "completed" /\ moment # 0

(* A relationship counts the Shared Moments of its two Companions and the   *)
(* turns they took in them, each once: a room that ends itself and a room   *)
(* whose moment is asked for again do not settle twice, and a room without  *)
(* a moment does not settle (ensureMoment, settleRelationships).            *)
BondCountsMoments ==
  \A pair \in Pairs :
    /\ bond[pair].visits = shared[pair]
    /\ bond[pair].turns <= RoomMaxTurns * shared[pair]
    /\ moment # 0 /\ pair \subseteq readied =>
         bond[pair].turns >= TurnsBy(pair, turns)

(* A Shared Moment belongs to a room that ended after a conversation, and   *)
(* counts all of it                                                         *)
MomentIsWhole ==
  moment # 0 => state = "ended" /\ moment = Len(turns) /\ Len(turns) >= 2
=============================================================================
