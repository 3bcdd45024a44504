------------------------- MODULE VisitDialogueProofs -------------------------
(***************************************************************************)
(* What the conversation of VisitDialogue keeps, for any number of guests, *)
(* visits and turns.  A turn may complete a topic, activate the next, end  *)
(* the room and settle its relationships in one step; what a settlement    *)
(* does to moments and bonds is described once, in EnsureMomentSettles.    *)
(* That a relationship is settled once per visit needs a bound on the      *)
(* moments of a pair by the visits so far, and that nobody becomes ready   *)
(* in a room that is over.  That speakers take turns needs to know where   *)
(* those who spoke since somebody did are: going round the room, between   *)
(* that speaker and the last one (RotationInv, at the end).                *)
(***************************************************************************)
EXTENDS VisitDialogue, FiniteSetTheorems, SequenceTheorems, NaturalsInduction,
        WellFoundedInduction, TLAPS

(* A room that is being prepared has no topic but the invitation's: the    *)
(* share that setShare writes can take the first place.                    *)
PreparingHasOneTopic == state = "preparing" => Len(topics) <= 1

(* A guest who joined keeps its row, so it joins once. *)
JoinedKeepTheirRow == \A g \in Range(joined) : part[g] # "absent"

(* Nobody gets ready in a room that is over: who is part of its Shared     *)
(* Moment does not change any more.                                        *)
OverIsEmpty ==
  state \in {"ended", "cancelled"} => \A u \in Users : part[u] \in {"absent", "left"}

(* A visit has at most one Shared Moment. *)
OneMomentPerVisit ==
  \A pair \in Pairs :
    /\ shared[pair] <= visits
    /\ moment = 0 /\ state # "none" => shared[pair] < visits

IInv ==
  /\ TypeOK /\ PreparingHasOneTopic /\ JoinedKeepTheirRow /\ OverIsEmpty
  /\ OneMomentPerVisit /\ ShareFollowsTopic /\ BondCountsMoments /\ MomentIsWhole

-----------------------------------------------------------------------------
(* Numbers and sequences                                                    *)

(* The turns of a pair, or on a topic, are some of the turns. *)
LEMMA TurnsCount ==
  ASSUME NEW T, NEW turns_ \in Seq(T), NEW who, NEW topic
  PROVE  /\ TurnsBy(who, turns_) \in 0 .. Len(turns_)
         /\ TurnsOn(topic, turns_) \in 0 .. Len(turns_)
<1> DEFINE By == {i \in DOMAIN turns_ : turns_[i].by \in who}
           On == {i \in DOMAIN turns_ : turns_[i].topic = topic}
           All == 1 .. Len(turns_)
<1>0. Len(turns_) \in Nat /\ DOMAIN turns_ = All
  OBVIOUS
<1>1. IsFiniteSet(All) /\ Cardinality(All) = Len(turns_)
  BY <1>0, FS_Interval
<1>2. By \subseteq All /\ On \subseteq All
  BY <1>0
<1>3. /\ IsFiniteSet(By) /\ Cardinality(By) <= Cardinality(All)
      /\ IsFiniteSet(On) /\ Cardinality(On) <= Cardinality(All)
  BY <1>1, <1>2, FS_Subset
<1>4. Cardinality(By) \in Nat /\ Cardinality(On) \in Nat
  BY <1>3, FS_CardinalityType
<1> QED BY <1>0, <1>1, <1>3, <1>4 DEF TurnsBy, TurnsOn

(* A turn's topic is among the topics when there are more. *)
LEMMA TurnsOfMoreTopics ==
  ASSUME NEW m \in Nat, NEW n \in Nat, m <= n,
         NEW turns_ \in Seq([by : Users, topic : 1 .. m])
  PROVE  turns_ \in Seq([by : Users, topic : 1 .. n])
<1>1. [by : Users, topic : 1 .. m] \subseteq [by : Users, topic : 1 .. n]
  OBVIOUS
<1> QED BY <1>1, SeqMonotonic

LEMMA OneElement ==
  ASSUME NEW S, NEW s \in Seq(S), s # <<>>, Len(s) <= 1
  PROVE  Len(s) = 1 /\ DOMAIN s = 1 .. 1 /\ s[1] \in S
<1>1. Len(s) \in Nat \ {0}
  BY EmptySeq
<1>2. \A n \in Nat \ {0} : n <= 1 => n = 1
  OBVIOUS
<1>3. Len(s) = 1
  BY <1>1, <1>2, Zenon
<1>4. DOMAIN s = 1 .. Len(s)
  BY LenProperties
<1> QED BY <1>3, <1>4, ElementOfSeq

LEMMA TimesIsMonotone ==
  ASSUME NEW r \in Nat, NEW m \in Nat, NEW n \in Nat, m <= n
  PROVE  r * m <= r * n /\ r * m \in Nat /\ r * (m + 1) = r * m + r
<1>1. r * n = r * m + r * (n - m)
  OBVIOUS
<1>2. n - m \in Nat /\ r * (n - m) >= 0
  OBVIOUS
<1> QED BY <1>1, <1>2

(* A relationship's counters stay within their type. *)
LEMMA BondBound ==
  ASSUME NEW sh \in 0 .. MaxVisits, NEW tu \in Nat, tu <= RoomMaxTurns * sh
  PROVE  [visits |-> sh, turns |-> tu] \in
           [visits : 0 .. MaxVisits, turns : 0 .. RoomMaxTurns * MaxVisits]
<1>1. RoomMaxTurns * sh <= RoomMaxTurns * MaxVisits
  BY TimesIsMonotone, DialogueAssumption
<1>2. RoomMaxTurns * sh \in Nat /\ RoomMaxTurns * MaxVisits \in Nat
  BY DialogueAssumption
<1>3. tu \in 0 .. RoomMaxTurns * MaxVisits
  BY <1>1, <1>2
<1> QED BY <1>3

LEMMA EveryonesNames == Visitor \in Users /\ Host \in Users /\ Guests \subseteq Users
BY DEF Users

LEMMA EmptiedRooms ==
  ASSUME IInv
  PROVE  /\ Emptied \in [Users -> {"absent", "preparing", "ready", "active", "left"}]
         /\ \A u \in Users : Emptied[u] \in {"absent", "left"}
         /\ \A u \in Users : part[u] # "absent" => Emptied[u] # "absent"
BY DEF IInv, TypeOK, Emptied

-----------------------------------------------------------------------------
(* Steps that leave what was said alone                                     *)

(* The record: the topics, what was said on them and what came of it. *)
record == <<joined, topics, share, turns, moment, bond, visits, shared>>

LEMMA RecordStays ==
  ASSUME IInv, UNCHANGED record,
         state' \in {"none", "preparing", "ready", "active", "ended", "cancelled"},
         part' \in [Users -> {"absent", "preparing", "ready", "active", "left"}],
         readied' \subseteq Users, severed' \subseteq Pairs, deleting' \subseteq Guests,
         spoken' \in [Users -> SUBSET Users],
         state' = "preparing" => state = "preparing",
         state' = "none" <=> state = "none",
         state = "ended" => state' = "ended" /\ readied' = readied,
         \A u \in Users : part[u] # "absent" => part'[u] # "absent",
         OverIsEmpty'
  PROVE  IInv'
<1>1. TypeOK'
  BY DEF IInv, TypeOK, record
<1>2. PreparingHasOneTopic'
  BY DEF IInv, PreparingHasOneTopic, record
<1>3. JoinedKeepTheirRow'
  <2>1. \A g \in Range(joined) : g \in Users
    BY EveryonesNames DEF IInv, TypeOK, Range
  <2> QED BY <2>1 DEF IInv, JoinedKeepTheirRow, record
<1>4. OneMomentPerVisit'
  BY DEF IInv, OneMomentPerVisit, record
<1>5. ShareFollowsTopic'
  BY DEF IInv, ShareFollowsTopic, record
<1>6. MomentIsWhole'
  BY DEF IInv, MomentIsWhole, record
<1>7. BondCountsMoments'
  <2>1. moment # 0 => readied' = readied
    BY DEF IInv, MomentIsWhole
  <2> QED BY <2>1 DEF IInv, BondCountsMoments, record
<1> QED BY <1>1, <1>2, <1>3, <1>4, <1>5, <1>6, <1>7 DEF IInv

LEMMA MarkReadyInv ==
  ASSUME IInv, NEW u \in Users, MarkReady(u)
  PROVE  IInv'
<1>1. UNCHANGED record /\ UNCHANGED people /\ spoken' = spoken
  BY DEF MarkReady, record, people
<1>2. /\ state = "preparing" /\ state' \in {"preparing", "ready"}
      /\ readied' \subseteq Users
      /\ part' = [part EXCEPT ![u] = "ready"]
  BY DEF MarkReady, IInv, TypeOK
<1>3. part' \in [Users -> {"absent", "preparing", "ready", "active", "left"}]
  BY <1>2 DEF IInv, TypeOK
<1>4. \A w \in Users : part[w] # "absent" => part'[w] # "absent"
  BY <1>2 DEF IInv, TypeOK
<1>5. OverIsEmpty'
  BY <1>2 DEF OverIsEmpty
<1>6. severed' \subseteq Pairs /\ deleting' \subseteq Guests /\ spoken' \in [Users -> SUBSET Users]
  BY <1>1 DEF IInv, TypeOK, people
<1> QED BY <1>1, <1>2, <1>3, <1>4, <1>5, <1>6, RecordStays

LEMMA StartSessionInv ==
  ASSUME IInv, StartSession
  PROVE  IInv'
<1>1. UNCHANGED record /\ UNCHANGED <<readied, people, spoken>>
  BY DEF StartSession, record, people
<1>2. /\ state = "ready" /\ state' = "active"
      /\ part' = [u \in Users |-> IF part[u] = "ready" THEN "active" ELSE part[u]]
  BY DEF StartSession
<1>3. part' \in [Users -> {"absent", "preparing", "ready", "active", "left"}]
  BY <1>2 DEF IInv, TypeOK
<1>4. \A w \in Users : part[w] # "absent" => part'[w] # "absent"
  BY <1>2 DEF IInv, TypeOK
<1>5. OverIsEmpty'
  BY <1>2 DEF OverIsEmpty
<1>6. /\ readied' \subseteq Users /\ severed' \subseteq Pairs /\ deleting' \subseteq Guests
      /\ spoken' \in [Users -> SUBSET Users]
  BY <1>1 DEF IInv, TypeOK, people
<1> QED BY <1>1, <1>2, <1>3, <1>4, <1>5, <1>6, RecordStays

LEMMA MarkParticipantReadyInv ==
  ASSUME IInv, NEW u \in Users, MarkParticipantReady(u)
  PROVE  IInv'
<1>1. UNCHANGED record /\ UNCHANGED <<state, people>>
  BY DEF MarkParticipantReady, record, people
<1>2. /\ state \notin {"ended", "cancelled"}
      /\ part' = [part EXCEPT ![u] = "active"]
      /\ spoken' = [spoken EXCEPT ![u] = {}]
  BY DEF MarkParticipantReady, IInv, OverIsEmpty
<1>3. /\ part' \in [Users -> {"absent", "preparing", "ready", "active", "left"}]
      /\ spoken' \in [Users -> SUBSET Users]
  BY <1>2 DEF IInv, TypeOK
<1>4. \A w \in Users : part[w] # "absent" => part'[w] # "absent"
  BY <1>2 DEF IInv, TypeOK
<1>5. OverIsEmpty'
  BY <1>1, <1>2 DEF OverIsEmpty
<1>6. /\ readied' \subseteq Users /\ severed' \subseteq Pairs /\ deleting' \subseteq Guests
      /\ state' \in {"none", "preparing", "ready", "active", "ended", "cancelled"}
  BY <1>1 DEF IInv, TypeOK, people, MarkParticipantReady
<1> QED BY <1>1, <1>2, <1>3, <1>4, <1>5, <1>6, RecordStays

LEMMA LeaveRoomInv ==
  ASSUME IInv, NEW u \in Users, LeaveRoom(u)
  PROVE  IInv'
<1>1. UNCHANGED record /\ UNCHANGED <<state, readied, people>>
  BY DEF LeaveRoom, record, people
<1>2. /\ part' = [part EXCEPT ![u] = "left"]
      /\ spoken' \in {spoken, [p \in Users |-> {}]}
  BY DEF LeaveRoom
<1>3. /\ part' \in [Users -> {"absent", "preparing", "ready", "active", "left"}]
      /\ spoken' \in [Users -> SUBSET Users]
  BY <1>2 DEF IInv, TypeOK
<1>4. \A w \in Users : part[w] # "absent" => part'[w] # "absent"
  BY <1>2 DEF IInv, TypeOK
<1>5. OverIsEmpty'
  BY <1>1, <1>2 DEF IInv, TypeOK, OverIsEmpty
<1>6. /\ readied' \subseteq Users /\ severed' \subseteq Pairs /\ deleting' \subseteq Guests
      /\ state' \in {"none", "preparing", "ready", "active", "ended", "cancelled"}
  BY <1>1 DEF IInv, TypeOK, people
<1> QED BY <1>1, <1>3, <1>4, <1>5, <1>6, RecordStays

LEMMA EndSessionInv ==
  ASSUME IInv, EndSession
  PROVE  IInv'
<1>1. UNCHANGED record /\ UNCHANGED <<readied, people, spoken>>
  BY DEF EndSession, record, people
<1>2. /\ state \in {"preparing", "ready", "active"} /\ state' \in {"ended", "cancelled"}
      /\ part' = Emptied
  BY DEF EndSession, Live
<1>3. OverIsEmpty'
  BY <1>2, EmptiedRooms DEF OverIsEmpty
<1>4. /\ readied' \subseteq Users /\ severed' \subseteq Pairs /\ deleting' \subseteq Guests
      /\ spoken' \in [Users -> SUBSET Users]
  BY <1>1 DEF IInv, TypeOK, people
<1> QED BY <1>1, <1>2, <1>3, <1>4, EmptiedRooms, RecordStays

LEMMA SeverInv ==
  ASSUME IInv, NEW pair \in Pairs, Sever(pair)
  PROVE  IInv'
<1>1. UNCHANGED record /\ UNCHANGED <<state, part, readied, deleting, spoken>>
  BY DEF Sever, record, room
<1>2. OverIsEmpty'
  BY <1>1 DEF IInv, OverIsEmpty
<1>3. /\ readied' \subseteq Users /\ severed' \subseteq Pairs /\ deleting' \subseteq Guests
      /\ spoken' \in [Users -> SUBSET Users]
      /\ part' \in [Users -> {"absent", "preparing", "ready", "active", "left"}]
      /\ state' \in {"none", "preparing", "ready", "active", "ended", "cancelled"}
  BY <1>1 DEF IInv, TypeOK, Sever
<1> QED BY <1>1, <1>2, <1>3, RecordStays

LEMMA DeleteAccountInv ==
  ASSUME IInv, NEW g \in Users, DeleteAccount(g)
  PROVE  IInv'
<1>1. UNCHANGED record /\ UNCHANGED <<state, readied, severed>>
  BY DEF DeleteAccount, record
<1>2. part' \in {part, Emptied} /\ spoken' \in {spoken, [p \in Users |-> {}]}
  BY DEF DeleteAccount
<1>3. /\ part' \in [Users -> {"absent", "preparing", "ready", "active", "left"}]
      /\ \A w \in Users : part[w] # "absent" => part'[w] # "absent"
  BY <1>2, EmptiedRooms DEF IInv, TypeOK
<1>4. OverIsEmpty'
  BY <1>1, <1>2, EmptiedRooms DEF IInv, OverIsEmpty
<1>5. /\ readied' \subseteq Users /\ severed' \subseteq Pairs /\ deleting' \subseteq Guests
      /\ spoken' \in [Users -> SUBSET Users]
      /\ state' \in {"none", "preparing", "ready", "active", "ended", "cancelled"}
  BY <1>1, <1>2 DEF IInv, TypeOK, DeleteAccount
<1> QED BY <1>1, <1>3, <1>4, <1>5, RecordStays

-----------------------------------------------------------------------------
(* The room and its topics                                                  *)

LEMMA AcceptInvitationInv ==
  ASSUME IInv, NEW author \in {{}, {Visitor}, {Host}}, AcceptInvitation(author)
  PROVE  IInv'
<1> DEFINE first == [state |-> "active", by |-> CHOOSE a \in author : TRUE,
                     text |-> CHOOSE a \in author : TRUE]
<1>0. /\ visits' = visits + 1 /\ visits < MaxVisits /\ state' = "preparing"
      /\ part' = [u \in Users |-> IF u \in {Visitor, Host} THEN "preparing" ELSE "absent"]
      /\ readied' = {} /\ joined' = <<>> /\ turns' = <<>> /\ moment' = 0
      /\ spoken' = [u \in Users |-> {}]
      /\ topics' = [i \in 1 .. Cardinality(author) |-> first]
      /\ share' = IF author = {} THEN NoShare
                  ELSE [topic |-> 1, text |-> CHOOSE a \in author : TRUE]
      /\ bond' = bond /\ severed' = severed /\ deleting' = deleting /\ shared' = shared
  BY DEF AcceptInvitation, people
<1>1. /\ topics' \in Seq(Topic) /\ Len(topics') <= 1
      /\ share' \in [topic : 0 .. Len(topics'), text : Users]
      /\ ShareFollowsTopic'
  <2>1. CASE author = {}
    <3>1. topics' = <<>>
      BY <1>0, <2>1, FS_EmptySet
    <3>2. share' = [topic |-> 0, text |-> Visitor]
      BY <1>0, <2>1 DEF NoShare, NoTopic
    <3>3. topics' \in Seq(Topic) /\ Len(topics') = 0
      BY <3>1
    <3> QED BY <3>2, <3>3, EveryonesNames DEF ShareFollowsTopic, NoTopic
  <2>2. CASE author # {}
    <3>1. PICK a \in {Visitor, Host} : author = {a}
      BY <2>2
    <3>2. Cardinality(author) = 1
      BY <3>1, FS_Singleton
    <3>3. (CHOOSE b \in author : TRUE) = a
      BY <3>1
    <3>4. /\ topics' = [i \in 1 .. 1 |-> [state |-> "active", by |-> a, text |-> a]]
          /\ share' = [topic |-> 1, text |-> a]
      BY <1>0, <2>2, <3>2, <3>3
    <3>5. /\ topics' \in Seq(Topic) /\ Len(topics') = 1 /\ DOMAIN topics' = 1 .. 1
          /\ topics'[1].state = "active" /\ topics'[1].text = a
      BY <3>4, EveryonesNames DEF Topic
    <3>6. /\ share' \in [topic : 0 .. Len(topics'), text : Users]
          /\ share'.topic = 1 /\ share'.text = a
      BY <3>4, <3>5, EveryonesNames
    <3> QED BY <3>5, <3>6 DEF ShareFollowsTopic, NoTopic
  <2> QED BY <2>1, <2>2
<1> HIDE DEF first
<1>2. TypeOK'
  <2>1. visits' \in 0 .. MaxVisits
    BY <1>0, DialogueAssumption DEF IInv, TypeOK
  <2>2. moment' \in 0 .. RoomMaxTurns /\ Len(turns') <= RoomMaxTurns
    BY <1>0, DialogueAssumption
  <2>3. joined' \in Seq(Guests) /\ IsInjective(joined')
    BY <1>0 DEF IsInjective
  <2>4. turns' \in Seq([by : Users, topic : 1 .. Len(topics')])
    BY <1>0
  <2>5. part' \in [Users -> {"absent", "preparing", "ready", "active", "left"}]
    BY <1>0
  <2>6. spoken' \in [Users -> SUBSET Users]
    BY <1>0
  <2> QED BY <1>0, <1>1, <2>1, <2>2, <2>3, <2>4, <2>5, <2>6 DEF IInv, TypeOK
<1>3. JoinedKeepTheirRow'
  <2>1. Range(joined') = {}
    BY <1>0 DEF Range
  <2> QED BY <2>1 DEF JoinedKeepTheirRow
<1>4. PreparingHasOneTopic' /\ OverIsEmpty' /\ MomentIsWhole'
  BY <1>0, <1>1 DEF PreparingHasOneTopic, OverIsEmpty, MomentIsWhole
<1>5. OneMomentPerVisit'
  BY <1>0 DEF IInv, TypeOK, OneMomentPerVisit
<1>6. BondCountsMoments'
  BY <1>0 DEF IInv, BondCountsMoments
<1> QED BY <1>1, <1>2, <1>3, <1>4, <1>5, <1>6 DEF IInv

LEMMA SetShareInv ==
  ASSUME IInv, SetShare
  PROVE  IInv'
<1>0. /\ state = "preparing" /\ Len(topics) <= 1 /\ topics \in Seq(Topic)
      /\ turns \in Seq([by : Users, topic : 1 .. Len(topics)])
      /\ share' = [topic |-> 1, text |-> Visitor]
      /\ UNCHANGED <<state, part, readied, joined, turns, moment, bond, severed, deleting, visits,
                     shared, spoken>>
  BY DEF SetShare, IInv, TypeOK, PreparingHasOneTopic, people
<1>1. /\ topics' \in Seq(Topic) /\ Len(topics') = 1 /\ DOMAIN topics' = 1 .. 1
      /\ topics'[1].state = "active" /\ topics'[1].text = Visitor
  <2>1. CASE topics = <<>>
    <3>1. topics' = <<[state |-> "active", by |-> Visitor, text |-> Visitor]>>
      BY <2>1 DEF SetShare
    <3> QED BY <3>1, EveryonesNames DEF Topic
  <2>2. CASE topics # <<>>
    <3>1. topics' = [topics EXCEPT ![1].state = "active", ![1].text = Visitor]
      BY <2>2 DEF SetShare
    <3>2. Len(topics) = 1 /\ DOMAIN topics = 1 .. 1 /\ topics[1] \in Topic
      BY <1>0, <2>2, OneElement
    <3>3. /\ DOMAIN topics' = 1 .. 1
          /\ topics'[1] = [topics[1] EXCEPT !.state = "active", !.text = Visitor]
      BY <3>1, <3>2 DEF Topic
    <3>4. /\ topics'[1] \in Topic
          /\ topics'[1].state = "active" /\ topics'[1].text = Visitor
      BY <3>2, <3>3, EveryonesNames DEF Topic
    <3>5. topics' \in Seq(Topic) /\ Len(topics') = 1
      <4>1. topics' = [topics EXCEPT ![1] = topics'[1]]
        BY <3>1, <3>2, <3>3
      <4> QED BY <1>0, <3>2, <3>4, <4>1, ExceptSeq
    <3> QED BY <3>3, <3>4, <3>5
  <2> QED BY <2>1, <2>2
<1>2. share' \in [topic : 0 .. Len(topics'), text : Users]
  BY <1>0, <1>1, EveryonesNames
<1>3. turns' \in Seq([by : Users, topic : 1 .. Len(topics')])
  <2>1. Len(topics) \in Nat /\ Len(topics') \in Nat /\ Len(topics) <= Len(topics')
    BY <1>0, <1>1
  <2> QED BY <1>0, <2>1, TurnsOfMoreTopics
<1>4. TypeOK'
  BY <1>0, <1>1, <1>2, <1>3 DEF IInv, TypeOK
<1>5. PreparingHasOneTopic' /\ JoinedKeepTheirRow' /\ OverIsEmpty' /\ MomentIsWhole'
  BY <1>0, <1>1
     DEF IInv, PreparingHasOneTopic, JoinedKeepTheirRow, OverIsEmpty, MomentIsWhole
<1>6. OneMomentPerVisit' /\ BondCountsMoments'
  BY <1>0 DEF IInv, OneMomentPerVisit, BondCountsMoments
<1>7. ShareFollowsTopic'
  BY <1>0, <1>1 DEF ShareFollowsTopic, NoTopic
<1> QED BY <1>4, <1>5, <1>6, <1>7 DEF IInv

LEMMA AcceptJoinRequestInv ==
  ASSUME IInv, NEW g \in Users, NEW withTopic \in BOOLEAN, AcceptJoinRequest(g, withTopic)
  PROVE  IInv'
<1> DEFINE new == [state |-> "queued", by |-> g, text |-> g]
<1>0. /\ g \in Guests /\ state \in {"ready", "active"} /\ part[g] = "absent"
      /\ topics \in Seq(Topic) /\ joined \in Seq(Guests)
      /\ turns \in Seq([by : Users, topic : 1 .. Len(topics)])
      /\ part' = [part EXCEPT ![g] = "preparing"]
      /\ joined' = Append(joined, g)
      /\ topics' = IF withTopic THEN Append(topics, new) ELSE topics
      /\ UNCHANGED <<state, readied, share, turns, moment, bond, severed, deleting, visits,
                     shared, spoken>>
  BY DEF AcceptJoinRequest, IInv, TypeOK, people
<1>1. new \in Topic /\ new.state = "queued"
  BY DEF Topic
<1> HIDE DEF new
<1>2. /\ topics' \in Seq(Topic) /\ Len(topics') >= Len(topics)
      /\ DOMAIN topics = 1 .. Len(topics) /\ DOMAIN topics' = 1 .. Len(topics')
      /\ \A i \in 1 .. Len(topics) : topics'[i] = topics[i]
      /\ \A i \in 1 .. Len(topics') : i > Len(topics) => topics'[i].state = "queued"
  BY <1>0, <1>1
<1>3. turns' \in Seq([by : Users, topic : 1 .. Len(topics')])
  <2>1. Len(topics) \in Nat /\ Len(topics') \in Nat /\ Len(topics) <= Len(topics')
    BY <1>0, <1>2
  <2> QED BY <1>0, <2>1, TurnsOfMoreTopics
<1>4. share' = share /\ share.topic \in 0 .. Len(topics)
      /\ share' \in [topic : 0 .. Len(topics'), text : Users]
  BY <1>0, <1>2 DEF IInv, TypeOK
<1>5. part' \in [Users -> {"absent", "preparing", "ready", "active", "left"}]
  BY <1>0 DEF IInv, TypeOK
<1>6. joined' \in Seq(Guests) /\ IsInjective(joined')
  <2>1. \A i \in 1 .. Len(joined) : joined[i] # g
    BY <1>0 DEF IInv, JoinedKeepTheirRow, Range
  <2>2. /\ joined' \in Seq(Guests) /\ DOMAIN joined' = 1 .. Len(joined) + 1
        /\ joined'[Len(joined) + 1] = g
        /\ \A i \in 1 .. Len(joined) : joined'[i] = joined[i]
    BY <1>0
  <2>3. \A i, k \in 1 .. Len(joined) : joined[i] = joined[k] => i = k
    BY <1>0 DEF IInv, TypeOK, IsInjective
  <2> QED BY <1>0, <2>1, <2>2, <2>3 DEF IsInjective
<1>7. TypeOK'
  BY <1>0, <1>2, <1>3, <1>4, <1>5, <1>6 DEF IInv, TypeOK
<1>8. JoinedKeepTheirRow'
  <2>1. \A i \in 1 .. Len(joined) + 1 : joined'[i] = IF i = Len(joined) + 1 THEN g ELSE joined[i]
    BY <1>0
  <2>2. DOMAIN joined' = 1 .. Len(joined) + 1
    BY <1>0
  <2>3. \A i \in 1 .. Len(joined) : part[joined[i]] # "absent" /\ joined[i] \in Users
    BY <1>0, EveryonesNames DEF IInv, JoinedKeepTheirRow, Range
  <2>4. \A i \in 1 .. Len(joined) + 1 : part'[joined'[i]] # "absent"
    BY <1>0, <2>1, <2>3 DEF IInv, TypeOK
  <2> QED BY <2>2, <2>4 DEF JoinedKeepTheirRow, Range
<1>9. PreparingHasOneTopic' /\ OverIsEmpty' /\ MomentIsWhole'
  BY <1>0 DEF IInv, PreparingHasOneTopic, OverIsEmpty, MomentIsWhole
<1>10. OneMomentPerVisit' /\ BondCountsMoments'
  BY <1>0 DEF IInv, OneMomentPerVisit, BondCountsMoments
<1>11. ShareFollowsTopic'
  BY <1>0, <1>2, <1>4 DEF IInv, ShareFollowsTopic, NoTopic
<1> QED BY <1>7, <1>8, <1>9, <1>10, <1>11 DEF IInv

-----------------------------------------------------------------------------
(* Shared Moments                                                           *)

(* ensureMoment settles each pair once, and counts no turn twice. *)
LEMMA EnsureMomentSettles ==
  ASSUME IInv, NEW T, NEW turns_ \in Seq(T), EnsureMoment(turns_), Len(turns_) <= RoomMaxTurns,
         Len(turns_) >= 2, state # "none", moment # 0 => turns_ = turns,
         readied' = readied, turns' = turns_, visits' = visits
  PROVE  /\ moment' \in 1 .. RoomMaxTurns
         /\ moment # 0 => moment' = moment
         /\ moment = 0 => moment' = Len(turns_)
         /\ bond' \in [Pairs -> [visits : 0 .. MaxVisits, turns : 0 .. RoomMaxTurns * MaxVisits]]
         /\ shared' \in [Pairs -> 0 .. MaxVisits]
         /\ OneMomentPerVisit'
         /\ BondCountsMoments'
<1>0. /\ Len(turns_) \in Nat /\ RoomMaxTurns \in Nat /\ MaxVisits \in Nat /\ visits \in Nat
      /\ visits <= MaxVisits
      /\ shared \in [Pairs -> 0 .. MaxVisits] /\ moment \in 0 .. RoomMaxTurns
      /\ bond \in [Pairs -> [visits : 0 .. MaxVisits, turns : 0 .. RoomMaxTurns * MaxVisits]]
  BY DialogueAssumption DEF IInv, TypeOK
<1>1. CASE moment # 0
  <2>1. UNCHANGED <<moment, bond, shared>>
    BY <1>1 DEF EnsureMoment
  <2>2. OneMomentPerVisit'
    BY <1>1, <2>1 DEF IInv, OneMomentPerVisit
  <2>3. BondCountsMoments'
    BY <1>1, <2>1 DEF IInv, BondCountsMoments
  <2> QED BY <1>0, <1>1, <2>1, <2>2, <2>3
<1>2. CASE moment = 0
  <2>1. /\ moment' = Len(turns_)
        /\ shared' = [pair \in Pairs |-> IF pair \subseteq readied THEN shared[pair] + 1
                                         ELSE shared[pair]]
        /\ bond' = [pair \in Pairs |->
             IF pair \subseteq readied
               THEN [visits |-> bond[pair].visits + 1,
                     turns |-> bond[pair].turns + TurnsBy(pair, turns_)]
               ELSE bond[pair]]
    BY <1>2 DEF EnsureMoment, Settled, Together
  <2>2. \A pair \in Pairs :
          /\ shared[pair] \in Nat /\ shared[pair] < visits
          /\ bond[pair].visits = shared[pair]
          /\ bond[pair].turns \in Nat /\ bond[pair].turns <= RoomMaxTurns * shared[pair]
          /\ TurnsBy(pair, turns_) \in 0 .. Len(turns_)
    <3> TAKE pair \in Pairs
    <3>1. shared[pair] \in Nat /\ shared[pair] < visits
      BY <1>0, <1>2 DEF IInv, OneMomentPerVisit
    <3>2. bond[pair].visits = shared[pair] /\ bond[pair].turns <= RoomMaxTurns * shared[pair]
      BY DEF IInv, BondCountsMoments
    <3>3. bond[pair].turns \in Nat
      BY <1>0
    <3>4. TurnsBy(pair, turns_) \in 0 .. Len(turns_)
      BY TurnsCount
    <3> QED BY <3>1, <3>2, <3>3, <3>4
  <2>3. ASSUME NEW pair \in Pairs
        PROVE  /\ shared'[pair] \in 0 .. MaxVisits /\ shared'[pair] <= visits
               /\ bond'[pair] \in [visits : 0 .. MaxVisits, turns : 0 .. RoomMaxTurns * MaxVisits]
               /\ bond'[pair].visits = shared'[pair]
               /\ bond'[pair].turns <= RoomMaxTurns * shared'[pair]
               /\ pair \subseteq readied => bond'[pair].turns >= TurnsBy(pair, turns_)
    <3>1. CASE ~(pair \subseteq readied)
      <4>1. shared'[pair] = shared[pair] /\ bond'[pair] = bond[pair]
        BY <2>1, <3>1
      <4>2. bond[pair] \in [visits : 0 .. MaxVisits, turns : 0 .. RoomMaxTurns * MaxVisits]
        BY <1>0
      <4> QED BY <1>0, <2>2, <3>1, <4>1, <4>2
    <3>2. CASE pair \subseteq readied
      <4> DEFINE sh == shared[pair] + 1
                 tu == bond[pair].turns + TurnsBy(pair, turns_)
      <4>1. /\ shared'[pair] = sh
            /\ bond'[pair] = [visits |-> sh, turns |-> tu]
        BY <2>1, <2>2, <3>2
      <4>2. sh \in 0 .. MaxVisits /\ sh <= visits
        BY <1>0, <2>2
      <4>3. tu \in Nat /\ tu >= TurnsBy(pair, turns_)
        BY <1>0, <2>2
      <4>4. RoomMaxTurns * sh = RoomMaxTurns * shared[pair] + RoomMaxTurns
        BY <1>0, <2>2, TimesIsMonotone
      <4>5. tu <= RoomMaxTurns * sh
        <5>1. RoomMaxTurns * shared[pair] \in Nat
          BY <1>0, <2>2
        <5> HIDE DEF sh
        <5> QED BY <1>0, <2>2, <4>4, <5>1
      <4> HIDE DEF sh, tu
      <4>6. [visits |-> sh, turns |-> tu] \in
              [visits : 0 .. MaxVisits, turns : 0 .. RoomMaxTurns * MaxVisits]
        BY <4>2, <4>3, <4>5, BondBound
      <4> QED BY <4>1, <4>2, <4>3, <4>5, <4>6
    <3> QED BY <3>1, <3>2
  <2>4. shared' \in [Pairs -> 0 .. MaxVisits]
    BY <2>1, <2>3
  <2>5. bond' \in [Pairs -> [visits : 0 .. MaxVisits, turns : 0 .. RoomMaxTurns * MaxVisits]]
    BY <2>1, <2>3
  <2>6. moment' \in 1 .. RoomMaxTurns
    BY <1>0, <2>1
  <2>7. OneMomentPerVisit'
    BY <2>3, <2>6 DEF OneMomentPerVisit
  <2>8. BondCountsMoments'
    BY <2>3 DEF BondCountsMoments
  <2> QED BY <1>2, <2>1, <2>4, <2>5, <2>6, <2>7, <2>8
<1> QED BY <1>1, <1>2

LEMMA FinalizeMomentInv ==
  ASSUME IInv, NEW u \in Users, FinalizeMoment(u)
  PROVE  IInv'
<1>0. /\ state = "ended" /\ Len(turns) >= 2 /\ Len(turns) <= RoomMaxTurns
      /\ EnsureMoment(turns)
      /\ turns \in Seq([by : Users, topic : 1 .. Len(topics)])
      /\ UNCHANGED <<state, part, readied, joined, topics, share, turns, severed, deleting,
                     visits, spoken>>
  BY DEF FinalizeMoment, IInv, TypeOK, room, people
<1>1. /\ moment' \in 1 .. RoomMaxTurns
      /\ moment # 0 => moment' = moment
      /\ moment = 0 => moment' = Len(turns)
      /\ bond' \in [Pairs -> [visits : 0 .. MaxVisits, turns : 0 .. RoomMaxTurns * MaxVisits]]
      /\ shared' \in [Pairs -> 0 .. MaxVisits]
      /\ OneMomentPerVisit' /\ BondCountsMoments'
  BY <1>0, EnsureMomentSettles
<1>2. moment' \in 0 .. RoomMaxTurns /\ moment' # 0
  BY <1>1
<1>3. TypeOK'
  BY <1>0, <1>1, <1>2 DEF IInv, TypeOK
<1>4. PreparingHasOneTopic' /\ JoinedKeepTheirRow' /\ OverIsEmpty'
  BY <1>0 DEF IInv, PreparingHasOneTopic, JoinedKeepTheirRow, OverIsEmpty
<1>5. ShareFollowsTopic'
  BY <1>0, <1>2 DEF IInv, ShareFollowsTopic
<1>6. MomentIsWhole'
  BY <1>0, <1>1 DEF IInv, MomentIsWhole
<1> QED BY <1>1, <1>3, <1>4, <1>5, <1>6 DEF IInv

-----------------------------------------------------------------------------
(* Turns                                                                    *)

(* With a share there is one active topic, and it is the share's. *)
LEMMA ActiveTopicIsShared ==
  ASSUME IInv, share.topic # NoTopic, state # "ended"
  PROVE  /\ ActiveTopic = share.topic
         /\ share.topic \in 1 .. Len(topics) /\ DOMAIN topics = 1 .. Len(topics)
         /\ topics[share.topic].state = "active"
         /\ \A i \in 1 .. Len(topics) : /\ i < share.topic => topics[i].state = "completed"
                                        /\ i > share.topic => topics[i].state = "queued"
<1>1. share.topic \in 1 .. Len(topics) /\ DOMAIN topics = 1 .. Len(topics)
  BY DEF IInv, TypeOK, NoTopic
<1>2. /\ topics[share.topic].state = "active"
      /\ \A i \in 1 .. Len(topics) : /\ i < share.topic => topics[i].state = "completed"
                                     /\ i > share.topic => topics[i].state = "queued"
  BY <1>1 DEF IInv, ShareFollowsTopic
<1> DEFINE FirstActive(i) == topics[i].state = "active" /\ \A k \in 1 .. i - 1 : topics[k].state # "active"
<1>3. FirstActive(share.topic)
  BY <1>1, <1>2
<1>4. \A i \in DOMAIN topics : FirstActive(i) => i = share.topic
  BY <1>1, <1>2
<1>5. (CHOOSE i \in DOMAIN topics : FirstActive(i)) = share.topic
  <2> HIDE DEF FirstActive
  <2> QED BY <1>1, <1>3, <1>4
<1>6. ActiveTopic = CHOOSE i \in DOMAIN topics : FirstActive(i)
  BY <1>1, <1>2 DEF ActiveTopic
<1> QED BY <1>1, <1>2, <1>5, <1>6

(* The topic that follows is the next one of the list. *)
LEMMA FollowerIsNext ==
  ASSUME NEW t \in 1 .. Len(topics), topics \in Seq(Topic), Queued(t) # {},
         \A i \in 1 .. Len(topics) : i > t => topics[i].state = "queued"
  PROVE  NextTopic(t) = t + 1 /\ t + 1 \in 1 .. Len(topics)
<1>1. \A i : i \in Queued(t) <=> i \in 1 .. Len(topics) /\ i > t
  BY DEF Queued
<1>2. t + 1 \in 1 .. Len(topics)
  BY <1>1
<1>3. t + 1 \in Queued(t) /\ \A k \in Queued(t) : t + 1 <= k
  BY <1>1, <1>2
<1>4. \A i \in Queued(t) : (\A k \in Queued(t) : i <= k) => i = t + 1
  BY <1>1, <1>3
<1> QED BY <1>2, <1>3, <1>4 DEF NextTopic

(* A topic that is over had at least two turns: no room ends by itself     *)
(* before a conversation.                                                  *)
LEMMA OverAfterTwo ==
  ASSUME NEW T, NEW turns_ \in Seq(T), NEW topic, NEW boundary \in BOOLEAN,
         TopicOver(topic, turns_, boundary)
  PROVE  Len(turns_) >= 2
<1>1. TurnsOn(topic, turns_) \in 0 .. Len(turns_) /\ Len(turns_) \in Nat
  BY TurnsCount
<1> QED BY <1>1, DialogueAssumption DEF TopicOver

(* The topics once one of them has changed its state. *)
WithState(ts, t, new) == [ts EXCEPT ![t].state = new]

LEMMA TopicStateChanges ==
  ASSUME NEW ts \in Seq(Topic), NEW t \in 1 .. Len(ts),
         NEW new \in {"queued", "active", "completed"}
  PROVE  /\ WithState(ts, t, new) \in Seq(Topic)
         /\ Len(WithState(ts, t, new)) = Len(ts)
         /\ WithState(ts, t, new)[t].state = new
         /\ WithState(ts, t, new)[t].text = ts[t].text
         /\ \A i \in 1 .. Len(ts) : i # t => WithState(ts, t, new)[i] = ts[i]
<1> DEFINE row == [ts[t] EXCEPT !.state = new]
<1>1. ts[t] \in Topic
  BY ElementOfSeq
<1>2. row \in Topic /\ row.state = new /\ row.text = ts[t].text
  BY <1>1 DEF Topic
<1>3. WithState(ts, t, new) = [ts EXCEPT ![t] = row]
  BY DEF WithState
<1> HIDE DEF row
<1>4. /\ [ts EXCEPT ![t] = row] \in Seq(Topic)
      /\ Len([ts EXCEPT ![t] = row]) = Len(ts)
      /\ \A i \in 1 .. Len(ts) : [ts EXCEPT ![t] = row][i] = IF i = t THEN row ELSE ts[i]
  BY <1>2, ExceptSeq
<1> QED BY <1>2, <1>3, <1>4

LEMMA AppendTurnInv ==
  ASSUME IInv, NEW u \in Users, NEW boundary \in BOOLEAN, AppendTurn(u, boundary)
  PROVE  IInv'
<1> DEFINE t == share.topic
           turns_ == Append(turns, [by |-> u, topic |-> ActiveTopic])
           over == TopicOver(t, turns_, boundary)
           done == [topics EXCEPT ![t].state = "completed"]
           Turn == [by : Users, topic : 1 .. Len(topics)]
<1>0. /\ state = "active" /\ t # 0 /\ Len(turns) < RoomMaxTurns /\ turns' = turns_
      /\ topics \in Seq(Topic) /\ turns \in Seq(Turn) /\ joined \in Seq(Guests)
      /\ share \in [topic : 0 .. Len(topics), text : Users] /\ share.text = topics[t].text
      /\ UNCHANGED <<readied, joined, severed, deleting, visits>>
      /\ spoken' = [p \in Users |-> IF p = u THEN {} ELSE spoken[p] \cup {u}]
      /\ moment = 0
  BY DEF AppendTurn, IInv, TypeOK, NoTopic, people, MomentIsWhole, ShareFollowsTopic
<1>1. /\ ActiveTopic = t
      /\ t \in 1 .. Len(topics) /\ DOMAIN topics = 1 .. Len(topics)
      /\ topics[t].state = "active"
      /\ \A i \in 1 .. Len(topics) : /\ i < t => topics[i].state = "completed"
                                     /\ i > t => topics[i].state = "queued"
  BY <1>0, ActiveTopicIsShared DEF NoTopic
<1>2. ProgressRoom(t, turns_, boundary)
  BY <1>1 DEF AppendTurn
<1>3. /\ turns_ \in Seq(Turn) /\ Len(turns_) = Len(turns) + 1
      /\ Len(turns_) \in Nat /\ Len(turns_) <= RoomMaxTurns
  BY <1>0, <1>1, DialogueAssumption
<1>4. spoken' \in [Users -> SUBSET Users]
  BY <1>0 DEF IInv, TypeOK
<1>5. \A g \in Range(joined) : g \in Users
  BY <1>0, EveryonesNames DEF Range
<1> HIDE DEF turns_, over, done
\* What is left to show of the whole invariant in each of the three cases.
<1>6. ASSUME state' \in {"active", "ended"},
             part' \in [Users -> {"absent", "preparing", "ready", "active", "left"}],
             \A w \in Users : part[w] # "absent" => part'[w] # "absent",
             topics' \in Seq(Topic), Len(topics') = Len(topics),
             share' \in [topic : 0 .. Len(topics'), text : Users],
             moment' \in 0 .. RoomMaxTurns,
             bond' \in [Pairs -> [visits : 0 .. MaxVisits, turns : 0 .. RoomMaxTurns * MaxVisits]],
             shared' \in [Pairs -> 0 .. MaxVisits]
      PROVE  TypeOK' /\ PreparingHasOneTopic' /\ JoinedKeepTheirRow'
  <2>1. turns' \in Seq([by : Users, topic : 1 .. Len(topics')])
    BY <1>0, <1>3, <1>6
  <2>2. TypeOK'
    BY <1>0, <1>3, <1>4, <1>6, <2>1 DEF IInv, TypeOK
  <2>3. PreparingHasOneTopic' /\ JoinedKeepTheirRow'
    BY <1>0, <1>5, <1>6 DEF IInv, PreparingHasOneTopic, JoinedKeepTheirRow
  <2> QED BY <2>2, <2>3
<1>7. ASSUME state' = "active", UNCHANGED <<part, moment, bond, shared>>
      PROVE  OverIsEmpty' /\ OneMomentPerVisit' /\ BondCountsMoments' /\ MomentIsWhole'
  <2>1. OverIsEmpty' /\ MomentIsWhole'
    BY <1>0, <1>7 DEF OverIsEmpty, MomentIsWhole
  <2>2. OneMomentPerVisit'
    BY <1>0, <1>7 DEF IInv, OneMomentPerVisit
  <2>3. BondCountsMoments'
    BY <1>0, <1>7 DEF IInv, BondCountsMoments
  <2> QED BY <2>1, <2>2, <2>3
<1>8. CASE ~over
  <2>1. UNCHANGED <<state, part, topics, share, moment, bond, shared>>
    BY <1>2, <1>8 DEF ProgressRoom, over
  <2>2. ShareFollowsTopic'
    BY <1>0, <1>1, <2>1 DEF IInv, ShareFollowsTopic
  <2>3. TypeOK' /\ PreparingHasOneTopic' /\ JoinedKeepTheirRow'
    BY <1>0, <1>6, <2>1 DEF IInv, TypeOK
  <2> QED BY <1>0, <1>7, <2>1, <2>2, <2>3 DEF IInv
<1>9. CASE over /\ Queued(t) # {} /\ Len(turns_) < RoomMaxTurns
  <2> DEFINE f == t + 1
  <2>1. NextTopic(t) = f /\ f \in 1 .. Len(topics)
    BY <1>0, <1>1, <1>9, FollowerIsNext
  <2>2. /\ topics' = [done EXCEPT ![f].state = "active"]
        /\ share' = [topic |-> f, text |-> topics[f].text]
        /\ UNCHANGED <<state, part, moment, bond, shared>>
    BY <1>2, <1>9, <2>1 DEF ProgressRoom, over, done
  <2>3. /\ done \in Seq(Topic) /\ Len(done) = Len(topics) /\ done[t].state = "completed"
        /\ \A i \in 1 .. Len(topics) : i # t => done[i] = topics[i]
    <3>1. topics \in Seq(Topic) /\ t \in 1 .. Len(topics)
      BY <1>0, <1>1
    <3>2. done = WithState(topics, t, "completed")
      BY DEF done, WithState
    <3>3. LET w == WithState(topics, t, "completed")
          IN  /\ w \in Seq(Topic) /\ Len(w) = Len(topics) /\ w[t].state = "completed"
              /\ \A i \in 1 .. Len(topics) : i # t => w[i] = topics[i]
      BY <3>1, TopicStateChanges
    <3> QED BY <3>2, <3>3, Zenon
  <2>4. /\ topics' \in Seq(Topic) /\ Len(topics') = Len(topics)
        /\ topics'[f].state = "active" /\ topics'[f].text = done[f].text
        /\ \A i \in 1 .. Len(topics) : i # f => topics'[i] = done[i]
    <3>1. f \in 1 .. Len(done)
      BY <2>1, <2>3
    <3>2. done \in Seq(Topic)
      BY <2>3
    <3> HIDE DEF f
    <3>3. topics' = WithState(done, f, "active")
      BY <2>2 DEF WithState
    <3>4. LET w == WithState(done, f, "active")
          IN  /\ w \in Seq(Topic) /\ Len(w) = Len(done) /\ w[f].state = "active"
              /\ w[f].text = done[f].text
              /\ \A i \in 1 .. Len(done) : i # f => w[i] = done[i]
      BY <3>1, <3>2, TopicStateChanges
    <3>5. Len(done) = Len(topics)
      BY <2>3
    <3> QED BY <3>3, <3>4, <3>5, Zenon
  <2>5. f # t /\ done[f] = topics[f] /\ topics[f].text \in Users
    <3>1. f # t
      BY <1>1
    <3>2. topics[f] \in Topic
      BY <1>0, <2>1, ElementOfSeq
    <3> HIDE DEF f
    <3> QED BY <2>1, <2>3, <3>1, <3>2 DEF Topic
  <2>6. share' \in [topic : 0 .. Len(topics'), text : Users] /\ share'.topic = f
        /\ share'.text = topics'[f].text
    BY <1>1, <2>1, <2>2, <2>4, <2>5
  <2>7. DOMAIN topics' = 1 .. Len(topics)
    BY <2>4
  <2>8. \A i \in 1 .. Len(topics) : /\ i < f => topics'[i].state = "completed"
                                    /\ i > f => topics'[i].state = "queued"
    BY <1>1, <2>3, <2>4
  <2> HIDE DEF f
  <2>9. ShareFollowsTopic'
    BY <2>4, <2>6, <2>7, <2>8 DEF ShareFollowsTopic
  <2>10. TypeOK' /\ PreparingHasOneTopic' /\ JoinedKeepTheirRow'
    BY <1>0, <1>6, <2>2, <2>4, <2>6 DEF IInv, TypeOK
  <2> QED BY <1>0, <1>7, <2>2, <2>9, <2>10 DEF IInv
<1>10. CASE over /\ ~(Queued(t) # {} /\ Len(turns_) < RoomMaxTurns)
  <2>1. /\ topics' = done /\ state' = "ended" /\ part' = Emptied /\ EnsureMoment(turns_)
        /\ share' = share
    BY <1>2, <1>10 DEF ProgressRoom, over, done
  <2>2. /\ topics' \in Seq(Topic) /\ Len(topics') = Len(topics)
        /\ topics'[t].state = "completed"
    <3>1. topics \in Seq(Topic) /\ t \in 1 .. Len(topics)
      BY <1>0, <1>1
    <3>2. topics' = WithState(topics, t, "completed")
      BY <2>1 DEF done, WithState
    <3> QED BY <3>1, <3>2, TopicStateChanges
  <2>3. Len(turns_) >= 2
    BY <1>3, <1>10, OverAfterTwo DEF over
  <2>4. /\ moment' \in 1 .. RoomMaxTurns /\ moment' = Len(turns_)
        /\ bond' \in [Pairs -> [visits : 0 .. MaxVisits, turns : 0 .. RoomMaxTurns * MaxVisits]]
        /\ shared' \in [Pairs -> 0 .. MaxVisits]
        /\ OneMomentPerVisit' /\ BondCountsMoments'
    BY <1>0, <1>3, <2>1, <2>3, EnsureMomentSettles
  <2>5. moment' # 0 /\ moment' \in 0 .. RoomMaxTurns
    BY <2>4
  <2>6. ShareFollowsTopic'
    BY <1>0, <2>1, <2>2, <2>5 DEF ShareFollowsTopic
  <2>7. OverIsEmpty' /\ MomentIsWhole'
    BY <1>0, <2>1, <2>3, <2>4, EmptiedRooms DEF OverIsEmpty, MomentIsWhole
  <2>8. TypeOK' /\ PreparingHasOneTopic' /\ JoinedKeepTheirRow'
    BY <1>0, <1>6, <2>1, <2>2, <2>4, <2>5, EmptiedRooms
  <2> QED BY <2>4, <2>6, <2>7, <2>8 DEF IInv
<1> QED BY <1>8, <1>9, <1>10

-----------------------------------------------------------------------------
LEMMA InitInv ==
  ASSUME Init
  PROVE  IInv
<1>1. 0 \in 0 .. RoomMaxTurns /\ 0 \in 0 .. MaxVisits /\ 0 <= RoomMaxTurns
  BY DialogueAssumption
<1>2. \A pair \in Pairs :
        bond[pair] = [visits |-> 0, turns |-> 0] /\ shared[pair] = 0
  BY DEF Init
<1>3. RoomMaxTurns * 0 = 0
  BY DialogueAssumption
<1>4. bond \in [Pairs -> [visits : 0 .. MaxVisits, turns : 0 .. RoomMaxTurns * MaxVisits]]
  <2>1. [visits |-> 0, turns |-> 0] \in
          [visits : 0 .. MaxVisits, turns : 0 .. RoomMaxTurns * MaxVisits]
    BY <1>1, <1>3, BondBound
  <2> QED BY <2>1 DEF Init
<1>5. BondCountsMoments
  BY <1>2, <1>3 DEF BondCountsMoments, Init
<1>6. joined \in Seq(Guests) /\ IsInjective(joined) /\ Range(joined) = {}
  BY DEF Init, IsInjective, Range
<1>7. topics \in Seq(Topic) /\ Len(topics) = 0 /\ Len(turns) = 0
      /\ turns \in Seq([by : Users, topic : 1 .. Len(topics)])
  BY DEF Init
<1>8. share \in [topic : 0 .. Len(topics), text : Users] /\ share.topic = 0
  BY <1>7, EveryonesNames DEF Init, NoShare, NoTopic
<1>9. TypeOK
  BY <1>1, <1>4, <1>6, <1>7, <1>8 DEF TypeOK, Init
<1>10. /\ PreparingHasOneTopic /\ JoinedKeepTheirRow /\ OverIsEmpty /\ MomentIsWhole
       /\ ShareFollowsTopic
  BY <1>6, <1>7, <1>8 DEF PreparingHasOneTopic, JoinedKeepTheirRow, OverIsEmpty, MomentIsWhole,
                          ShareFollowsTopic, NoTopic, Init
<1>11. OneMomentPerVisit
  BY <1>2 DEF OneMomentPerVisit, Init
<1> QED BY <1>5, <1>9, <1>10, <1>11 DEF IInv

LEMMA NextInv ==
  ASSUME IInv, Next
  PROVE  IInv'
<1>1. CASE \E author \in {{}, {Visitor}, {Host}} : AcceptInvitation(author)
  BY <1>1, AcceptInvitationInv, Zenon
<1>2. CASE SetShare \/ StartSession \/ EndSession
  BY <1>2, SetShareInv, StartSessionInv, EndSessionInv, Zenon
<1>3. CASE \E u \in Users : MarkReady(u) \/ MarkParticipantReady(u) \/ LeaveRoom(u)
                            \/ FinalizeMoment(u) \/ DeleteAccount(u)
  BY <1>3, MarkReadyInv, MarkParticipantReadyInv, LeaveRoomInv, FinalizeMomentInv,
     DeleteAccountInv, Zenon
<1>4. CASE \E u \in Users, flag \in BOOLEAN : AcceptJoinRequest(u, flag) \/ AppendTurn(u, flag)
  BY <1>4, AcceptJoinRequestInv, AppendTurnInv, Zenon
<1>5. CASE \E pair \in Pairs : Sever(pair)
  BY <1>5, SeverInv, Zenon
<1> QED BY <1>1, <1>2, <1>3, <1>4, <1>5, Zenon DEF Next

LEMMA StutterInv ==
  ASSUME IInv, UNCHANGED vars
  PROVE  IInv'
<1>1. UNCHANGED record /\ UNCHANGED <<state, part, readied, severed, deleting, spoken>>
  BY DEF vars, record
<1>2. OverIsEmpty'
  BY <1>1 DEF IInv, OverIsEmpty
<1>3. /\ readied' \subseteq Users /\ severed' \subseteq Pairs /\ deleting' \subseteq Guests
      /\ spoken' \in [Users -> SUBSET Users]
      /\ part' \in [Users -> {"absent", "preparing", "ready", "active", "left"}]
      /\ state' \in {"none", "preparing", "ready", "active", "ended", "cancelled"}
  BY <1>1 DEF IInv, TypeOK
<1> QED BY <1>1, <1>2, <1>3, RecordStays

(***************************************************************************)
(* The conversation keeps its inductive invariant.                         *)
(***************************************************************************)
THEOREM Invariance == Spec => []IInv
<1>1. Init => IInv
  BY InitInv
<1>2. IInv /\ [Next]_vars => IInv'
  BY NextInv, StutterInv
<1> QED BY <1>1, <1>2, PTL DEF Spec

(***************************************************************************)
(* The rows of a room keep their types: no more than ROOM_MAX_TURNS turns, *)
(* each on a topic of the room, and counters that count at most one moment *)
(* a visit.                                                                *)
(***************************************************************************)
THEOREM TypeCorrectness == Spec => []TypeOK
<1>1. IInv => TypeOK
  BY DEF IInv
<1> QED BY <1>1, Invariance, PTL

(***************************************************************************)
(* Whoever joins, leaves, gets ready or is deleted meanwhile, the share    *)
(* shows the one active topic until the room ends by itself (setShare,     *)
(* acceptJoinRequest, progressRoom).                                       *)
(***************************************************************************)
THEOREM ShareStaysWithTopic == Spec => []ShareFollowsTopic
<1>1. IInv => ShareFollowsTopic
  BY DEF IInv
<1> QED BY <1>1, Invariance, PTL

(***************************************************************************)
(* Over any number of visits a relationship counts each Shared Moment once *)
(* and no more turns than were taken (ensureMoment, settleRelationships).  *)
(***************************************************************************)
THEOREM BondsAreSettledOnce == Spec => []BondCountsMoments
<1>1. IInv => BondCountsMoments
  BY DEF IInv
<1> QED BY <1>1, Invariance, PTL

(***************************************************************************)
(* A Shared Moment counts the whole of a conversation that is over         *)
(* (finalizeMoment, progressRoom).                                         *)
(***************************************************************************)
THEOREM MomentsAreWhole == Spec => []MomentIsWhole
<1>1. IInv => MomentIsWhole
  BY DEF IInv
<1> QED BY <1>1, Invariance, PTL

-----------------------------------------------------------------------------
(* The rotation: who may have spoken since each speaker did.                *)

(* q is behind p and not behind l, going round the room. *)
Between(p, q, l) ==
  /\ Place(p) < Place(l) => Place(p) < Place(q) /\ Place(q) <= Place(l)
  /\ Place(l) < Place(p) => Place(p) < Place(q) \/ Place(q) <= Place(l)

(* Everybody who spoke since p did is between p and the last sender, who   *)
(* is still there: otherwise the rotation has started again.               *)
SpokenAreBetween ==
  \A p \in Speakers : \A q \in spoken[p] : \A l \in LastSender :
    /\ l \in Speakers /\ l # p
    /\ q \in Range(Order) /\ Between(p, q, l)

SilentBeforeStart ==
  /\ state \in {"none", "preparing", "ready"} => turns = <<>>
  /\ turns = <<>> => \A p \in Users : spoken[p] = {}

RotationInv == SpokenAreBetween /\ SilentBeforeStart


LEMMA SmallestNumber ==
  ASSUME NEW S, S \subseteq Nat, S # {}
  PROVE  \E n \in S : \A k \in S : n <= k
<1>1. PICK n \in S : \A k \in S : ~(<<k, n>> \in OpToRel(<, Nat))
  BY NatLessThanWellFounded, WFMin
<1>2. \A k \in S : ~(k < n)
  BY <1>1 DEF OpToRel
<1> QED BY <1>2

(* Everybody in the room has a place of its own. *)
LEMMA Places ==
  ASSUME TypeOK
  PROVE  /\ Order \in Seq(Users)
         /\ \A i, j \in DOMAIN Order : Order[i] = Order[j] => i = j
         /\ \A u \in Range(Order) : Place(u) \in DOMAIN Order /\ Place(u) \in Nat /\ Order[Place(u)] = u
         /\ Range(Order) = {Visitor, Host} \cup Range(joined)
<1>1. joined \in Seq(Guests) /\ Len(joined) \in Nat /\ DOMAIN joined = 1..Len(joined)
      /\ \A i, j \in DOMAIN joined : joined[i] = joined[j] => i = j
  BY DEF TypeOK, IsInjective
<1>2. Visitor # Host /\ Visitor \notin Guests /\ Host \notin Guests
  BY DialogueAssumption
<1>3. /\ Order \in Seq(Users) /\ Len(Order) = Len(joined) + 2
      /\ Order[1] = Visitor /\ Order[2] = Host
      /\ \A i \in 3..(Len(joined) + 2) : Order[i] = joined[i - 2]
  BY <1>1 DEF Order, Users
<1>4. DOMAIN Order = 1..(Len(joined) + 2)
  BY <1>3
<1>5. \A i \in 3..(Len(joined) + 2) : i - 2 \in DOMAIN joined /\ joined[i - 2] \in Guests
  BY <1>1
<1>6. \A i, j \in DOMAIN Order : Order[i] = Order[j] => i = j
  <2> SUFFICES ASSUME NEW i \in DOMAIN Order, NEW j \in DOMAIN Order, Order[i] = Order[j] PROVE i = j
    OBVIOUS
  <2>1. /\ i = 1 \/ i = 2 \/ i \in 3..(Len(joined) + 2)
        /\ j = 1 \/ j = 2 \/ j \in 3..(Len(joined) + 2)
    BY <1>1, <1>4
  <2>2. CASE i \in 3..(Len(joined) + 2) /\ j \in 3..(Len(joined) + 2)
    <3>1. i - 2 = j - 2
      BY <1>1, <1>3, <1>5, <2>2
    <3> QED BY <2>2, <3>1
  <2> QED BY <1>2, <1>3, <1>5, <2>1, <2>2
<1>7. \A u \in Range(Order) : Place(u) \in DOMAIN Order /\ Order[Place(u)] = u
  BY DEF Range, Place
<1>8. Range(Order) = {Visitor, Host} \cup Range(joined)
  <2>1. ASSUME NEW u \in Range(joined) PROVE u \in Range(Order)
    <3>1. PICK n \in DOMAIN joined : joined[n] = u
      BY DEF Range
    <3>2. n + 2 \in 3..(Len(joined) + 2) /\ (n + 2) - 2 = n
      BY <1>1
    <3>3. n + 2 \in DOMAIN Order /\ Order[n + 2] = u
      BY <1>3, <1>4, <3>1, <3>2
    <3> QED BY <3>3 DEF Range
  <2>2. 1 \in DOMAIN Order /\ 2 \in DOMAIN Order
    BY <1>1, <1>4
  <2>3. Visitor \in Range(Order) /\ Host \in Range(Order)
    BY <1>3, <2>2 DEF Range
  <2>4. ASSUME NEW u \in Range(Order) PROVE u \in {Visitor, Host} \cup Range(joined)
    <3>1. PICK i \in DOMAIN Order : Order[i] = u
      BY DEF Range
    <3>2. i = 1 \/ i = 2 \/ i \in 3..(Len(joined) + 2)
      BY <1>1, <1>4
    <3>3. i \in 3..(Len(joined) + 2) => u \in Range(joined)
      BY <1>3, <1>5, <3>1 DEF Range
    <3> QED BY <1>3, <3>1, <3>2, <3>3
  <2> QED BY <2>1, <2>3, <2>4
<1> QED BY <1>3, <1>4, <1>6, <1>7, <1>8

(* A guest takes the place behind the others. *)
LEMMA PlacesStay ==
  ASSUME TypeOK, joined' = joined \/ \E g \in Guests \ Range(joined) : joined' = Append(joined, g)
  PROVE  /\ Range(Order) \subseteq Range(Order')
         /\ \A u \in Range(Order) : Place(u)' = Place(u)
<1>1. CASE joined' = joined
  BY <1>1 DEF Order, Place
<1>2. CASE \E g \in Guests \ Range(joined) : joined' = Append(joined, g)
  <2>1. joined \in Seq(Guests) /\ Len(joined) \in Nat
    BY DEF TypeOK
  <2>2. PICK g \in Guests \ Range(joined) : joined' = Append(joined, g)
    BY <1>2
  <2>3. /\ DOMAIN Order' = DOMAIN Order \cup {Len(joined) + 3} /\ Order'[Len(joined) + 3] = g
        /\ \A i \in DOMAIN Order : Order'[i] = Order[i]
    BY <2>1, <2>2 DEF Order
  <2>4. ASSUME NEW u \in Range(Order) PROVE u \in Range(Order') /\ Place(u)' = Place(u)
    <3>1. Place(u) \in DOMAIN Order /\ Order[Place(u)] = u
      BY Places
    <3>2. Place(u) \in DOMAIN Order' /\ Order'[Place(u)] = u
      BY <2>3, <3>1
    <3>3. u \in Range(Order')
      BY <3>2 DEF Range
    <3>4. u # g
      BY <2>2, Places, DialogueAssumption
    <3>5. \A i \in DOMAIN Order' : Order'[i] = u => i = Place(u)
      BY <2>3, <3>1, <3>4, Places
    <3>6. Place(u)' = CHOOSE i \in DOMAIN Order' : Order'[i] = u
      BY DEF Place
    <3> QED BY <3>2, <3>3, <3>5, <3>6
  <2> QED BY <2>4
<1> QED BY <1>1, <1>2

(* Somebody is first. *)
LEMMA SomebodyIsFirst ==
  ASSUME TypeOK, NEW people_ \in SUBSET Range(Order), people_ # {}
  PROVE  First(people_) \in people_ /\ \A p \in people_ : Place(First(people_)) <= Place(p)
<1> DEFINE N == {Place(p) : p \in people_}
<1>1. N \subseteq Nat /\ N # {}
  BY Places
<1> HIDE DEF N
<1>2. PICK n \in N : \A k \in N : n <= k
  BY <1>1, SmallestNumber
<1>3. PICK u \in people_ : n = Place(u)
  BY <1>2 DEF N
<1>4. \A p \in people_ : Place(u) <= Place(p)
  BY <1>2, <1>3 DEF N
<1> QED BY <1>4 DEF First

(* nextActor goes round: on to the next place that is taken, or back to    *)
(* the first when the last sender has the last one.                        *)
LEMMA NextGoesRound ==
  ASSUME TypeOK, NEW l \in Speakers, LastSender = {l}
  PROVE  /\ NextActor \in Speakers
         /\ \/ \A p \in Speakers : Place(p) <= Place(l) /\ Place(NextActor) <= Place(p)
            \/ /\ Place(l) < Place(NextActor)
               /\ \A p \in Speakers : Place(l) < Place(p) => Place(NextActor) <= Place(p)
<1> DEFINE later == {p \in Speakers : Place(l) < Place(p)}
<1>1. NextActor = First(IF later = {} THEN Speakers ELSE later)
  BY DEF NextActor
<1>2. Speakers \in SUBSET Range(Order) /\ later \in SUBSET Range(Order)
  BY DEF Speakers
<1>3. \A p \in Speakers : Place(p) \in Nat
  BY <1>2, Places
<1>4. CASE later = {}
  <2>1. \A p \in Speakers : Place(p) <= Place(l)
    BY <1>3, <1>4
  <2> QED BY <1>1, <1>2, <1>4, <2>1, SomebodyIsFirst
<1>5. CASE later # {}
  BY <1>1, <1>2, <1>5, SomebodyIsFirst
<1> QED BY <1>4, <1>5



(* A step without a turn: nobody's place changes, and whoever is to speak  *)
(* after it was to speak before, or starts anew.                           *)
LEMMA RotationStays ==
  ASSUME TypeOK, RotationInv, UNCHANGED turns,
         joined' = joined \/ \E g \in Guests \ Range(joined) : joined' = Append(joined, g),
         \/ \A p \in Users : spoken'[p] = {}
         \/ /\ \A p \in Speakers' : spoken'[p] = {} \/ (p \in Speakers /\ spoken'[p] = spoken[p])
            /\ LastSender \cap Speakers \subseteq Speakers'
            /\ turns # <<>>,
         state' \in {"none", "preparing", "ready"} => turns = <<>>
  PROVE  RotationInv'
<1>1. LastSender' = LastSender
  BY DEF LastSender
<1>2. /\ Range(Order) \subseteq Range(Order')
      /\ \A u \in Range(Order) : Place(u)' = Place(u)
  BY PlacesStay
<1>3. Speakers \subseteq Range(Order) /\ Range(Order) \subseteq Users
  <2>1. Range(joined) \subseteq Guests
    BY DEF TypeOK, Range
  <2> QED BY <2>1, Places DEF Speakers, Users
<1>4. SilentBeforeStart'
  BY DEF RotationInv, SilentBeforeStart
<1>5. SpokenAreBetween'
  <2> SUFFICES ASSUME NEW p \in Speakers', NEW q \in spoken'[p], NEW l \in LastSender
               PROVE  /\ l \in Speakers' /\ l # p
                      /\ q \in Range(Order') /\ Between(p, q, l)'
    BY <1>1 DEF SpokenAreBetween
  <2>1. p \in Users
    <3>0. joined \in Seq(Guests)
      BY DEF TypeOK
    <3>1. joined' \in Seq(Guests)
      <4>1. CASE joined' = joined
        BY <3>0, <4>1
      <4>2. CASE \E g \in Guests \ Range(joined) : joined' = Append(joined, g)
        BY <3>0, <4>2
      <4> QED BY <4>1, <4>2
    <3>2. <<Visitor, Host>> \o joined' \in Seq(Users)
      BY <3>1 DEF Users
    <3>3. Order' \in Seq(Users)
      BY <3>2 DEF Order
    <3> QED BY <3>3 DEF Speakers, Range
  <2>2. p \in Speakers /\ q \in spoken[p] /\ LastSender \cap Speakers \subseteq Speakers'
    BY <2>1
  <2>3. l \in Speakers /\ l # p /\ q \in Range(Order) /\ Between(p, q, l)
    BY <2>2 DEF RotationInv, SpokenAreBetween
  <2>4. Between(p, q, l)'
    BY <1>2, <1>3, <2>2, <2>3 DEF Between
  <2> QED BY <1>2, <2>2, <2>3, <2>4
<1> QED BY <1>4, <1>5 DEF RotationInv



LEMMA RotationInit ==
  ASSUME Init
  PROVE  RotationInv
BY DEF Init, RotationInv, SpokenAreBetween, SilentBeforeStart, LastSender

(* Steps that leave the speakers alone, and those before the first turn. *)
LEMMA SameSpeakers ==
  ASSUME IInv, RotationInv, UNCHANGED <<turns, joined, part, spoken>>,
         state' \in {"none", "preparing", "ready"} => state \in {"none", "preparing", "ready"}
  PROVE  RotationInv'
<1>1. Speakers' = Speakers
  BY DEF Speakers, Order
<1>2. turns = <<>> => \A p \in Users : spoken'[p] = {}
  BY DEF RotationInv, SilentBeforeStart
<1> QED BY <1>1, <1>2, RotationStays DEF IInv, RotationInv, SilentBeforeStart

LEMMA BeforeStart ==
  ASSUME IInv, RotationInv, UNCHANGED <<turns, joined, spoken>>,
         state \in {"preparing", "ready"}
  PROVE  RotationInv'
<1>1. turns = <<>> /\ \A p \in Users : spoken'[p] = {}
  BY DEF RotationInv, SilentBeforeStart
<1> QED BY <1>1, RotationStays DEF IInv

LEMMA AcceptInvitationRotation ==
  ASSUME NEW author, AcceptInvitation(author)
  PROVE  RotationInv'
BY DEF AcceptInvitation, RotationInv, SpokenAreBetween, SilentBeforeStart, LastSender

LEMMA AcceptJoinRequestRotation ==
  ASSUME IInv, RotationInv, NEW g \in Users, NEW withTopic, AcceptJoinRequest(g, withTopic)
  PROVE  RotationInv'
<1>1. /\ g \in Guests /\ part[g] = "absent" /\ state' = state
      /\ part' = [part EXCEPT ![g] = "preparing"] /\ joined' = Append(joined, g)
      /\ UNCHANGED <<turns, spoken>>
      /\ part \in [Users -> {"absent", "preparing", "ready", "active", "left"}]
      /\ joined \in Seq(Guests)
  BY DEF AcceptJoinRequest, IInv, TypeOK
<1>2. g \notin Range(joined)
  BY <1>1 DEF IInv, JoinedKeepTheirRow
<1>3. Order' = Append(Order, g) /\ Order \in Seq(Users) /\ Range(Order) \subseteq Users
  <2>1. Order \in Seq(Users)
    BY Places DEF IInv
  <2>2. Order' = Append(Order, g)
    BY <1>1 DEF Order
  <2> QED BY <2>1, <2>2 DEF Range
<1>4. Range(Order') = Range(Order) \cup {g}
  <2>1. DOMAIN Order' = DOMAIN Order \cup {Len(Order) + 1} /\ Order'[Len(Order) + 1] = g
        /\ \A i \in DOMAIN Order : Order'[i] = Order[i]
    BY <1>3
  <2> QED BY <2>1 DEF Range
<1>5. Speakers' = Speakers
  BY <1>1, <1>3, <1>4 DEF Speakers
<1>6. turns = <<>> => \A p \in Users : spoken'[p] = {}
  BY <1>1 DEF RotationInv, SilentBeforeStart
<1> QED BY <1>1, <1>2, <1>5, <1>6, RotationStays DEF IInv, RotationInv, SilentBeforeStart

LEMMA MarkParticipantReadyRotation ==
  ASSUME IInv, RotationInv, NEW u \in Users, MarkParticipantReady(u)
  PROVE  RotationInv'
<1>1. /\ part[u] \in {"preparing", "ready"} /\ part' = [part EXCEPT ![u] = "active"]
      /\ spoken' = [spoken EXCEPT ![u] = {}] /\ UNCHANGED <<state, joined, turns>>
      /\ part \in [Users -> {"absent", "preparing", "ready", "active", "left"}]
      /\ spoken \in [Users -> SUBSET Users]
  BY DEF MarkParticipantReady, IInv, TypeOK
<1>2. Range(Order) \subseteq Users /\ Order' = Order
  <2>1. Order \in Seq(Users)
    BY Places DEF IInv
  <2> QED BY <1>1, <2>1 DEF Range, Order
<1>3. /\ \A p \in Speakers' : p = u \/ p \in Speakers
      /\ Speakers \subseteq Speakers' /\ Speakers' \subseteq Users
  BY <1>1, <1>2 DEF Speakers
<1>4. \A p \in Speakers' : spoken'[p] = {} \/ (p \in Speakers /\ spoken'[p] = spoken[p])
  BY <1>1, <1>3
<1>5. turns = <<>> => \A p \in Users : spoken'[p] = {}
  BY <1>1 DEF RotationInv, SilentBeforeStart
<1> QED BY <1>1, <1>3, <1>4, <1>5, RotationStays DEF IInv, RotationInv, SilentBeforeStart

LEMMA LeaveRoomRotation ==
  ASSUME IInv, RotationInv, NEW u \in Users, LeaveRoom(u)
  PROVE  RotationInv'
<1>1. /\ part' = [part EXCEPT ![u] = "left"]
      /\ spoken' = IF u \in LastSender THEN [p \in Users |-> {}] ELSE spoken
      /\ UNCHANGED <<state, joined, turns>>
      /\ part \in [Users -> {"absent", "preparing", "ready", "active", "left"}]
  BY DEF LeaveRoom, IInv, TypeOK
<1>2. Range(Order) \subseteq Users /\ Order' = Order
  <2>1. Order \in Seq(Users)
    BY Places DEF IInv
  <2> QED BY <1>1, <2>1 DEF Range, Order
<1>3. Speakers' = Speakers \ {u}
  BY <1>1, <1>2 DEF Speakers
<1>4. turns = <<>> => \A p \in Users : spoken'[p] = {}
  BY <1>1 DEF RotationInv, SilentBeforeStart
<1> QED BY <1>1, <1>3, <1>4, RotationStays DEF IInv, RotationInv, SilentBeforeStart

(* A room that is emptied has no speakers. *)
LEMMA EmptiedRotation ==
  ASSUME IInv, part' = Emptied, UNCHANGED joined, SilentBeforeStart'
  PROVE  RotationInv'
<1>1. Order' = Order /\ Range(Order) \subseteq Users
  <2>1. Order \in Seq(Users)
    BY Places DEF IInv
  <2> QED BY <2>1 DEF Range, Order
<1>2. Speakers' = {}
  BY <1>1 DEF Speakers, Emptied
<1> QED BY <1>2 DEF RotationInv, SpokenAreBetween

LEMMA EndSessionRotation ==
  ASSUME IInv, RotationInv, EndSession
  PROVE  RotationInv'
<1>1. SilentBeforeStart'
  BY DEF EndSession, RotationInv, SilentBeforeStart
<1> QED BY <1>1, EmptiedRotation DEF EndSession

LEMMA DeleteAccountRotation ==
  ASSUME IInv, RotationInv, NEW g \in Users, DeleteAccount(g)
  PROVE  RotationInv'
<1>1. CASE part' = part
  BY <1>1, SameSpeakers DEF DeleteAccount
<1>2. CASE part' # part
  BY <1>2, RotationStays DEF DeleteAccount, IInv, RotationInv, SilentBeforeStart
<1> QED BY <1>1, <1>2

(* Whose turn it is has not spoken since anybody else who may speak did. *)
LEMMA NextHasWaited ==
  ASSUME IInv, RotationInv, NEW p \in Speakers, p # NextActor
  PROVE  NextActor \notin spoken[p]
<1> SUFFICES ASSUME NextActor \in spoken[p] PROVE FALSE
  OBVIOUS
<1>1. p \in Users /\ Speakers \subseteq Range(Order)
  <2>1. Order \in Seq(Users)
    BY Places DEF IInv
  <2> QED BY <2>1 DEF Range, Speakers
<1>2. turns # <<>>
  BY <1>1 DEF RotationInv, SilentBeforeStart
<1>3. PICK l : LastSender = {l}
  BY <1>2 DEF LastSender
<1>4. l \in Speakers /\ l # p /\ Between(p, NextActor, l)
  BY <1>3 DEF RotationInv, SpokenAreBetween
<1>5. /\ NextActor \in Speakers
      /\ \/ \A s \in Speakers : Place(s) <= Place(l) /\ Place(NextActor) <= Place(s)
         \/ /\ Place(l) < Place(NextActor)
            /\ \A s \in Speakers : Place(l) < Place(s) => Place(NextActor) <= Place(s)
  BY <1>3, <1>4, NextGoesRound DEF IInv
<1>6. /\ Place(p) \in Nat /\ Place(l) \in Nat /\ Place(NextActor) \in Nat
      /\ Place(p) # Place(l)
  BY <1>1, <1>4, <1>5, Places DEF IInv
<1> QED BY <1>4, <1>5, <1>6 DEF Between

LEMMA AppendTurnRotation ==
  ASSUME IInv, RotationInv, NEW u \in Users, NEW boundary, AppendTurn(u, boundary)
  PROVE  RotationInv'
<1>1. /\ state = "active" /\ u = NextActor /\ part[u] = "active"
      /\ turns' = Append(turns, [by |-> u, topic |-> ActiveTopic])
      /\ spoken' = [p \in Users |-> IF p = u THEN {} ELSE spoken[p] \cup {u}]
      /\ UNCHANGED joined
  BY DEF AppendTurn
<1>2. /\ turns' # <<>> /\ LastSender' = {u}
  <2>1. turns \in Seq([by : Users, topic : 1 .. Len(topics)])
    BY DEF IInv, TypeOK
  <2> DEFINE turn == [by |-> u, topic |-> ActiveTopic]
             T == [by : Users, topic : 1 .. Len(topics)] \cup {turn}
  <2>3. turns \in Seq(T)
    <3> DEFINE S == [by : Users, topic : 1 .. Len(topics)]
    <3>1. S \subseteq T
      OBVIOUS
    <3> HIDE DEF S, T
    <3> QED BY <2>1, <3>1, SeqMonotonic DEF S
  <2>4. turn \in T /\ turn.by = u
    OBVIOUS
  <2> HIDE DEF turn, T
  <2>5. turns' = Append(turns, turn)
    BY <1>1 DEF turn
  <2>2. turns' # <<>> /\ Len(turns') = Len(turns) + 1 /\ turns'[Len(turns')].by = u
    BY <2>3, <2>4, <2>5
  <2> QED BY <2>2 DEF LastSender, Last
<1>3. state' \in {"active", "ended"} /\ (part' = part \/ part' = Emptied)
  BY <1>1 DEF AppendTurn, ProgressRoom
<1>4. SilentBeforeStart'
  BY <1>2, <1>3 DEF SilentBeforeStart
<1>5. CASE part' = Emptied
  BY <1>1, <1>4, <1>5, EmptiedRotation
<1>6. CASE part' = part
  <2>1. /\ Order' = Order /\ Speakers' = Speakers /\ Speakers \subseteq Range(Order)
        /\ Range(Order) \subseteq Users
    <3>1. Order \in Seq(Users)
      BY Places DEF IInv
    <3> QED BY <1>1, <1>6, <3>1 DEF Range, Order, Speakers
  <2>2. \A s \in Range(Order) : Place(s)' = Place(s) /\ Place(s) \in Nat
    BY <2>1, Places DEF Place, IInv
  <2>3. \A s, t \in Range(Order) : Place(s) = Place(t) => s = t
    BY Places DEF IInv
  <2>4. ASSUME NEW p \in Speakers, p # u, NEW q \in spoken[p] \cup {u}
        PROVE  u \in Speakers /\ q \in Range(Order) /\ Between(p, q, u)
    <3>1. u \in Speakers
      <4>1. LET later == {s \in Speakers : \E r \in LastSender \cap Speakers : Place(r) < Place(s)}
                those == IF later = {} THEN Speakers ELSE later
            IN  NextActor = First(those) /\ those \subseteq Speakers /\ those # {}
        BY DEF NextActor
      <4>2. PICK those \in SUBSET Speakers : NextActor = First(those) /\ those # {}
        BY <4>1
      <4> QED BY <1>1, <2>1, <4>2, SomebodyIsFirst DEF IInv
    <3>2. CASE q = u
      BY <2>1, <2>2, <3>1, <3>2 DEF Between
    <3>3. CASE q \in spoken[p]
      <4>1. turns # <<>>
        BY <2>1, <3>3 DEF RotationInv, SilentBeforeStart
      <4>2. PICK l : LastSender = {l}
        BY <4>1 DEF LastSender
      <4>3. l \in Speakers /\ l # p /\ q \in Range(Order) /\ Between(p, q, l)
        BY <3>3, <4>2 DEF RotationInv, SpokenAreBetween
      <4>4. \/ \A s \in Speakers : Place(s) <= Place(l) /\ Place(u) <= Place(s)
            \/ /\ Place(l) < Place(u)
               /\ \A s \in Speakers : Place(l) < Place(s) => Place(u) <= Place(s)
        BY <1>1, <4>2, <4>3, NextGoesRound DEF IInv
      <4>5. /\ Place(p) \in Nat /\ Place(q) \in Nat /\ Place(l) \in Nat /\ Place(u) \in Nat
            /\ Place(p) # Place(l) /\ Place(p) # Place(u)
        BY <2>1, <2>2, <2>3, <2>4, <3>1, <4>3
      <4>6. Between(p, q, u)
        BY <4>3, <4>4, <4>5 DEF Between
      <4> QED BY <3>1, <4>3, <4>6
    <3> QED BY <2>4, <3>2, <3>3
  <2>5. SpokenAreBetween'
    <3> SUFFICES ASSUME NEW p \in Speakers, NEW q \in spoken'[p]
                 PROVE  u \in Speakers /\ u # p /\ q \in Range(Order) /\ Between(p, q, u)'
      BY <1>2, <2>1 DEF SpokenAreBetween
    <3>1. p # u /\ q \in spoken[p] \cup {u}
      BY <1>1, <2>1
    <3>2. u \in Speakers /\ q \in Range(Order) /\ Between(p, q, u)
      BY <2>4, <3>1
    <3>3. Between(p, q, u)'
      BY <2>1, <2>2, <3>2 DEF Between
    <3> QED BY <3>1, <3>2, <3>3
  <2> QED BY <1>4, <2>5 DEF RotationInv
<1> QED BY <1>3, <1>5, <1>6

LEMMA RotationStep ==
  ASSUME IInv, RotationInv, [Next]_vars
  PROVE  RotationInv'
<1>1. ASSUME NEW author \in {{}, {Visitor}, {Host}}, AcceptInvitation(author) PROVE RotationInv'
  BY <1>1, AcceptInvitationRotation
<1>2. CASE SetShare
  BY <1>2, SameSpeakers DEF SetShare
<1>3. CASE StartSession
  BY <1>3, BeforeStart DEF StartSession
<1>4. ASSUME NEW u \in Users, MarkReady(u) PROVE RotationInv'
  BY <1>4, BeforeStart DEF MarkReady
<1>5. ASSUME NEW u \in Users, FinalizeMoment(u) PROVE RotationInv'
  BY <1>5, SameSpeakers DEF FinalizeMoment, room
<1>6. ASSUME NEW pair \in Pairs, Sever(pair) PROVE RotationInv'
  BY <1>6, SameSpeakers DEF Sever, room
<1>7. CASE UNCHANGED vars
  BY <1>7, SameSpeakers DEF vars
<1> QED BY <1>1, <1>2, <1>3, <1>4, <1>5, <1>6, <1>7, EndSessionRotation, DeleteAccountRotation,
           MarkParticipantReadyRotation, LeaveRoomRotation, AcceptJoinRequestRotation,
           AppendTurnRotation, Zenon DEF Next

(***************************************************************************)
(* For any number of guests nobody speaks twice while somebody else who    *)
(* is active has not spoken, whoever joins, gets ready or leaves           *)
(* meanwhile; when the last speaker leaves, the round starts again         *)
(* (nextActor, loadParticipants).                                          *)
(***************************************************************************)
THEOREM SpeakersTakeTurns == Spec => RoundRobin
<1>1. Init => RotationInv
  BY RotationInit
<1>2. IInv /\ RotationInv /\ [Next]_vars => RotationInv'
  BY RotationStep
<1>3. IInv /\ RotationInv /\ [Next]_vars =>
        [\A u \in Users : turns' # turns /\ turns' # <<>> /\ Last(turns').by = u =>
           \A p \in Speakers \ {u} : u \notin spoken[p]]_vars
  <2> SUFFICES ASSUME IInv, RotationInv, Next, NEW u \in Users, turns' # turns, turns' # <<>>,
                      Last(turns').by = u, NEW p \in Speakers \ {u}
               PROVE  u \notin spoken[p]
    OBVIOUS
  <2>1. PICK who \in Users, boundary \in BOOLEAN : AppendTurn(who, boundary)
    BY DEF Next, AcceptInvitation, SetShare, StartSession, EndSession, MarkReady,
           MarkParticipantReady, LeaveRoom, FinalizeMoment, DeleteAccount, AcceptJoinRequest,
           Sever, room
  <2>2. who = u
    <3>1. turns \in Seq([by : Users, topic : 1 .. Len(topics)])
      BY DEF IInv, TypeOK
    <3>2. turns' = Append(turns, [by |-> who, topic |-> ActiveTopic])
      BY <2>1 DEF AppendTurn
    <3>3. Len(turns') = Len(turns) + 1 /\ turns'[Len(turns')].by = who
      BY <3>1, <3>2
    <3> QED BY <3>3 DEF Last
  <2> QED BY <2>1, <2>2, NextHasWaited DEF AppendTurn
<1> QED BY <1>1, <1>2, <1>3, Invariance, PTL DEF Spec, RoundRobin
=============================================================================
