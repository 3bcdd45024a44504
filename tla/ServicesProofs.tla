--------------------------- MODULE ServicesProofs ---------------------------
(***************************************************************************)
(* Theorems about the services that share no state with the visits or with *)
(* each other: AdminRoles, SharedTopics, PortalSession, RailwayMigrate,    *)
(* DebugEvents, PagedLists, DataExport, RateLimits and DeletionQueue.      *)
(* Each part states the inductive invariant of its module, shows that      *)
(* every action keeps it, and concludes.                                   *)
(***************************************************************************)
EXTENDS AdminRoles, SharedTopics, PortalSession, RailwayMigrate, DebugEvents,
        PagedLists, DataExport, RateLimits, DeletionQueue, FiniteSetTheorems,
        NaturalsInduction, WellFoundedInduction, TLAPS

-----------------------------------------------------------------------------
(* AdminRoles: who is a Superadmin, and what the audit trail says of it.    *)

(* The demote transaction holds the row of its target: nobody deletes it. *)
TargetIsHeld == demotion # Idle => Superadmin(demotion.target)

(* Only an ordinary account is told to leave, and it is suspended for as   *)
(* long as it leaves, whatever its role is by then.                        *)
LeaversAreSuspended ==
  \A p \in People : Exists(p) /\ account[p].leaving => account[p].status = "SUSPENDED"

RolesInv == RolesTypeOK /\ TargetIsHeld /\ LeaversAreSuspended /\ TrailTellsRole

(* A row is not NoRow, and keeps its other columns when one is written. *)
LEMMA RowFacts ==
  /\ \A w \in Row : w # NoRow
  /\ \A w \in Row, r \in Role :
       /\ [w EXCEPT !.role = r] \in Row /\ [w EXCEPT !.role = r].role = r
       /\ [w EXCEPT !.role = r].status = w.status /\ [w EXCEPT !.role = r].leaving = w.leaving
  /\ \A w \in Row, s \in Status :
       /\ [w EXCEPT !.status = s] \in Row /\ [w EXCEPT !.status = s].status = s
       /\ [w EXCEPT !.status = s].role = w.role /\ [w EXCEPT !.status = s].leaving = w.leaving
  /\ NewRow \in Row /\ NewRow.role = "USER" /\ NewRow.status = "ACTIVE" /\ ~NewRow.leaving
BY DEF Row, NoRow, NewRow, Role, Status

(* One account changes: what is left to show. *)
LEMMA AccountChanges ==
  ASSUME RolesInv, NEW p \in People, NEW w \in Row \cup {NoRow},
         account' = [account EXCEPT ![p] = w],
         UNCHANGED demotion,
         demotion # Idle /\ demotion.target = p => w # NoRow /\ w.role = "SUPERADMIN",
         w # NoRow /\ w.leaving => w.status = "SUSPENDED"
  PROVE  /\ account' \in [People -> Row \cup {NoRow}]
         /\ account'[p] = w /\ \A q \in People : q # p => account'[q] = account[q]
         /\ TargetIsHeld' /\ LeaversAreSuspended'
<1>1. /\ account' \in [People -> Row \cup {NoRow}]
      /\ account'[p] = w /\ \A q \in People : q # p => account'[q] = account[q]
  BY DEF RolesInv, RolesTypeOK
<1>2. LeaversAreSuspended'
  BY <1>1 DEF RolesInv, LeaversAreSuspended, Exists
<1>3. TargetIsHeld'
  <2> SUFFICES ASSUME demotion # Idle PROVE Superadmin(demotion.target)'
    BY DEF TargetIsHeld
  <2>1. demotion.target \in People /\ Superadmin(demotion.target)
    BY DEF RolesInv, RolesTypeOK, TargetIsHeld
  <2> QED BY <1>1, <2>1 DEF Superadmin, Exists
<1> QED BY <1>1, <1>2, <1>3

(* ... and of the trail, when the entry fits the role. *)
LEMMA TrailKeepsUp ==
  ASSUME RolesInv, NEW p \in People, NEW w \in Row \cup {NoRow}, NEW e,
         account'[p] = w, \A q \in People : q # p => account'[q] = account[q],
         trail'[p] = e, \A q \in People : q # p => trail'[q] = trail[q],
         \A q \in People : q # p => (q \in reinstated' <=> q \in reinstated),
         w # NoRow /\ p \notin reinstated' => (w.role = "SUPERADMIN" <=> e = "PROMOTE")
  PROVE  TrailTellsRole'
<1> SUFFICES ASSUME NEW q \in People, Exists(q)', q \notin reinstated'
             PROVE  Superadmin(q)' <=> trail'[q] = "PROMOTE"
  BY DEF TrailTellsRole
<1>1. CASE q = p
  BY <1>1 DEF Exists, Superadmin
<1>2. CASE q # p
  BY <1>2 DEF RolesInv, TrailTellsRole, Exists, Superadmin
<1> QED BY <1>1, <1>2

LEMMA RegisterUserInv ==
  ASSUME RolesInv, NEW p \in People, RegisterUser(p)
  PROVE  RolesInv'
<1>1. /\ account[p] = NoRow /\ account' = [account EXCEPT ![p] = NewRow]
      /\ trail' = [trail EXCEPT ![p] = "none"] /\ reinstated' = reinstated \ {p}
      /\ UNCHANGED <<desk, demotion, setup>>
  BY DEF RegisterUser, Exists
<1>2. ~(demotion # Idle /\ demotion.target = p)
  BY <1>1 DEF RolesInv, TargetIsHeld, Superadmin, Exists
<1>3. /\ account' \in [People -> Row \cup {NoRow}] /\ account'[p] = NewRow
      /\ \A q \in People : q # p => account'[q] = account[q]
      /\ TargetIsHeld' /\ LeaversAreSuspended'
  BY <1>1, <1>2, RowFacts, AccountChanges
<1>4. /\ trail' \in [People -> {"none", "PROMOTE", "DEMOTE"}]
      /\ trail'[p] = "none" /\ \A q \in People : q # p => trail'[q] = trail[q]
  BY <1>1 DEF RolesInv, RolesTypeOK
<1>5. TrailTellsRole'
  BY <1>1, <1>3, <1>4, RowFacts, TrailKeepsUp
<1>6. RolesTypeOK'
  BY <1>1, <1>3, <1>4 DEF RolesInv, RolesTypeOK
<1> QED BY <1>3, <1>5, <1>6 DEF RolesInv

LEMMA PromoteInv ==
  ASSUME RolesInv, NEW a, NEW p \in People, Promote(a, p)
  PROVE  RolesInv'
<1> DEFINE w == [account[p] EXCEPT !.role = "SUPERADMIN"]
<1>1. /\ account[p] # NoRow /\ account' = [account EXCEPT ![p] = w]
      /\ trail' = [trail EXCEPT ![p] = "PROMOTE"]
      /\ UNCHANGED <<desk, demotion, setup, reinstated>> /\ demotion = Idle
  BY DEF Promote, Exists, Recorded, RolesUnlocked
<1>2. account[p] \in Row
  BY <1>1 DEF RolesInv, RolesTypeOK
<1>3. /\ w \in Row /\ w.role = "SUPERADMIN" /\ w.status = account[p].status
      /\ w.leaving = account[p].leaving
  BY <1>2, RowFacts DEF Role
<1>4. w.leaving => w.status = "SUSPENDED"
  BY <1>1, <1>3 DEF RolesInv, LeaversAreSuspended, Exists
<1> HIDE DEF w
<1>5. /\ account' \in [People -> Row \cup {NoRow}] /\ account'[p] = w
      /\ \A q \in People : q # p => account'[q] = account[q]
      /\ TargetIsHeld' /\ LeaversAreSuspended'
  BY <1>1, <1>3, <1>4, AccountChanges
<1>6. /\ trail' \in [People -> {"none", "PROMOTE", "DEMOTE"}]
      /\ trail'[p] = "PROMOTE" /\ \A q \in People : q # p => trail'[q] = trail[q]
  BY <1>1 DEF RolesInv, RolesTypeOK
<1>7. TrailTellsRole'
  BY <1>1, <1>3, <1>5, <1>6, TrailKeepsUp
<1>8. RolesTypeOK'
  BY <1>1, <1>5, <1>6 DEF RolesInv, RolesTypeOK
<1> QED BY <1>5, <1>7, <1>8 DEF RolesInv

LEMMA DemoteChecksActorInv ==
  ASSUME RolesInv, NEW a \in People, NEW p \in People, DemoteChecksActor(a, p)
  PROVE  RolesInv'
<1>1. demotion' = [target |-> p, by |-> a] /\ Superadmin(p)
      /\ UNCHANGED <<account, trail, desk, setup, reinstated>>
  BY DEF DemoteChecksActor
<1>2. RolesTypeOK'
  BY <1>1 DEF RolesInv, RolesTypeOK
<1>3. TargetIsHeld'
  BY <1>1 DEF TargetIsHeld, Superadmin, Exists
<1>4. LeaversAreSuspended' /\ TrailTellsRole'
  BY <1>1 DEF RolesInv, LeaversAreSuspended, TrailTellsRole, Superadmin, Exists
<1> QED BY <1>2, <1>3, <1>4 DEF RolesInv

LEMMA DemoteCommitsInv ==
  ASSUME RolesInv, DemoteCommits
  PROVE  RolesInv'
<1> DEFINE p == demotion.target
           w == [account[p] EXCEPT !.role = "USER"]
<1>1. /\ p \in People /\ account[p] # NoRow /\ account[p] \in Row
      /\ demotion' = Idle /\ UNCHANGED <<desk, setup, reinstated>>
  BY DEF RolesInv, RolesTypeOK, TargetIsHeld, DemoteCommits, RolesUnlocked, Superadmin, Exists
<1>2. TargetIsHeld'
  BY <1>1 DEF TargetIsHeld
<1>3. CASE UNCHANGED <<account, trail>>
  <2>1. RolesTypeOK'
    BY <1>1, <1>3 DEF RolesInv, RolesTypeOK
  <2>2. LeaversAreSuspended' /\ TrailTellsRole'
    BY <1>1, <1>3 DEF RolesInv, LeaversAreSuspended, TrailTellsRole, Superadmin, Exists
  <2> QED BY <1>2, <2>1, <2>2 DEF RolesInv
<1>4. CASE account' = [account EXCEPT ![p] = w] /\ trail' = [trail EXCEPT ![p] = "DEMOTE"]
  <2>1. /\ w \in Row /\ w.role = "USER" /\ w.status = account[p].status
        /\ w.leaving = account[p].leaving
    BY <1>1, RowFacts DEF Role
  <2>2. w.leaving => w.status = "SUSPENDED"
    BY <1>1, <2>1 DEF RolesInv, LeaversAreSuspended, Exists
  <2> HIDE DEF w
  <2>3. /\ account' \in [People -> Row \cup {NoRow}] /\ account'[p] = w
        /\ \A q \in People : q # p => account'[q] = account[q]
    BY <1>1, <1>4, <2>1 DEF RolesInv, RolesTypeOK
  <2>4. LeaversAreSuspended'
    BY <2>2, <2>3 DEF RolesInv, LeaversAreSuspended, Exists
  <2>5. /\ trail' \in [People -> {"none", "PROMOTE", "DEMOTE"}]
        /\ trail'[p] = "DEMOTE" /\ \A q \in People : q # p => trail'[q] = trail[q]
    BY <1>1, <1>4 DEF RolesInv, RolesTypeOK
  <2>6. TrailTellsRole'
    BY <1>1, <2>1, <2>3, <2>5, TrailKeepsUp
  <2>7. RolesTypeOK'
    BY <1>1, <2>3, <2>5 DEF RolesInv, RolesTypeOK
  <2> QED BY <1>2, <2>4, <2>6, <2>7 DEF RolesInv
<1> QED BY <1>3, <1>4 DEF DemoteCommits, Recorded

LEMMA SetupReadsInv ==
  ASSUME RolesInv, SetupReads
  PROVE  RolesInv'
<1>1. UNCHANGED <<account, trail, desk, demotion, reinstated>>
  BY DEF SetupReads
<1>2. setup' \in {"idle", "absent"} \cup Role
  <2>1. Exists(Founder) => account[Founder].role \in Role
    BY PeopleAssumption DEF RolesInv, RolesTypeOK, Row, Exists
  <2> QED BY <2>1 DEF SetupReads, Active
<1>3. RolesTypeOK'
  BY <1>1, <1>2 DEF RolesInv, RolesTypeOK
<1>4. TargetIsHeld' /\ LeaversAreSuspended' /\ TrailTellsRole'
  BY <1>1 DEF RolesInv, TargetIsHeld, LeaversAreSuspended, TrailTellsRole, Superadmin, Exists
<1> QED BY <1>3, <1>4 DEF RolesInv

LEMMA SetupPromotesInv ==
  ASSUME RolesInv, NEW reset \in BOOLEAN, SetupPromotes(reset)
  PROVE  RolesInv'
<1> DEFINE p == Founder
           w == [account[p] EXCEPT !.role = "SUPERADMIN"]
<1>0. p \in People /\ setup' = "idle" /\ UNCHANGED <<desk, demotion>> /\ setup \in Role
  BY PeopleAssumption DEF SetupPromotes
<1>1. CASE ~Exists(p)
  <2>1. UNCHANGED <<account, trail, reinstated>>
    BY <1>1 DEF SetupPromotes
  <2>2. RolesTypeOK'
    BY <1>0, <2>1 DEF RolesInv, RolesTypeOK
  <2>3. TargetIsHeld' /\ LeaversAreSuspended' /\ TrailTellsRole'
    BY <1>0, <2>1
       DEF RolesInv, TargetIsHeld, LeaversAreSuspended, TrailTellsRole, Superadmin, Exists
  <2> QED BY <2>2, <2>3 DEF RolesInv
<1>2. CASE Exists(p)
  <2>1. /\ account[p] # NoRow /\ account[p] \in Row /\ account' = [account EXCEPT ![p] = w]
    BY <1>0, <1>2 DEF RolesInv, RolesTypeOK, SetupPromotes, Exists
  <2>2. /\ w \in Row /\ w.role = "SUPERADMIN" /\ w.status = account[p].status
        /\ w.leaving = account[p].leaving
    BY <2>1, RowFacts DEF Role
  <2>3. w.leaving => w.status = "SUSPENDED"
    BY <1>0, <2>1, <2>2 DEF RolesInv, LeaversAreSuspended, Exists
  <2> HIDE DEF w
  <2>4. /\ account' \in [People -> Row \cup {NoRow}] /\ account'[p] = w
        /\ \A q \in People : q # p => account'[q] = account[q]
        /\ TargetIsHeld' /\ LeaversAreSuspended'
    BY <1>0, <2>1, <2>2, <2>3, RowFacts, AccountChanges
  <2>5. /\ reinstated' \in {reinstated, reinstated \cup {p}}
        /\ trail' \in {trail, [trail EXCEPT ![p] = "PROMOTE"]}
    BY <1>2 DEF SetupPromotes, Recorded
  <2>6. trail' \in [People -> {"none", "PROMOTE", "DEMOTE"}] /\ reinstated' \subseteq People
    BY <1>0, <2>5 DEF RolesInv, RolesTypeOK
  <2>7. /\ \A q \in People : q # p => trail'[q] = trail[q]
        /\ \A q \in People : q # p => (q \in reinstated' <=> q \in reinstated)
    BY <1>0, <2>5 DEF RolesInv, RolesTypeOK
  <2>8. p \notin reinstated' => trail'[p] = "PROMOTE"
    <3>1. CASE SetupRecords(reset)
      <4>1. trail' = [trail EXCEPT ![p] = "PROMOTE"]
        BY <1>2, <3>1 DEF SetupPromotes, Recorded
      <4> QED BY <1>0, <4>1 DEF RolesInv, RolesTypeOK
    <3>2. CASE ~SetupRecords(reset)
      <4>1. /\ trail' = trail /\ setup = "SUPERADMIN" /\ ~reset
            /\ reinstated' = IF ~Superadmin(p) THEN reinstated \cup {p} ELSE reinstated
        BY <1>2, <3>2 DEF SetupPromotes, SetupRecords
      <4> QED BY <1>0, <1>2, <4>1 DEF RolesInv, TrailTellsRole
    <3> QED BY <3>1, <3>2
  <2>9. TrailTellsRole'
    BY <1>0, <2>2, <2>4, <2>7, <2>8, TrailKeepsUp
  <2>10. RolesTypeOK'
    BY <1>0, <2>4, <2>6 DEF RolesInv, RolesTypeOK
  <2> QED BY <2>4, <2>9, <2>10 DEF RolesInv
<1> QED BY <1>1, <1>2

LEMMA SetupCreatesInv ==
  ASSUME RolesInv, SetupCreates
  PROVE  RolesInv'
<1> DEFINE p == Founder
           w == [NewRow EXCEPT !.role = "SUPERADMIN"]
<1>0. p \in People /\ setup' = "idle" /\ UNCHANGED <<desk, demotion>>
  BY PeopleAssumption DEF SetupCreates
<1>1. CASE Exists(p)
  <2>1. UNCHANGED <<account, trail, reinstated>>
    BY <1>1 DEF SetupCreates
  <2>2. RolesTypeOK'
    BY <1>0, <2>1 DEF RolesInv, RolesTypeOK
  <2>3. TargetIsHeld' /\ LeaversAreSuspended' /\ TrailTellsRole'
    BY <1>0, <2>1
       DEF RolesInv, TargetIsHeld, LeaversAreSuspended, TrailTellsRole, Superadmin, Exists
  <2> QED BY <2>2, <2>3 DEF RolesInv
<1>2. CASE ~Exists(p)
  <2>1. /\ account' = [account EXCEPT ![p] = w] /\ trail' = [trail EXCEPT ![p] = "PROMOTE"]
        /\ reinstated' = reinstated \ {p}
    BY <1>2 DEF SetupCreates, Recorded
  <2>2. w \in Row /\ w.role = "SUPERADMIN" /\ w.status = "ACTIVE" /\ ~w.leaving
    BY RowFacts DEF Role
  <2> HIDE DEF w
  <2>3. ~(demotion # Idle /\ demotion.target = p)
    BY <1>2 DEF RolesInv, TargetIsHeld, Superadmin
  <2>4. /\ account' \in [People -> Row \cup {NoRow}] /\ account'[p] = w
        /\ \A q \in People : q # p => account'[q] = account[q]
        /\ TargetIsHeld' /\ LeaversAreSuspended'
    BY <1>0, <2>1, <2>2, <2>3, AccountChanges
  <2>5. /\ trail' \in [People -> {"none", "PROMOTE", "DEMOTE"}]
        /\ trail'[p] = "PROMOTE" /\ \A q \in People : q # p => trail'[q] = trail[q]
    BY <1>0, <2>1 DEF RolesInv, RolesTypeOK
  <2>6. TrailTellsRole'
    BY <1>0, <2>1, <2>2, <2>4, <2>5, TrailKeepsUp
  <2>7. RolesTypeOK'
    BY <1>0, <2>1, <2>4, <2>5 DEF RolesInv, RolesTypeOK
  <2> QED BY <2>4, <2>6, <2>7 DEF RolesInv
<1> QED BY <1>1, <1>2

(* The desk and the portal write the status of an account, never its role. *)
LEMMA StatusChanges ==
  ASSUME RolesInv, NEW q \in People, Exists(q), NEW w \in Row,
         account' = [account EXCEPT ![q] = w], w.role = account[q].role,
         w.leaving => w.status = "SUSPENDED",
         desk' \subseteq desk, UNCHANGED <<trail, demotion, setup, reinstated>>
  PROVE  RolesInv'
<1>1. demotion # Idle /\ demotion.target = q => w.role = "SUPERADMIN"
  BY DEF RolesInv, TargetIsHeld, Superadmin
<1>2. /\ account' \in [People -> Row \cup {NoRow}] /\ account'[q] = w
      /\ \A u \in People : u # q => account'[u] = account[u]
      /\ TargetIsHeld' /\ LeaversAreSuspended'
  BY <1>1, RowFacts, AccountChanges
<1>3. q \notin reinstated => (w.role = "SUPERADMIN" <=> trail[q] = "PROMOTE")
  BY DEF RolesInv, TrailTellsRole, Superadmin
<1>4. TrailTellsRole'
  BY <1>2, <1>3, TrailKeepsUp
<1>5. RolesTypeOK'
  BY <1>2 DEF RolesInv, RolesTypeOK
<1> QED BY <1>2, <1>4, <1>5 DEF RolesInv

LEMMA RolesStay ==
  ASSUME RolesInv, UNCHANGED <<account, trail, demotion, setup, reinstated>>,
         desk' \subseteq DeskRequest
  PROVE  RolesInv'
<1>1. RolesTypeOK'
  BY DEF RolesInv, RolesTypeOK
<1>2. TargetIsHeld' /\ LeaversAreSuspended' /\ TrailTellsRole'
  BY DEF RolesInv, TargetIsHeld, LeaversAreSuspended, TrailTellsRole, Superadmin, Exists
<1> QED BY <1>1, <1>2 DEF RolesInv

LEMMA AuthenticateInv ==
  ASSUME RolesInv, NEW op \in {"suspend", "restore", "delete"}, NEW p \in People,
         NEW q \in People, Authenticate(op, p, q)
  PROVE  RolesInv'
<1>1. desk' \subseteq DeskRequest
  BY DEF RolesInv, RolesTypeOK, Authenticate, DeskRequest
<1> QED BY <1>1, RolesStay DEF Authenticate

LEMMA SuperadminGuardInv ==
  ASSUME RolesInv, NEW r \in desk, SuperadminGuard(r)
  PROVE  RolesInv'
<1>1. r \in DeskRequest /\ desk \subseteq DeskRequest
  BY DEF RolesInv, RolesTypeOK
<1>2. [r EXCEPT !.guard = "admin"] \in DeskRequest
  BY <1>1 DEF DeskRequest
<1>3. desk' \subseteq DeskRequest
  BY <1>1, <1>2 DEF SuperadminGuard
<1> QED BY <1>3, RolesStay DEF SuperadminGuard

LEMMA DeskWriteInv ==
  ASSUME RolesInv, NEW r \in desk, SuspendAccount(r) \/ RestoreAccount(r) \/ DeleteAccount(r)
  PROVE  RolesInv'
<1> DEFINE q == r.of
<1>1. q \in People /\ r \in DeskRequest /\ desk \subseteq DeskRequest
  BY DEF RolesInv, RolesTypeOK, DeskRequest
<1>2. desk' = desk \ {r} /\ UNCHANGED <<trail, demotion, setup, reinstated>>
  BY DEF SuspendAccount, RestoreAccount, DeleteAccount
<1>3. CASE UNCHANGED account
  BY <1>1, <1>2, <1>3, RolesStay
<1>4. ASSUME Exists(q) PROVE account[q] \in Row /\ account[q] # NoRow
  BY <1>1, <1>4 DEF RolesInv, RolesTypeOK, Exists
<1>5. CASE Exists(q) /\ account' = [account EXCEPT ![q].status = "SUSPENDED"]
  <2> DEFINE w == [account[q] EXCEPT !.status = "SUSPENDED"]
  <2>1. w \in Row /\ w.role = account[q].role /\ w.status = "SUSPENDED"
    BY <1>4, <1>5, RowFacts DEF Status
  <2>2. account' = [account EXCEPT ![q] = w]
    BY <1>5
  <2> HIDE DEF w
  <2> QED BY <1>1, <1>2, <1>5, <2>1, <2>2, StatusChanges
<1>6. CASE Exists(q) /\ NotLeaving(q) /\ account' = [account EXCEPT ![q].status = "ACTIVE"]
  <2> DEFINE w == [account[q] EXCEPT !.status = "ACTIVE"]
  <2>1. w \in Row /\ w.role = account[q].role /\ ~w.leaving
    BY <1>4, <1>6, RowFacts DEF Status, NotLeaving
  <2>2. account' = [account EXCEPT ![q] = w]
    BY <1>6
  <2> HIDE DEF w
  <2> QED BY <1>1, <1>2, <1>6, <2>1, <2>2, StatusChanges
<1>7. CASE /\ Exists(q) /\ ~Superadmin(q)
           /\ account' = [account EXCEPT ![q].status = "SUSPENDED", ![q].leaving = TRUE]
  <2> DEFINE w == [account[q] EXCEPT !.status = "SUSPENDED", !.leaving = TRUE]
  <2>1. w \in Row /\ w.role = account[q].role /\ w.status = "SUSPENDED"
    BY <1>4, <1>7 DEF Row, Status
  <2>2. account' = [account EXCEPT ![q] = w]
    BY <1>4, <1>7, <1>1 DEF RolesInv, RolesTypeOK
  <2> HIDE DEF w
  <2> QED BY <1>1, <1>2, <1>7, <2>1, <2>2, StatusChanges
<1> QED BY <1>3, <1>5, <1>6, <1>7 DEF SuspendAccount, RestoreAccount, DeleteAccount

LEMMA FinalizeDeletionInv ==
  ASSUME RolesInv, NEW p \in People, FinalizeDeletion(p)
  PROVE  RolesInv'
<1>1. /\ account' = [account EXCEPT ![p] = NoRow] /\ demotion.target # p
      /\ UNCHANGED <<trail, desk, demotion, setup, reinstated>>
  BY DEF FinalizeDeletion
<1>2. /\ account' \in [People -> Row \cup {NoRow}] /\ account'[p] = NoRow
      /\ \A q \in People : q # p => account'[q] = account[q]
      /\ TargetIsHeld' /\ LeaversAreSuspended'
  BY <1>1, AccountChanges
<1>3. TrailTellsRole'
  BY <1>1, <1>2, TrailKeepsUp
<1>4. RolesTypeOK'
  BY <1>1, <1>2 DEF RolesInv, RolesTypeOK
<1> QED BY <1>2, <1>3, <1>4 DEF RolesInv

LEMMA RolesInitInv ==
  ASSUME RolesInit
  PROVE  RolesInv
<1>1. RolesTypeOK
  BY DEF RolesInit, RolesTypeOK
<1> QED BY <1>1 DEF RolesInit, RolesInv, TargetIsHeld, LeaversAreSuspended, TrailTellsRole, Exists

LEMMA RolesStepInv == RolesInv /\ [RolesNext]_rolesVars => RolesInv'
<1> SUFFICES ASSUME RolesInv, [RolesNext]_rolesVars PROVE RolesInv'
  OBVIOUS
<1>1. CASE \E p \in People : RegisterUser(p) \/ FinalizeDeletion(p)
  BY <1>1, RegisterUserInv, FinalizeDeletionInv, Zenon
<1>2. CASE RoleCli
  BY <1>2, PromoteInv, DemoteChecksActorInv, Zenon DEF RoleCli
<1>3. CASE DemoteCommits \/ SetupReads \/ SetupCreates
  BY <1>3, DemoteCommitsInv, SetupReadsInv, SetupCreatesInv, Zenon
<1>4. CASE \E reset \in BOOLEAN : SetupPromotes(reset)
  BY <1>4, SetupPromotesInv, Zenon
<1>5. CASE \E op \in {"suspend", "restore", "delete"}, p, q \in People : Authenticate(op, p, q)
  BY <1>5, AuthenticateInv, Zenon
<1>6. CASE \E r \in desk : \/ SuperadminGuard(r) \/ SuspendAccount(r)
                           \/ RestoreAccount(r) \/ DeleteAccount(r)
  BY <1>6, SuperadminGuardInv, DeskWriteInv, Zenon
<1>7. CASE UNCHANGED rolesVars
  <2>1. desk' \subseteq DeskRequest
    BY <1>7 DEF rolesVars, RolesInv, RolesTypeOK
  <2> QED BY <1>7, <2>1, RolesStay DEF rolesVars
<1> QED BY <1>1, <1>2, <1>3, <1>4, <1>5, <1>6, <1>7, Zenon DEF RolesNext

(***************************************************************************)
(* The roles keep their inductive invariant.                               *)
(***************************************************************************)
THEOREM RolesInvariance == RolesSpec => []RolesInv
<1>1. RolesInit => RolesInv
  BY RolesInitInv
<1> QED BY <1>1, RolesStepInv, PTL DEF RolesSpec

(***************************************************************************)
(* For any number of accounts, and whatever runs between the reads and the *)
(* writes of the CLIs, the audit trail tells who is a Superadmin, except   *)
(* of an account the setup CLI reinstated without an entry.                *)
(***************************************************************************)
THEOREM TrailsTellRoles == RolesSpec => []TrailTellsRole
<1>1. RolesInv => TrailTellsRole
  BY DEF RolesInv
<1> QED BY <1>1, RolesInvariance, PTL

(* An account keeps its part among the active Superadmins, and is no       *)
(* exception of the step, when its role and status stay.                   *)
LEMMA AdminsStay ==
  ASSUME ActiveAdmins # {}, ActiveAdmins' = {}, NEW q,
         \A u \in People : u # q => account'[u] = account[u]
  PROVE  ActiveAdmins = {q} /\ q \in People
BY DEF ActiveAdmins, Superadmin, Active, Exists

LEMMA LastAdminStep ==
  ASSUME RolesInv, RolesNext, ActiveAdmins # {}, ActiveAdmins' = {}
  PROVE  OrderedByFormerAdmin
<1>0. /\ account \in [People -> Row \cup {NoRow}] /\ desk \subseteq DeskRequest
      /\ \A w \in Row : w # NoRow
  BY RowFacts DEF RolesInv, RolesTypeOK
<1>1. ASSUME UNCHANGED account PROVE FALSE
  BY <1>1 DEF ActiveAdmins, Superadmin, Active, Exists
<1>2. ASSUME NEW q, ActiveAdmins = {q}, q \in People,
             account'[q] \in Row, account'[q].role = "SUPERADMIN",
             account'[q].status = "ACTIVE"
      PROVE  FALSE
  BY <1>0, <1>2 DEF ActiveAdmins, Superadmin, Active, Exists
<1>3. ASSUME NEW q, ActiveAdmins = {q}
      PROVE  /\ q \in People /\ account[q] \in Row /\ account[q].role = "SUPERADMIN"
             /\ account[q].status = "ACTIVE" /\ ~account[q].leaving /\ Superadmin(q) /\ Active(q)
  <2>1. q \in ActiveAdmins
    BY <1>3
  <2>2. /\ q \in People /\ account[q] \in Row /\ account[q].role = "SUPERADMIN"
        /\ account[q].status = "ACTIVE" /\ Exists(q) /\ Superadmin(q) /\ Active(q)
    BY <1>0, <2>1 DEF ActiveAdmins, Superadmin, Active, Exists
  <2>3. account[q].leaving \in BOOLEAN
    BY <2>2 DEF Row
  <2> QED BY <2>2, <2>3 DEF RolesInv, LeaversAreSuspended
<1>4. ASSUME NEW p \in People, RegisterUser(p) \/ FinalizeDeletion(p)
      PROVE  OrderedByFormerAdmin
  <2>1. \A u \in People : u # p => account'[u] = account[u]
    BY <1>0, <1>4 DEF RegisterUser, FinalizeDeletion
  <2>2. ActiveAdmins = {p}
    BY <2>1, AdminsStay
  <2> QED BY <1>3, <1>4, <2>2 DEF RegisterUser, FinalizeDeletion, Active
<1>5. ASSUME NEW a, NEW p \in People, Promote(a, p)
      PROVE  OrderedByFormerAdmin
  <2>1. \A u \in People : u # p => account'[u] = account[u]
    BY <1>0, <1>5 DEF Promote
  <2>2. ActiveAdmins = {p}
    BY <2>1, AdminsStay
  <2> QED BY <1>3, <1>5, <2>2 DEF Promote
<1>6. ASSUME DemoteCommits PROVE OrderedByFormerAdmin
  <2> DEFINE p == demotion.target
  <2>1. p \in People /\ ~UNCHANGED account
    BY <1>1, <1>6 DEF RolesInv, RolesTypeOK, DemoteCommits, RolesUnlocked
  <2>2. NotLastSuperadmin(p) /\ account' = [account EXCEPT ![p].role = "USER"]
    BY <1>6, <2>1 DEF DemoteCommits
  <2>3. \A u \in People : u # p => account'[u] = account[u]
    BY <1>0, <2>2
  <2>4. ActiveAdmins = {p}
    BY <2>3, AdminsStay
  <2>5. Cardinality(ActiveAdmins) = 1
    BY <2>4, FS_Singleton
  <2> QED BY <1>3, <2>2, <2>4, <2>5 DEF NotLastSuperadmin
<1>7. ASSUME NEW reset \in BOOLEAN, SetupPromotes(reset) PROVE OrderedByFormerAdmin
  <2>1. Founder \in People /\ Exists(Founder)
        /\ account' = [account EXCEPT ![Founder].role = "SUPERADMIN"]
    BY <1>1, <1>7, PeopleAssumption DEF SetupPromotes
  <2>2. \A u \in People : u # Founder => account'[u] = account[u]
    BY <1>0, <2>1
  <2>3. ActiveAdmins = {Founder}
    BY <2>2, AdminsStay
  <2>4. account[Founder] \in Row /\ account[Founder].status = "ACTIVE"
    BY <1>3, <2>3
  <2>5. account'[Founder] = [account[Founder] EXCEPT !.role = "SUPERADMIN"]
    BY <1>0, <2>1
  <2>6. /\ account'[Founder] \in Row /\ account'[Founder].role = "SUPERADMIN"
        /\ account'[Founder].status = "ACTIVE"
    BY <2>4, <2>5 DEF Row, Role, Status
  <2> QED BY <1>2, <2>1, <2>3, <2>6
<1>8. ASSUME SetupCreates PROVE OrderedByFormerAdmin
  <2>1. Founder \in People /\ ~Exists(Founder)
        /\ account' = [account EXCEPT ![Founder] = [NewRow EXCEPT !.role = "SUPERADMIN"]]
    BY <1>1, <1>8, PeopleAssumption DEF SetupCreates
  <2>2. \A u \in People : u # Founder => account'[u] = account[u]
    BY <1>0, <2>1
  <2>3. ActiveAdmins = {Founder}
    BY <2>2, AdminsStay
  <2> QED BY <1>3, <2>1, <2>3 DEF Active
<1>9. ASSUME NEW r \in desk, SuspendAccount(r) \/ RestoreAccount(r) \/ DeleteAccount(r)
      PROVE  OrderedByFormerAdmin
  <2> DEFINE q == r.of
  <2>0. q \in People /\ r \in DeskRequest
    BY <1>0 DEF DeskRequest
  <2>1. \A u \in People : u # q => account'[u] = account[u]
    BY <1>0, <1>9 DEF SuspendAccount, RestoreAccount, DeleteAccount
  <2>2. ActiveAdmins = {q}
    BY <2>1, AdminsStay
  <2>3. CASE SuspendAccount(r)
    <3>1. r.by # q
      BY <1>1, <2>3 DEF SuspendAccount, NotSelf
    <3>2. r.by \notin ActiveAdmins
      BY <2>2, <3>1
    <3> QED BY <2>3, <3>2 DEF SuspendAccount, OrderedByFormerAdmin
  <2>4. CASE RestoreAccount(r)
    <3>1. account' = [account EXCEPT ![q].status = "ACTIVE"]
      BY <1>1, <2>4 DEF RestoreAccount
    <3>2. account[q] \in Row /\ account[q].role = "SUPERADMIN"
      BY <1>3, <2>2
    <3>3. account'[q] = [account[q] EXCEPT !.status = "ACTIVE"]
      BY <1>0, <2>0, <3>1
    <3>4. /\ account'[q] \in Row /\ account'[q].role = "SUPERADMIN"
          /\ account'[q].status = "ACTIVE"
      BY <3>2, <3>3 DEF Row, Role, Status
    <3> QED BY <1>2, <2>0, <2>2, <3>4
  <2>5. CASE DeleteAccount(r)
    BY <1>1, <1>3, <2>2, <2>5 DEF DeleteAccount
  <2> QED BY <1>9, <2>3, <2>4, <2>5
<1>10. ASSUME \/ \E a, p \in People : DemoteChecksActor(a, p)
              \/ SetupReads
              \/ \E op \in {"suspend", "restore", "delete"}, p, q \in People :
                   Authenticate(op, p, q)
              \/ \E r \in desk : SuperadminGuard(r)
       PROVE  OrderedByFormerAdmin
  BY <1>1, <1>10 DEF DemoteChecksActor, SetupReads, Authenticate, SuperadminGuard
<1> QED BY <1>4, <1>5, <1>6, <1>7, <1>8, <1>9, <1>10, Zenon DEF RolesNext, RoleCli

(***************************************************************************)
(* For any number of accounts the last active Superadmin falls only to a   *)
(* suspension ordered by somebody who no longer is one: the count of       *)
(* demote, NotSelf and the guards of the deletion leave no other way.      *)
(***************************************************************************)
THEOREM LastAdminsFallToStaleOrders == RolesSpec => LastAdminFallsOnlyToStale
<1>1. RolesInv /\ [RolesNext]_rolesVars =>
        [(ActiveAdmins # {} /\ ActiveAdmins' = {}) => OrderedByFormerAdmin]_rolesVars
  BY LastAdminStep
<1> QED BY <1>1, RolesInvariance, RolesStepInv, PTL DEF RolesSpec, LastAdminFallsOnlyToStale

-----------------------------------------------------------------------------
(* SharedTopics: the topics of a host take turns.                           *)

(* What has been on offer ever since a topic's use was used before it. *)
OverlookedWait ==
  \A t, u \in Topics : u \in overlooked[t] =>
    OnOffer(u) /\ topic[u].lastUsedAt < topic[t].lastUsedAt

UsesArePast ==
  \A t \in Topics : /\ topic[t].lastUsedAt <= topicTime
                    /\ topic[t].state = "absent" => topic[t].lastUsedAt = 0

(* No topic is overlooked for the one an invitation is about to use. *)
SelectedIsNext ==
  \A t \in Topics : selecting = t => OwnedTopic(t) /\ overlooked[t] = {}

TopicsInv == TopicTypeOK /\ OverlookedWait /\ UsesArePast /\ SelectedIsNext

LEMMA TopicsInitInv == TopicInit => TopicsInv
<1> SUFFICES ASSUME TopicInit PROVE TopicsInv
  OBVIOUS
<1>1. Absent \in TopicRow /\ Absent.lastUsedAt = 0
  BY TopicAssumption DEF Absent, TopicRow, Expiry
<1>2. TopicTypeOK
  <2>1. topic \in [Topics -> TopicRow]
    BY <1>1 DEF TopicInit
  <2>2. overlooked \in [Topics -> SUBSET Topics] /\ topicTime \in 0..MaxTopicTime
    BY TopicAssumption DEF TopicInit
  <2> QED BY <2>1, <2>2 DEF TopicInit, TopicTypeOK
<1> QED BY <1>1, <1>2, TopicAssumption
        DEF TopicInit, TopicsInv, OverlookedWait, UsesArePast, SelectedIsNext

(* A row of the topic t is written that keeps lastUsedAt. *)
LEMMA RewriteInv ==
  ASSUME TopicsInv, NEW t \in Topics, NEW row \in TopicRow,
         topic' = [topic EXCEPT ![t] = row],
         row.lastUsedAt = topic[t].lastUsedAt,
         row.state = "absent" => topic[t].state = "absent",
         topicTime' \in 0..MaxTopicTime, topicTime <= topicTime',
         NEW gone, overlooked' = StillOverlooked(gone),
         ~OnOffer(t)' /\ OnOffer(t) => t \in gone,
         randomOn' \in BOOLEAN, policy' = policy, selecting' = selecting
  PROVE  TopicsInv'
<1>1. /\ topic' \in [Topics -> TopicRow] /\ topic'[t] = row
      /\ \A u \in Topics : u # t => topic'[u] = topic[u]
  BY DEF TopicsInv, TopicTypeOK
<1>2. \A u \in Topics : /\ topic[u].lastUsedAt \in Nat /\ topic'[u].lastUsedAt = topic[u].lastUsedAt
                        /\ topic[u].lastUsedAt <= topicTime
  BY <1>1, TopicAssumption DEF TopicsInv, TopicTypeOK, TopicRow, UsesArePast
<1>3. \A u \in Topics : overlooked'[u] = overlooked[u] \ gone
  BY DEF StillOverlooked
<1>4. TopicTypeOK'
  <2>1. overlooked' \in [Topics -> SUBSET Topics]
    BY DEF StillOverlooked, TopicsInv, TopicTypeOK
  <2> QED BY <1>1, <2>1 DEF TopicsInv, TopicTypeOK
<1>5. OverlookedWait'
  <2> SUFFICES ASSUME NEW v \in Topics, NEW u \in Topics, u \in overlooked'[v]
               PROVE  OnOffer(u)' /\ topic'[u].lastUsedAt < topic'[v].lastUsedAt
    BY DEF OverlookedWait
  <2>1. u \in overlooked[v] /\ u \notin gone
    BY <1>3
  <2>2. OnOffer(u) /\ topic[u].lastUsedAt < topic[v].lastUsedAt
    BY <2>1 DEF TopicsInv, OverlookedWait
  <2>3. OnOffer(u)'
    BY <1>1, <2>1, <2>2 DEF OnOffer
  <2> QED BY <1>2, <2>2, <2>3
<1>6. UsesArePast'
  <2>1. \A u \in Topics : topic'[u].lastUsedAt <= topicTime'
    BY <1>2, TopicAssumption DEF TopicsInv, TopicTypeOK
  <2> QED BY <1>1, <2>1 DEF TopicsInv, UsesArePast
<1>7. SelectedIsNext'
  BY <1>1, <1>3 DEF TopicsInv, SelectedIsNext, OwnedTopic
<1> QED BY <1>4, <1>5, <1>6, <1>7 DEF TopicsInv

(* The time of a write. *)
LEMMA WriteTimes ==
  ASSUME TopicsInv, topicTime < MaxTopicTime
  PROVE  /\ topicTime \in Nat /\ topicTime + 1 \in 0..MaxTopicTime
         /\ topicTime <= topicTime + 1
BY TopicAssumption DEF TopicsInv, TopicTypeOK

(* A write adds its time to the row it writes. *)
LEMMA WriteTopicFacts ==
  ASSUME TopicsInv, NEW t \in Topics, NEW row \in TopicRow, WriteTopic(t, row)
  PROVE  \E new \in TopicRow :
           /\ new.state = row.state /\ new.lastUsedAt = row.lastUsedAt
           /\ topic' = [topic EXCEPT ![t] = new] /\ topic'[t] = new
           /\ topicTime' = topicTime + 1 /\ topicTime \in Nat
           /\ topicTime' \in 0..MaxTopicTime /\ topicTime <= topicTime'
<1> DEFINE new == [row EXCEPT !.updatedAt = topicTime + 1]
<1>1. /\ topicTime' = topicTime + 1 /\ topicTime \in Nat
      /\ topicTime' \in 0..MaxTopicTime /\ topicTime <= topicTime'
  BY TopicAssumption DEF WriteTopic, TopicsInv, TopicTypeOK
<1>2. new \in TopicRow /\ new.state = row.state /\ new.lastUsedAt = row.lastUsedAt
  BY <1>1 DEF TopicRow
<1>3. topic' = [topic EXCEPT ![t] = new]
  BY DEF WriteTopic
<1> HIDE DEF new
<1>4. topic'[t] = new
  BY <1>3 DEF TopicsInv, TopicTypeOK
<1> QED BY <1>1, <1>2, <1>3, <1>4

(* The owner writes a row, new or not, that keeps the time of its last use. *)
LEMMA OwnerWritesInv ==
  ASSUME TopicsInv, NEW t \in Topics, NEW row \in TopicRow, WriteTopic(t, row),
         row.lastUsedAt = topic[t].lastUsedAt, row.state # "absent",
         \/ overlooked' = OffTheOffer(t)
         \/ overlooked' = overlooked /\ ~OnOffer(t),
         randomOn' \in BOOLEAN, UNCHANGED <<policy, selecting>>
  PROVE  TopicsInv' /\ \A u \in Topics : topic'[u].lastUsedAt = topic[u].lastUsedAt
<1>1. PICK new \in TopicRow :
           /\ new.state = row.state /\ new.lastUsedAt = row.lastUsedAt
           /\ topic' = [topic EXCEPT ![t] = new] /\ topic'[t] = new
           /\ topicTime' \in 0..MaxTopicTime /\ topicTime <= topicTime'
  BY WriteTopicFacts
<1>2. overlooked = StillOverlooked({})
  <2>1. overlooked = [u \in Topics |-> overlooked[u]]
    BY DEF TopicsInv, TopicTypeOK
  <2>2. \A u \in Topics : overlooked[u] \ {} = overlooked[u]
    BY DEF TopicsInv, TopicTypeOK
  <2> QED BY <2>1, <2>2 DEF StillOverlooked
<1>3. PICK gone : overlooked' = StillOverlooked(gone) /\ (~OnOffer(t)' /\ OnOffer(t) => t \in gone)
  BY <1>2 DEF OffTheOffer
<1>4. TopicsInv'
  BY <1>1, <1>3, RewriteInv
<1>5. \A u \in Topics : u # t => topic'[u] = topic[u]
  BY <1>1 DEF TopicsInv, TopicTypeOK
<1> QED BY <1>1, <1>4, <1>5

(* What the steps of the owner and of the clock have in common. *)
KeepsUses == TopicsInv' /\ \A u \in Topics : topic'[u].lastUsedAt = topic[u].lastUsedAt

LEMMA CreateTopicInv ==
  ASSUME TopicsInv, NEW t \in Topics, NEW random \in BOOLEAN,
         NEW expiry \in RequestedExpiry, CreateShareableTopic(t, random, expiry)
  PROVE  KeepsUses
<1> DEFINE row == [Absent EXCEPT !.state = "shared", !.random = random, !.expiry = expiry]
<1>1. row \in TopicRow /\ row.lastUsedAt = 0 /\ row.state = "shared"
  <2>1. Absent \in TopicRow /\ Absent.lastUsedAt = 0
    BY TopicAssumption DEF Absent, TopicRow, Expiry
  <2> QED BY <2>1 DEF TopicRow, RequestedExpiry, Expiry
<1>2. WriteTopic(t, row) /\ topic[t].state = "absent" /\ UNCHANGED <<randomOn, policy, selecting, overlooked>>
  BY DEF CreateShareableTopic, OwnedTopic
<1> HIDE DEF row
<1>3. topic[t].lastUsedAt = 0 /\ ~OnOffer(t)
  BY <1>2 DEF TopicsInv, UsesArePast, OnOffer
<1>4. randomOn' \in BOOLEAN
  BY <1>2 DEF TopicsInv, TopicTypeOK
<1> QED BY <1>1, <1>2, <1>3, <1>4, OwnerWritesInv DEF KeepsUses

LEMMA UpdateTopicInv ==
  ASSUME TopicsInv, NEW t \in Topics, NEW random \in BOOLEAN,
         NEW expiry \in RequestedExpiry, UpdateShareableTopic(t, random, expiry)
  PROVE  KeepsUses
<1> DEFINE kept == IF expiry = "never" THEN topic[t].expiry ELSE expiry
           row == [topic[t] EXCEPT !.state = "shared", !.random = random, !.expiry = kept]
<1>1. topic[t] \in TopicRow
  BY DEF TopicsInv, TopicTypeOK
<1>2. kept \in Expiry
  BY <1>1 DEF TopicRow, RequestedExpiry, Expiry
<1>3. WriteTopic(t, row) /\ overlooked' = OffTheOffer(t) /\ UNCHANGED <<randomOn, policy, selecting>>
  BY DEF UpdateShareableTopic
<1> HIDE DEF kept
<1>4. row \in TopicRow /\ row.lastUsedAt = topic[t].lastUsedAt /\ row.state = "shared"
  BY <1>1, <1>2 DEF TopicRow
<1> HIDE DEF row
<1>5. randomOn' \in BOOLEAN
  BY <1>3 DEF TopicsInv, TopicTypeOK
<1> QED BY <1>3, <1>4, <1>5, OwnerWritesInv DEF KeepsUses

LEMMA RevokeTopicInv ==
  ASSUME TopicsInv, NEW t \in Topics, RevokeShareableTopic(t)
  PROVE  KeepsUses
<1> DEFINE row == [topic[t] EXCEPT !.state = "revoked", !.random = FALSE]
<1>1. topic[t] \in TopicRow
  BY DEF TopicsInv, TopicTypeOK
<1>2. WriteTopic(t, row) /\ overlooked' = OffTheOffer(t) /\ UNCHANGED <<policy, selecting>>
  BY DEF RevokeShareableTopic
<1>3. row \in TopicRow /\ row.lastUsedAt = topic[t].lastUsedAt /\ row.state = "revoked"
  BY <1>1 DEF TopicRow
<1> HIDE DEF row
<1>4. randomOn' \in BOOLEAN
  BY DEF RevokeShareableTopic
<1> QED BY <1>2, <1>3, <1>4, OwnerWritesInv DEF KeepsUses

LEMMA TopicExpiresInv ==
  ASSUME TopicsInv, NEW t \in Topics, TopicExpires(t)
  PROVE  KeepsUses
<1> DEFINE row == [topic[t] EXCEPT !.expiry = "past"]
<1>1. topic[t] \in TopicRow
  BY DEF TopicsInv, TopicTypeOK
<1>2. /\ topic' = [topic EXCEPT ![t] = row] /\ overlooked' = StillOverlooked({t})
      /\ UNCHANGED <<randomOn, policy, selecting, topicTime>>
  BY DEF TopicExpires
<1>3. row \in TopicRow /\ row.lastUsedAt = topic[t].lastUsedAt /\ row.state = topic[t].state
  BY <1>1 DEF TopicRow, Expiry
<1> HIDE DEF row
<1>4. topicTime' \in 0..MaxTopicTime /\ topicTime <= topicTime' /\ randomOn' \in BOOLEAN
  BY <1>2, TopicAssumption DEF TopicsInv, TopicTypeOK
<1>5. TopicsInv'
  BY <1>1, <1>2, <1>3, <1>4, RewriteInv
<1>6. topic'[t] = row /\ \A u \in Topics : u # t => topic'[u] = topic[u]
  BY <1>2 DEF TopicsInv, TopicTypeOK
<1> QED BY <1>3, <1>5, <1>6 DEF KeepsUses

(* The use itself: every topic on offer was used before it. *)
LEMMA MarkUsedInv ==
  ASSUME TopicsInv, MarkUsed
  PROVE  /\ TopicsInv'
         /\ overlooked[selecting] = {}
         /\ \A u \in Topics : u # selecting => topic'[u] = topic[u]
<1> DEFINE s == selecting
           row == [topic[s] EXCEPT !.lastUsedAt = topicTime + 1]
<1>1. /\ s \in Topics /\ WriteTopic(s, row) /\ selecting' = NoTopic
      /\ overlooked' = [StillOverlooked({s}) EXCEPT ![s] = {u \in Topics \ {s} : OnOffer(u)}]
      /\ UNCHANGED <<randomOn, policy>>
  BY DEF MarkUsed, TopicsInv, TopicTypeOK
<1>2. topic[s] \in TopicRow /\ overlooked[s] = {}
  BY <1>1 DEF TopicsInv, TopicTypeOK, SelectedIsNext
<1>3. topicTime + 1 \in 0..MaxTopicTime
  BY <1>1, TopicAssumption DEF WriteTopic, TopicsInv, TopicTypeOK
<1>4. row \in TopicRow /\ row.lastUsedAt = topicTime + 1 /\ row.state = topic[s].state
  BY <1>2, <1>3 DEF TopicRow
<1> HIDE DEF row
<1>5. PICK new \in TopicRow :
           /\ new.state = row.state /\ new.lastUsedAt = row.lastUsedAt
           /\ topic' = [topic EXCEPT ![s] = new] /\ topic'[s] = new
           /\ topicTime' = topicTime + 1 /\ topicTime \in Nat
           /\ topicTime' \in 0..MaxTopicTime /\ topicTime <= topicTime'
  BY <1>1, <1>4, WriteTopicFacts
<1>6. topic' \in [Topics -> TopicRow] /\ \A u \in Topics : u # s => topic'[u] = topic[u]
  BY <1>1, <1>5 DEF TopicsInv, TopicTypeOK
<1>7. /\ overlooked' \in [Topics -> SUBSET Topics]
      /\ overlooked'[s] = {u \in Topics \ {s} : OnOffer(u)}
      /\ \A u \in Topics : u # s => overlooked'[u] = overlooked[u] \ {s}
  BY <1>1 DEF StillOverlooked, TopicsInv, TopicTypeOK
<1>8. TopicTypeOK'
  BY <1>1, <1>5, <1>6, <1>7 DEF TopicsInv, TopicTypeOK
<1>9. \A u \in Topics : topic[u].lastUsedAt \in Nat /\ topic[u].lastUsedAt <= topicTime
  BY TopicAssumption DEF TopicsInv, TopicTypeOK, TopicRow, UsesArePast
<1>10. OverlookedWait'
  <2> SUFFICES ASSUME NEW v \in Topics, NEW u \in Topics, u \in overlooked'[v]
               PROVE  OnOffer(u)' /\ topic'[u].lastUsedAt < topic'[v].lastUsedAt
    BY DEF OverlookedWait
  <2>1. u # s /\ OnOffer(u)
    BY <1>7 DEF TopicsInv, OverlookedWait
  <2>2. topic'[u] = topic[u] /\ OnOffer(u)'
    BY <1>6, <2>1 DEF OnOffer
  <2>3. CASE v = s
    BY <1>4, <1>5, <1>9, <2>2, <2>3
  <2>4. CASE v # s
    BY <1>6, <1>7, <2>2, <2>4 DEF TopicsInv, OverlookedWait
  <2> QED BY <2>2, <2>3, <2>4
<1>11. UsesArePast'
  <2>1. topic'[s].state # "absent"
    BY <1>1, <1>4, <1>5 DEF TopicsInv, SelectedIsNext, OwnedTopic
  <2>2. \A u \in Topics : topic'[u].lastUsedAt <= topicTime'
    BY <1>4, <1>5, <1>6, <1>9
  <2> QED BY <1>1, <1>6, <2>1, <2>2 DEF TopicsInv, UsesArePast
<1>12. SelectedIsNext'
  BY <1>1, TopicAssumption DEF SelectedIsNext
<1> QED BY <1>2, <1>6, <1>8, <1>10, <1>11, <1>12 DEF TopicsInv

(* Reading the topics: the one that is selected was used before the others. *)
LEMMA SelectTopicInv ==
  ASSUME TopicsInv, NEW t \in Topics, SelectTopic(t)
  PROVE  KeepsUses
<1>1. /\ OnOffer(t) /\ selecting' = t /\ UNCHANGED <<topic, randomOn, policy, topicTime, overlooked>>
      /\ \A u \in Topics \ {t} : OnOffer(u) => ChosenBefore(t, u)
  BY DEF SelectTopic
<1>2. overlooked[t] = {}
  <2> SUFFICES ASSUME NEW u \in overlooked[t] PROVE FALSE
    OBVIOUS
  <2>1. u \in Topics /\ OnOffer(u) /\ topic[u].lastUsedAt < topic[t].lastUsedAt
    BY DEF TopicsInv, TopicTypeOK, OverlookedWait
  <2>2. topic[u].lastUsedAt \in Nat /\ topic[t].lastUsedAt \in Nat
    BY <2>1, TopicAssumption DEF TopicsInv, TopicTypeOK, TopicRow
  <2>3. UsedLonger(u, t) /\ ~UsedLonger(t, u) /\ u # t
    BY <2>1, <2>2 DEF UsedLonger
  <2> QED BY <1>1, <2>1, <2>3 DEF ChosenBefore
<1>3. OwnedTopic(t)
  BY <1>1 DEF OnOffer, OwnedTopic
<1>4. SelectedIsNext'
  BY <1>1, <1>2, <1>3 DEF SelectedIsNext, OwnedTopic
<1>5. TopicTypeOK'
  BY <1>1 DEF TopicsInv, TopicTypeOK
<1>6. OverlookedWait' /\ UsesArePast'
  BY <1>1 DEF TopicsInv, OverlookedWait, UsesArePast, OnOffer
<1> QED BY <1>1, <1>4, <1>5, <1>6 DEF TopicsInv, KeepsUses

(* Steps that write no topic. *)
LEMMA TopicsStay ==
  ASSUME TopicsInv, UNCHANGED <<topic, topicTime, overlooked>>,
         randomOn' \in BOOLEAN, policy' \in {"idle", "on", "off"},
         selecting' \in {selecting, NoTopic}
  PROVE  KeepsUses
<1>1. TopicTypeOK'
  BY DEF TopicsInv, TopicTypeOK
<1>2. OverlookedWait' /\ UsesArePast'
  BY DEF TopicsInv, OverlookedWait, UsesArePast, OnOffer
<1>3. SelectedIsNext'
  BY TopicAssumption DEF TopicsInv, SelectedIsNext, OwnedTopic
<1> QED BY <1>1, <1>2, <1>3 DEF TopicsInv, KeepsUses

(* Every step keeps the invariant and uses no topic that made another wait. *)
LEMMA TopicsStep ==
  ASSUME TopicsInv, [TopicNext]_topicVars
  PROVE  /\ TopicsInv'
         /\ \A t \in Topics :
              topic'[t].lastUsedAt # topic[t].lastUsedAt => overlooked[t] = {}
<1> USE DEF KeepsUses
<1>1. ASSUME NEW t \in Topics, NEW random \in BOOLEAN, NEW expiry \in RequestedExpiry,
             \/ CreateShareableTopic(t, random, expiry)
             \/ UpdateShareableTopic(t, random, expiry)
      PROVE  KeepsUses
  BY <1>1, CreateTopicInv, UpdateTopicInv, Zenon
<1>2. ASSUME NEW t \in Topics,
             RevokeShareableTopic(t) \/ TopicExpires(t) \/ SelectTopic(t)
      PROVE  KeepsUses
  BY <1>2, RevokeTopicInv, TopicExpiresInv, SelectTopicInv, Zenon
<1>3. ASSUME \/ \E on \in BOOLEAN : CountTopics(on)
             \/ WritePolicy \/ InvitationFails \/ UNCHANGED topicVars
      PROVE  KeepsUses
  <2>1. /\ UNCHANGED <<topic, topicTime, overlooked>>
        /\ randomOn' \in BOOLEAN /\ policy' \in {"idle", "on", "off"}
        /\ selecting' \in {selecting, NoTopic}
    BY <1>3 DEF CountTopics, WritePolicy, InvitationFails, topicVars, TopicsInv, TopicTypeOK
  <2> QED BY <2>1, TopicsStay
<1>4. CASE MarkUsed
  BY <1>4, MarkUsedInv
<1>5. CASE KeepsUses
  BY <1>5
<1> QED BY <1>1, <1>2, <1>3, <1>4, <1>5, Zenon DEF TopicNext

(***************************************************************************)
(* The topics keep their inductive invariant.                              *)
(***************************************************************************)
THEOREM TopicsInvariance == TopicSpec => []TopicsInv
<1>1. TopicInit => TopicsInv
  BY TopicsInitInv
<1>2. TopicsInv /\ [TopicNext]_topicVars => TopicsInv'
  BY TopicsStep
<1> QED BY <1>1, <1>2, PTL DEF TopicSpec

(***************************************************************************)
(* For any number of topics a random visit uses a topic again only after   *)
(* every topic that has been on offer since its last use, whatever the     *)
(* owner rewrites between the reads and the writes of the invitations      *)
(* (resolveInvitationTopic orders by lastUsedAt, nulls first).             *)
(***************************************************************************)
THEOREM HostTopicsTakeTurns == TopicSpec => TopicsTakeTurns
<1>1. TopicsInv /\ [TopicNext]_topicVars =>
        [\A t \in Topics :
           topic'[t].lastUsedAt # topic[t].lastUsedAt => overlooked[t] = {}]_topicVars
  BY TopicsStep
<1>2. TopicsInv /\ [TopicNext]_topicVars => TopicsInv'
  BY TopicsStep
<1> QED BY <1>1, <1>2, TopicsInvariance, PTL DEF TopicSpec, TopicsTakeTurns

-----------------------------------------------------------------------------
(* PortalSession: calls, their retries and the shared refresh.              *)

(* The answer of a call tells how often the server carried it out; only a  *)
(* call the server refused waits for a refresh.                            *)
Tells(call, times) ==
  /\ times <= 1
  /\ call.answer \in {"open", "401"} => times = 0
  /\ call.answer = "ok" => times = 1
  /\ call.phase \in {"idle", "waiting"} => call.answer \in {"open", "401"}

CallsInv ==
  /\ calls \in [Calls -> Call] /\ effects \in [Calls -> 0..2]
  /\ \A c \in Calls : Tells(calls[c], effects[c])

LEMMA CallsInitInv == PortalInit => CallsInv
<1> SUFFICES ASSUME PortalInit PROVE CallsInv
  OBVIOUS
<1>1. ASSUME NEW call \in NotCalled
      PROVE  call \in Call /\ call.answer = "open" /\ call.phase = "idle"
  <2>1. PICK t \in Tabs : call = [tab |-> t, phase |-> "idle", retry |-> FALSE,
                                 access |-> "none", answer |-> "open"]
    BY DEF NotCalled
  <2> QED BY <2>1 DEF Call, Cookie, Answer
<1>2. calls \in [Calls -> NotCalled] /\ effects = [c \in Calls |-> 0]
  BY DEF PortalInit
<1>3. calls \in [Calls -> Call] /\ effects \in [Calls -> 0..2]
  BY <1>1, <1>2
<1> QED BY <1>1, <1>2, <1>3 DEF CallsInv, Tells

(* One call moves on. *)
LEMMA CallMoves ==
  ASSUME CallsInv, NEW c \in Calls, NEW call \in Call, NEW times \in 0..2,
         calls' = [calls EXCEPT ![c] = call], effects' = [effects EXCEPT ![c] = times],
         Tells(call, times)
  PROVE  CallsInv'
<1>1. calls' \in [Calls -> Call] /\ effects' \in [Calls -> 0..2]
  BY DEF CallsInv
<1>2. calls'[c] = call /\ effects'[c] = times
  BY DEF CallsInv
<1>3. \A d \in Calls : d # c => calls'[d] = calls[d] /\ effects'[d] = effects[d]
  BY DEF CallsInv
<1> QED BY <1>1, <1>2, <1>3 DEF CallsInv

LEMMA SameEffects ==
  ASSUME CallsInv, NEW c \in Calls, UNCHANGED effects
  PROVE  /\ effects' = [effects EXCEPT ![c] = effects[c]] /\ effects[c] \in 0..2
         /\ calls[c] \in Call /\ Tells(calls[c], effects[c])
BY DEF CallsInv

LEMMA StartCallInv == ASSUME CallsInv, NEW c \in Calls, access \in Cookie, StartCall(c) PROVE CallsInv'
<1> DEFINE call == [calls[c] EXCEPT !.phase = "sent", !.access = access]
<1>1. calls' = [calls EXCEPT ![c] = call] /\ calls[c].phase = "idle" /\ UNCHANGED effects
  BY DEF StartCall
<1>2. calls[c] \in Call /\ Tells(calls[c], effects[c])
  BY <1>1, SameEffects
<1>3. call \in Call /\ call.answer = calls[c].answer /\ call.phase = "sent"
  BY <1>2 DEF Call
<1> HIDE DEF call
<1>4. Tells(call, effects[c])
  BY <1>1, <1>2, <1>3 DEF Tells
<1> QED BY <1>1, <1>3, <1>4, SameEffects, CallMoves

LEMMA ServeCallInv == ASSUME CallsInv, NEW c \in Calls, ServeCall(c) PROVE CallsInv'
<1>0. calls[c] \in Call /\ effects[c] = 0
  BY DEF CallsInv, Tells, ServeCall
<1>1. PICK answer \in {"lost", IF Authorized(c) THEN "ok" ELSE "401"} :
        calls' = [calls EXCEPT ![c].answer = answer]
  BY DEF ServeCall
<1> DEFINE call == [calls[c] EXCEPT !.answer = answer]
           times == IF Authorized(c) THEN 1 ELSE 0
<1>2. calls' = [calls EXCEPT ![c] = call]
  BY <1>1
<1>3. effects' = [effects EXCEPT ![c] = times]
  BY <1>0 DEF ServeCall
<1>4. call \in Call /\ call.answer = answer /\ call.phase = "sent"
  BY <1>0 DEF Call, Answer, ServeCall
<1>5. times \in 0..2 /\ times <= 1 /\ (answer = "ok" => times = 1) /\ (answer = "401" => times = 0)
  OBVIOUS
<1>6. answer # "open"
  OBVIOUS
<1> HIDE DEF call, times
<1>7. Tells(call, times)
  BY <1>4, <1>5, <1>6 DEF Tells
<1> QED BY <1>2, <1>3, <1>4, <1>5, <1>7, CallMoves

LEMMA CallAnsweredInv == ASSUME CallsInv, NEW c \in Calls, CallAnswered(c) PROVE CallsInv'
<1>1. UNCHANGED effects
  BY DEF CallAnswered
<1>2. PICK phase \in {"waiting", "done"} :
        /\ calls' = [calls EXCEPT ![c].phase = phase]
        /\ phase = "waiting" => calls[c].answer = "401"
  BY DEF CallAnswered, MayRefresh
<1> DEFINE call == [calls[c] EXCEPT !.phase = phase]
<1>3. calls' = [calls EXCEPT ![c] = call]
  BY <1>2
<1>4. call \in Call /\ call.answer = calls[c].answer /\ call.phase = phase
  BY <1>1, SameEffects DEF Call
<1> HIDE DEF call
<1>5. Tells(call, effects[c])
  BY <1>1, <1>2, <1>4, SameEffects DEF Tells
<1> QED BY <1>1, <1>3, <1>4, <1>5, SameEffects, CallMoves

LEMMA RefreshAnsweredCalls ==
  ASSUME CallsInv, NEW r \in Refresh, RefreshAnswered(r)
  PROVE  CallsInv'
<1>1. UNCHANGED effects
  BY DEF RefreshAnswered
<1> DEFINE again == [tab |-> r.tab, phase |-> "sent", retry |-> TRUE, access |-> "live",
                     answer |-> "open"]
           waits(c) == calls[c].tab = r.tab /\ calls[c].phase = "waiting"
<1>2. again \in Call /\ again.phase = "sent" /\ again.answer = "open"
  BY DEF Call, Cookie, Answer, Refresh
<1>3. \A c \in Calls : /\ calls[c] \in Call /\ effects[c] \in 0..2
                       /\ Tells(calls[c], effects[c])
  BY DEF CallsInv
<1>4. CASE r.answer = "ok"
  <2>1. calls' = [c \in Calls |-> IF waits(c) THEN again ELSE calls[c]]
    BY <1>4 DEF RefreshAnswered
  <2> HIDE DEF again
  <2>2. calls' \in [Calls -> Call]
    BY <1>2, <1>3, <2>1
  <2>3. ASSUME NEW c \in Calls PROVE Tells(calls'[c], effects[c])
    <3>1. CASE waits(c)
      <4>1. calls'[c] = again
        BY <2>1, <3>1
      <4>2. effects[c] = 0
        BY <1>3, <3>1 DEF Tells
      <4> QED BY <1>2, <4>1, <4>2 DEF Tells
    <3>2. CASE ~waits(c)
      BY <1>3, <2>1, <3>2
    <3> QED BY <3>1, <3>2
  <2> QED BY <1>1, <2>2, <2>3 DEF CallsInv
<1>5. CASE r.answer # "ok"
  <2>1. calls' = [c \in Calls |-> IF waits(c) THEN [calls[c] EXCEPT !.phase = "done"] ELSE calls[c]]
    BY <1>5 DEF RefreshAnswered
  <2>2. ASSUME NEW c \in Calls PROVE calls'[c] \in Call /\ Tells(calls'[c], effects[c])
    <3>1. CASE waits(c)
      <4>1. calls'[c] = [calls[c] EXCEPT !.phase = "done"]
        BY <2>1, <3>1
      <4>2. calls'[c] \in Call /\ calls'[c].answer = calls[c].answer /\ calls'[c].phase = "done"
        BY <1>3, <4>1 DEF Call
      <4> QED BY <1>3, <4>2 DEF Tells
    <3>2. CASE ~waits(c)
      BY <1>3, <2>1, <3>2
    <3> QED BY <3>1, <3>2
  <2>3. calls' \in [Calls -> Call]
    BY <2>1, <2>2
  <2> QED BY <1>1, <2>2, <2>3 DEF CallsInv
<1> QED BY <1>4, <1>5

LEMMA AccessExpiresCalls == ASSUME CallsInv, AccessExpires PROVE CallsInv'
<1>1. calls' = [c \in Calls |-> [calls[c] EXCEPT !.access = Expired(calls[c].access)]] /\ UNCHANGED effects
  BY DEF AccessExpires
<1>2. ASSUME NEW c \in Calls PROVE calls'[c] \in Call /\ Tells(calls'[c], effects[c])
  <2>1. calls'[c] = [calls[c] EXCEPT !.access = Expired(calls[c].access)]
    BY <1>1
  <2>2. calls[c] \in Call /\ Tells(calls[c], effects[c])
    BY DEF CallsInv
  <2>3. Expired(calls[c].access) \in Cookie
    BY <2>2 DEF Expired, Call, Cookie
  <2>4. /\ calls'[c] \in Call /\ calls'[c].answer = calls[c].answer
        /\ calls'[c].phase = calls[c].phase
    BY <2>1, <2>2, <2>3 DEF Call
  <2> QED BY <2>2, <2>4 DEF Tells
<1>3. calls' \in [Calls -> Call]
  BY <1>1, <1>2
<1> QED BY <1>1, <1>2, <1>3 DEF CallsInv

LEMMA CallsStep ==
  ASSUME CallsInv, access \in Cookie, refreshes \subseteq Refresh, [PortalNext]_portalVars
  PROVE  CallsInv'
<1>1. CASE \E c \in Calls : StartCall(c) \/ ServeCall(c) \/ CallAnswered(c)
  BY <1>1, StartCallInv, ServeCallInv, CallAnsweredInv, Zenon
<1>2. ASSUME NEW r \in refreshes, RefreshAnswered(r) PROVE CallsInv'
  BY <1>2, RefreshAnsweredCalls
<1>3. CASE AccessExpires
  BY <1>3, AccessExpiresCalls
<1>4. CASE UNCHANGED <<calls, effects>>
  BY <1>4 DEF CallsInv
<1>5. \/ \E r \in refreshes : ServeRefresh(r)
      \/ \E t \in AuthTabs : \/ AskLogin(t) \/ ServeLogin(t) \/ LoginAnswered(t)
                             \/ AskLogout(t) \/ ServeLogout(t) \/ LogoutAnswered(t)
      \/ SessionRevoked \/ UNCHANGED portalVars
      => UNCHANGED <<calls, effects>>
  BY DEF ServeRefresh, AskLogin, ServeLogin, LoginAnswered, AskLogout, ServeLogout,
         LogoutAnswered, SessionRevoked, portalVars
<1> QED BY <1>1, <1>2, <1>3, <1>4, <1>5, Zenon DEF PortalNext

(* There is one refresh at a time in a tab, and its refreshPromise says so. *)
OneRefresh ==
  /\ \A r \in refreshes : refreshPromise[r.tab]
  /\ \A r, s \in refreshes : r.tab = s.tab => r = s

(* A token that is in no cookie yet: it was issued, and was never sent. *)
Unsent(n) == /\ n \in 1..issued /\ n \notin spent \cup {token}
             /\ \A q \in refreshes : q.token # n

(* Tokens on their way to the browser are unsent, and each arrives once. *)
ArrivingIsFresh ==
  /\ \A r \in refreshes : r.answer = "ok" =>
       /\ Unsent(r.new) /\ r.token # 0
       /\ \A s \in refreshes : s.answer = "ok" /\ s.new = r.new => s = r
       /\ \A t \in AuthTabs : login[t].answer = "ok" => login[t].token # r.new
  /\ \A t \in AuthTabs : login[t].answer = "ok" =>
       /\ Unsent(login[t].token)
       /\ \A u \in AuthTabs : login[u].answer = "ok" /\ login[u].token = login[t].token => u = t

(* The cookie holds no token that the browser got a successor for. *)
TokensIssued ==
  /\ token <= issued /\ token \notin spent
  /\ \A n \in spent : n <= issued
  /\ \A r \in refreshes : r.token <= issued

TokensTypeOK ==
  /\ refreshes \subseteq Refresh /\ refreshPromise \in [Tabs -> BOOLEAN]
  /\ login \in [AuthTabs -> Login] /\ logout \in [AuthTabs -> Logout]
  /\ access \in Cookie
  /\ token \in 0..MaxTokens /\ issued \in 0..MaxTokens
  /\ sessionLive \in BOOLEAN
  /\ spent \subseteq 1..MaxTokens

TokensInv == TokensTypeOK /\ OneRefresh /\ ArrivingIsFresh /\ TokensIssued

PortalInv == CallsInv /\ TokensInv

LEMMA PortalIsTyped == PortalInv => PortalTypeOK
BY DEF PortalInv, CallsInv, TokensInv, TokensTypeOK, PortalTypeOK

LEMMA TokensInitInv == PortalInit => TokensInv
<1> SUFFICES ASSUME PortalInit PROVE TokensInv
  OBVIOUS
<1>0. {0, 1} \subseteq 0..MaxTokens /\ MaxTokens \in Nat
  BY TokensAssumption
<1>1. /\ access \in Cookie /\ token \in {0, 1} /\ issued = 1 /\ spent = {} /\ refreshes = {}
      /\ sessionLive \in BOOLEAN /\ refreshPromise \in [Tabs -> BOOLEAN]
  BY DEF PortalInit, Cookie
<1>2. NoLogin \in Login /\ NoLogin.answer = "none" /\ NoLogout \in Logout
  BY <1>0 DEF NoLogin, Login, NoLogout, Logout, Cookie
<1>3. /\ login \in [AuthTabs -> Login] /\ logout \in [AuthTabs -> Logout]
      /\ \A t \in AuthTabs : login[t].answer = "none"
  BY <1>2 DEF PortalInit
<1>4. TokensTypeOK
  BY <1>0, <1>1, <1>3 DEF TokensTypeOK
<1>5. OneRefresh /\ TokensIssued
  BY <1>1 DEF OneRefresh, TokensIssued
<1>6. ArrivingIsFresh
  BY <1>1, <1>3 DEF ArrivingIsFresh
<1> QED BY <1>4, <1>5, <1>6 DEF TokensInv

(* Steps that send no refresh, and bring no token and no login. *)
LEMMA TokensStay ==
  ASSUME TokensInv, UNCHANGED <<refreshes, refreshPromise, token, issued, spent>>,
         login' \in [AuthTabs -> Login], logout' \in [AuthTabs -> Logout],
         \A t \in AuthTabs : login'[t].answer = "ok" => login'[t] = login[t],
         access' \in Cookie, sessionLive' \in BOOLEAN
  PROVE  TokensInv'
<1>1. TokensTypeOK'
  BY DEF TokensInv, TokensTypeOK
<1>2. OneRefresh' /\ TokensIssued'
  BY DEF TokensInv, OneRefresh, TokensIssued
<1>3. \A n : Unsent(n) => Unsent(n)'
  BY DEF Unsent
<1>4. ArrivingIsFresh'
  BY <1>3 DEF TokensInv, ArrivingIsFresh
<1> QED BY <1>1, <1>2, <1>4 DEF TokensInv

(* A refresh that was not there before and has no answer yet was sent with *)
(* a token that may be sent.                                               *)
SendsUnspent ==
  \A r \in refreshes' \ refreshes : r.answer = "open" =>
    /\ r.token \notin spent
    /\ \A q \in refreshes : q.tab = r.tab => q.token # r.token

(* api after an answer: a refresh is sent only when none is under way in   *)
(* the tab, and with the token in the cookie.                              *)
LEMMA CallAnsweredTokens ==
  ASSUME PortalInv, NEW c \in Calls, CallAnswered(c)
  PROVE  TokensInv' /\ SendsUnspent
<1>0. UNCHANGED <<login, logout, access, token, issued, sessionLive, spent>>
  BY DEF CallAnswered
<1>1. TokensInv /\ calls[c].tab \in Tabs
  BY DEF PortalInv, CallsInv, Call
<1>2. CASE UNCHANGED <<refreshPromise, refreshes>>
  BY <1>0, <1>1, <1>2, TokensStay DEF TokensInv, TokensTypeOK, SendsUnspent
<1>3. CASE ~UNCHANGED <<refreshPromise, refreshes>>
  <2> DEFINE tab == calls[c].tab
             new == [by |-> c, tab |-> tab, token |-> token, answer |-> "open", new |-> 0]
  <2>1. /\ ~refreshPromise[tab] /\ refreshPromise' = [refreshPromise EXCEPT ![tab] = TRUE]
        /\ refreshes' = refreshes \cup {new}
    BY <1>3 DEF CallAnswered, NoRefreshUnderWay
  <2>2. \A q \in refreshes : q.tab # tab
    BY <1>1, <2>1 DEF TokensInv, OneRefresh
  <2>3. new \in Refresh /\ new.token = token /\ new.answer = "open" /\ new.tab = tab
    BY <1>1, TokensAssumption DEF Refresh, Answer, TokensInv, TokensTypeOK
  <2> HIDE DEF new
  <2>4. TokensTypeOK'
    BY <1>0, <1>1, <2>1, <2>3 DEF TokensInv, TokensTypeOK
  <2>5. OneRefresh'
    <3>1. \A r \in refreshes' : r \in Refresh /\ refreshPromise'[r.tab]
      BY <1>1, <2>1, <2>3 DEF TokensInv, TokensTypeOK, OneRefresh, Refresh
    <3>2. \A r, s \in refreshes' : r.tab = s.tab => r = s
      BY <1>1, <2>1, <2>2, <2>3 DEF TokensInv, OneRefresh
    <3> QED BY <3>1, <3>2 DEF OneRefresh
  <2>6. TokensIssued'
    BY <1>0, <1>1, <2>1, <2>3 DEF TokensInv, TokensIssued
  <2>7. \A n : Unsent(n) => Unsent(n)'
    BY <1>0, <2>1, <2>3 DEF Unsent
  <2>8. ArrivingIsFresh'
    BY <1>0, <1>1, <2>1, <2>3, <2>7 DEF TokensInv, ArrivingIsFresh
  <2>9. SendsUnspent
    BY <1>1, <2>1, <2>2, <2>3 DEF SendsUnspent, TokensInv, TokensIssued
  <2> QED BY <2>4, <2>5, <2>6, <2>8, <2>9 DEF TokensInv
<1> QED BY <1>2, <1>3

LEMMA ServeRefreshTokens ==
  ASSUME TokensInv, NEW r \in refreshes, ServeRefresh(r)
  PROVE  TokensInv' /\ SendsUnspent
<1>0. /\ r \in Refresh /\ issued \in Nat /\ MaxTokens \in Nat
      /\ UNCHANGED <<refreshPromise, login, logout, access, token, spent>>
  BY TokensAssumption DEF ServeRefresh, TokensInv, TokensTypeOK
<1>1. PICK q \in Refresh :
        /\ refreshes' = (refreshes \ {r}) \cup {q}
        /\ q.token = r.token /\ q.tab = r.tab /\ q.answer \in {"ok", "lost", "401"}
        /\ issued' \in 0..MaxTokens /\ issued <= issued'
        /\ q.answer = "ok" => q.new = issued + 1 /\ issued' = issued + 1 /\ q.token # 0
        /\ sessionLive' \in BOOLEAN
  <2>1. CASE /\ r.token # 0
             /\ issued < MaxTokens /\ issued' = issued + 1 /\ UNCHANGED sessionLive
             /\ \E answer \in {"ok", "lost"} :
                  refreshes' = (refreshes \ {r}) \cup
                                 {[r EXCEPT !.answer = answer, !.new = issued + 1]}
    <3>1. PICK answer \in {"ok", "lost"} :
            refreshes' = (refreshes \ {r}) \cup
                           {[r EXCEPT !.answer = answer, !.new = issued + 1]}
      BY <2>1
    <3> DEFINE q == [r EXCEPT !.answer = answer, !.new = issued + 1]
    <3>2. issued' \in 0..MaxTokens /\ issued <= issued' /\ sessionLive' \in BOOLEAN
      BY <1>0, <2>1 DEF TokensInv, TokensTypeOK
    <3>3. /\ q \in Refresh /\ q.token = r.token /\ q.tab = r.tab
          /\ q.answer = answer /\ q.new = issued + 1
      <4>1. answer \in Answer /\ issued + 1 \in 0..MaxTokens
        BY <2>1, <3>2 DEF Answer
      <4> QED BY <1>0, <4>1 DEF Refresh
    <3> HIDE DEF q
    <3>4. refreshes' = (refreshes \ {r}) \cup {q}
      BY <3>1 DEF q
    <3> QED BY <2>1, <3>2, <3>3, <3>4
  <2>2. CASE /\ refreshes' = (refreshes \ {r}) \cup {[r EXCEPT !.answer = "401"]}
             /\ sessionLive' \in {sessionLive, FALSE} /\ UNCHANGED issued
    <3> DEFINE q == [r EXCEPT !.answer = "401"]
    <3>1. q \in Refresh /\ q.token = r.token /\ q.tab = r.tab /\ q.answer = "401"
      BY <1>0 DEF Refresh, Answer
    <3> HIDE DEF q
    <3>2. refreshes' = (refreshes \ {r}) \cup {q}
      BY <2>2 DEF q
    <3>3. issued' \in 0..MaxTokens /\ issued <= issued'
      BY <1>0, <2>2 DEF TokensInv, TokensTypeOK
    <3>4. sessionLive' \in BOOLEAN
      BY <2>2, Zenon DEF TokensInv, TokensTypeOK
    <3> QED BY <3>1, <3>2, <3>3, <3>4
  <2> QED BY <2>1, <2>2 DEF ServeRefresh
<1>2. TokensTypeOK'
  BY <1>0, <1>1 DEF TokensInv, TokensTypeOK
<1>3. OneRefresh'
  BY <1>0, <1>1 DEF TokensInv, OneRefresh
<1>4. /\ token \in Nat /\ token <= issued /\ \A n \in spent : n \in Nat /\ n <= issued
      /\ \A s \in refreshes : s.token \in Nat /\ s.token <= issued
  BY <1>0 DEF TokensInv, TokensTypeOK, TokensIssued, Refresh
<1>5. TokensIssued'
  BY <1>0, <1>1, <1>4 DEF TokensInv, TokensIssued, TokensTypeOK
<1>6. \A n : Unsent(n) => Unsent(n)' /\ n # issued + 1
  BY <1>0, <1>1 DEF Unsent, TokensInv, TokensTypeOK
<1>7. q.answer = "ok" => Unsent(q.new)'
  BY <1>0, <1>1, <1>4 DEF Unsent, TokensInv, TokensTypeOK
<1>8. ArrivingIsFresh'
  <2>1. ASSUME NEW s \in refreshes', s.answer = "ok" PROVE
          /\ Unsent(s.new)' /\ s.token # 0
          /\ \A u \in refreshes' : u.answer = "ok" /\ u.new = s.new => u = s
          /\ \A t \in AuthTabs : login[t].answer = "ok" => login[t].token # s.new
    <3>1. CASE s = q
      BY <1>1, <1>6, <1>7, <2>1, <3>1 DEF TokensInv, ArrivingIsFresh
    <3>2. CASE s # q
      BY <1>1, <1>6, <2>1, <3>2 DEF TokensInv, ArrivingIsFresh
    <3> QED BY <3>1, <3>2
  <2>2. \A t \in AuthTabs : login[t].answer = "ok" => Unsent(login[t].token)'
    BY <1>0, <1>6 DEF TokensInv, ArrivingIsFresh
  <2> QED BY <1>0, <2>1, <2>2 DEF TokensInv, ArrivingIsFresh
<1>9. SendsUnspent
  BY <1>1 DEF SendsUnspent
<1> QED BY <1>2, <1>3, <1>5, <1>8, <1>9 DEF TokensInv

(* The cookie becomes a token that arrives, is cleared or stays. *)
LEMMA CookieMoves ==
  ASSUME TokensInv, NEW gone, refreshes' = refreshes \ gone,
         token' \in 0..MaxTokens, token' <= issued, token' \notin spent',
         spent' \subseteq spent \cup {q.token : q \in refreshes}, spent' \subseteq 1..MaxTokens,
         access' \in Cookie, refreshPromise' \in [Tabs -> BOOLEAN],
         \A r \in refreshes' : refreshPromise'[r.tab],
         login' \in [AuthTabs -> Login],
         \A t \in AuthTabs : login'[t].answer = "ok" =>
           login'[t] = login[t] /\ login[t].token # token',
         \A r \in refreshes' : r.answer = "ok" => r.new # token',
         logout' \in [AuthTabs -> Logout],
         UNCHANGED <<issued, sessionLive>>
  PROVE  TokensInv'
<1>1. TokensTypeOK'
  BY DEF TokensInv, TokensTypeOK
<1>2. OneRefresh'
  BY DEF TokensInv, OneRefresh
<1>3. TokensIssued'
  BY DEF TokensInv, TokensIssued
<1>4. \A n : Unsent(n) /\ n # token' => Unsent(n)'
  BY DEF Unsent
<1>5. ArrivingIsFresh'
  BY <1>4 DEF TokensInv, ArrivingIsFresh
<1> QED BY <1>1, <1>2, <1>3, <1>5 DEF TokensInv

LEMMA RefreshAnsweredTokens ==
  ASSUME TokensInv, NEW r \in refreshes, RefreshAnswered(r)
  PROVE  TokensInv' /\ SendsUnspent
<1>0. /\ r \in Refresh /\ refreshes' = refreshes \ {r} /\ refreshes \subseteq Refresh
      /\ refreshPromise' = [refreshPromise EXCEPT ![r.tab] = FALSE]
      /\ UNCHANGED <<login, logout, issued, sessionLive>>
  BY DEF RefreshAnswered, TokensInv, TokensTypeOK
<1>1. /\ refreshPromise' \in [Tabs -> BOOLEAN]
      /\ \A q \in refreshes' : refreshPromise'[q.tab]
  BY <1>0 DEF TokensInv, TokensTypeOK, OneRefresh, Refresh
<1>2. login \in [AuthTabs -> Login] /\ logout \in [AuthTabs -> Logout]
  BY DEF TokensInv, TokensTypeOK
<1>3. CASE r.answer = "ok"
  <2>1. access' = "live" /\ token' = r.new /\ spent' = spent \cup {r.token} /\ "live" \in Cookie
    BY <1>3 DEF RefreshAnswered, Cookie
  <2>2. Unsent(r.new)
    BY <1>3 DEF TokensInv, ArrivingIsFresh
  <2>3. r.new \in 0..MaxTokens /\ r.new <= issued /\ r.new \notin spent /\ r.new # r.token
    BY <1>0, <2>2 DEF Unsent, Refresh, TokensInv, TokensTypeOK
  <2>4. /\ \A t \in AuthTabs : login[t].answer = "ok" => login[t].token # r.new
        /\ \A q \in refreshes' : q.answer = "ok" => q.new # r.new
    BY <1>0, <1>3 DEF TokensInv, ArrivingIsFresh
  <2>5. r.token \in 1..MaxTokens
    <3>1. r.token # 0
      BY <1>3 DEF TokensInv, ArrivingIsFresh
    <3> QED BY <1>0, <3>1, TokensAssumption DEF Refresh
  <2>6. spent' \subseteq 1..MaxTokens
    BY <2>1, <2>5 DEF TokensInv, TokensTypeOK
  <2> QED BY <1>0, <1>1, <1>2, <2>1, <2>3, <2>4, <2>6, CookieMoves DEF SendsUnspent
<1>4. CASE r.answer # "ok"
  <2>1. UNCHANGED <<access, token, spent>>
    BY <1>4 DEF RefreshAnswered
  <2>2. /\ access \in Cookie /\ token \in 0..MaxTokens /\ token <= issued /\ token \notin spent
        /\ spent \subseteq 1..MaxTokens
        /\ \A t \in AuthTabs : login[t].answer = "ok" => login[t].token # token
        /\ \A q \in refreshes : q.answer = "ok" => q.new # token
    BY DEF TokensInv, TokensTypeOK, TokensIssued, ArrivingIsFresh, Unsent
  <2> QED BY <1>0, <1>1, <1>2, <2>1, <2>2, CookieMoves DEF SendsUnspent
<1> QED BY <1>3, <1>4

(* A login is asked or refused, or a logout is under way. *)
LEMMA AuthStay ==
  ASSUME TokensInv, NEW t \in AuthTabs, AskLogin(t) \/ AskLogout(t) \/ ServeLogout(t)
  PROVE  TokensInv'
<1>1. /\ UNCHANGED <<refreshes, refreshPromise, access, token, issued, spent>>
      /\ access \in Cookie /\ login \in [AuthTabs -> Login] /\ logout \in [AuthTabs -> Logout]
      /\ login[t] \in Login /\ logout[t] \in Logout
  BY DEF AskLogin, AskLogout, ServeLogout, TokensInv, TokensTypeOK
<1>2. sessionLive' \in BOOLEAN
  BY DEF AskLogin, AskLogout, ServeLogout, TokensInv, TokensTypeOK
<1>3. CASE AskLogin(t)
  <2>1. login' = [login EXCEPT ![t] = [login[t] EXCEPT !.answer = "open"]] /\ logout' = logout
    BY <1>3 DEF AskLogin
  <2>2. login' \in [AuthTabs -> Login] /\ login'[t].answer = "open"
    BY <1>1, <2>1 DEF Login, Answer
  <2> QED BY <1>1, <1>2, <2>1, <2>2, TokensStay
<1>4. CASE AskLogout(t) \/ ServeLogout(t)
  <2>1. login' = login
    BY <1>4 DEF AskLogout, ServeLogout
  <2>2. logout' \in [AuthTabs -> Logout]
    <3>1. CASE AskLogout(t)
      BY <1>1, <3>1 DEF AskLogout, Logout, Answer
    <3>2. CASE ServeLogout(t)
      <4>1. PICK answer \in {"ok", "lost", "401"} :
              logout' = [logout EXCEPT ![t] = [logout[t] EXCEPT !.answer = answer]]
        BY <3>2 DEF ServeLogout
      <4>2. [logout[t] EXCEPT !.answer = answer] \in Logout
        BY <1>1 DEF Logout, Answer
      <4> QED BY <1>1, <4>1, <4>2
    <3> QED BY <1>4, <3>1, <3>2
  <2> QED BY <1>1, <1>2, <2>1, <2>2, TokensStay
<1> QED BY <1>3, <1>4

LEMMA ServeLoginTokens == ASSUME TokensInv, NEW t \in AuthTabs, ServeLogin(t) PROVE TokensInv'
<1>0. /\ 0 \in 0..MaxTokens /\ MaxTokens \in Nat /\ issued \in Nat
      /\ access \in Cookie /\ login \in [AuthTabs -> Login] /\ logout \in [AuthTabs -> Logout]
      /\ login[t] \in Login /\ sessionLive \in BOOLEAN
  BY TokensAssumption DEF TokensInv, TokensTypeOK
<1>1. UNCHANGED <<refreshes, refreshPromise, logout, access, token, spent>>
  BY DEF ServeLogin
<1>2. CASE login' = [login EXCEPT ![t].answer = "401"] /\ UNCHANGED <<issued, sessionLive>>
  <2>1. [login[t] EXCEPT !.answer = "401"] \in Login
    BY <1>0 DEF Login, Answer
  <2>2. login' \in [AuthTabs -> Login] /\ login'[t].answer = "401"
    BY <1>0, <1>2, <2>1 DEF Login
  <2>3. \A u \in AuthTabs : login'[u].answer = "ok" => login'[u] = login[u]
    BY <1>0, <1>2, <2>2
  <2> QED BY <1>0, <1>1, <1>2, <2>2, <2>3, TokensStay
<1>3. CASE /\ issued < MaxTokens /\ issued' = issued + 1 /\ sessionLive' = TRUE
           /\ \E answer \in {"ok", "lost"} :
                login' = [login EXCEPT ![t] = [answer |-> answer, token |-> issued + 1]]
  <2>0. PICK new \in Nat : new = issued + 1
    BY <1>0
  <2>1. new \in 0..MaxTokens /\ issued' = new
    BY <1>0, <1>3, <2>0
  <2>2. /\ login' \in [AuthTabs -> Login] /\ login'[t].token = new
        /\ \A u \in AuthTabs : u # t => login'[u] = login[u]
    BY <1>0, <1>3, <2>0, <2>1 DEF Login, Answer
  <2>3. TokensTypeOK'
    BY <1>1, <1>3, <2>1, <2>2 DEF TokensInv, TokensTypeOK
  <2>4. OneRefresh'
    BY <1>1 DEF TokensInv, OneRefresh
  <2>5. /\ token \in Nat /\ token <= issued /\ \A n \in spent : n \in Nat /\ n <= issued
        /\ \A s \in refreshes : s.token \in Nat /\ s.token <= issued
    BY <1>0 DEF TokensInv, TokensTypeOK, TokensIssued, Refresh
  <2>6. TokensIssued'
    BY <1>0, <1>1, <1>3, <2>5 DEF TokensInv, TokensIssued
  <2>7. \A n : Unsent(n) => Unsent(n)' /\ n # new
    BY <1>0, <1>1, <2>0, <2>1 DEF Unsent
  <2>8. Unsent(new)'
    BY <1>0, <1>1, <2>0, <2>1, <2>5 DEF Unsent
  <2>9. ArrivingIsFresh'
    <3>1. ASSUME NEW u \in AuthTabs, login'[u].answer = "ok" PROVE
            /\ Unsent(login[u].token)'
            /\ \A v \in AuthTabs : login'[v].answer = "ok" /\ login'[v].token = login'[u].token => v = u
      <4>1. CASE u = t
        BY <2>2, <2>7, <2>8, <4>1 DEF TokensInv, ArrivingIsFresh
      <4>2. CASE u # t
        BY <2>2, <2>7, <3>1, <4>2 DEF TokensInv, ArrivingIsFresh
      <4> QED BY <4>1, <4>2
    <3>2. ASSUME NEW r \in refreshes, r.answer = "ok" PROVE
            /\ Unsent(r.new)' /\ r.token # 0
            /\ \A s \in refreshes : s.answer = "ok" /\ s.new = r.new => s = r
            /\ \A u \in AuthTabs : login'[u].answer = "ok" => login'[u].token # r.new
      BY <2>2, <2>7, <3>2 DEF TokensInv, ArrivingIsFresh
    <3> QED BY <1>1, <3>1, <3>2 DEF ArrivingIsFresh
  <2> QED BY <2>3, <2>4, <2>6, <2>9 DEF TokensInv
<1> QED BY <1>2, <1>3 DEF ServeLogin

(* An answer reaches AuthProvider: login's brings its token. *)
LEMMA AnsweredTokens ==
  ASSUME TokensInv, NEW t \in AuthTabs, LoginAnswered(t) \/ LogoutAnswered(t)
  PROVE  TokensInv'
<1>0. MaxTokens \in Nat /\ 0 \in 0..MaxTokens
  BY TokensAssumption
<1>1. /\ UNCHANGED <<refreshes, refreshPromise, issued, sessionLive, spent>>
      /\ refreshes' = refreshes \ {}
  BY DEF LoginAnswered, LogoutAnswered
<1>2. /\ refreshPromise \in [Tabs -> BOOLEAN] /\ \A r \in refreshes : refreshPromise[r.tab]
      /\ spent \subseteq 1..MaxTokens /\ issued \in Nat
      /\ login \in [AuthTabs -> Login] /\ logout \in [AuthTabs -> Logout]
      /\ access \in Cookie /\ token \in 0..MaxTokens /\ token <= issued /\ token \notin spent
      /\ NoLogin \in Login /\ NoLogin.answer = "none" /\ NoLogout \in Logout
  BY <1>0 DEF TokensInv, TokensTypeOK, OneRefresh, TokensIssued, NoLogin, Login, NoLogout,
              Logout, Cookie
<1>3. /\ \A r \in refreshes : r.answer = "ok" => Unsent(r.new)
      /\ \A u \in AuthTabs : login[u].answer = "ok" => Unsent(login[u].token)
  BY DEF TokensInv, ArrivingIsFresh
<1>4. \A n : Unsent(n) => n # token /\ n # 0 /\ n <= issued /\ n \notin spent
  BY <1>2 DEF Unsent
<1>5. login' \in [AuthTabs -> Login] /\ logout' \in [AuthTabs -> Logout]
  BY <1>2 DEF LoginAnswered, LogoutAnswered
<1>6. CASE LoginAnswered(t)
  <2>1. \A u \in AuthTabs : login'[u].answer = "ok" => u # t /\ login'[u] = login[u]
    BY <1>2, <1>6 DEF LoginAnswered
  <2>2. CASE login[t].answer = "ok"
    <3>1. token' = login[t].token /\ access' \in Cookie
      BY <1>6, <2>2 DEF LoginAnswered, Cookie
    <3>2. token' \in 0..MaxTokens
      BY <1>2, <3>1 DEF Login
    <3>3. /\ \A u \in AuthTabs : login'[u].answer = "ok" => login[u].token # token'
          /\ \A r \in refreshes : r.answer = "ok" => r.new # token'
      BY <2>1, <2>2, <3>1 DEF TokensInv, ArrivingIsFresh
    <3> QED BY <1>1, <1>2, <1>3, <1>4, <1>5, <2>1, <2>2, <3>1, <3>2, <3>3, CookieMoves
  <2>3. CASE login[t].answer # "ok"
    <3>1. UNCHANGED <<access, token>>
      BY <1>6, <2>3 DEF LoginAnswered
    <3> QED BY <1>1, <1>2, <1>3, <1>4, <1>5, <2>1, <3>1, CookieMoves
  <2> QED BY <2>2, <2>3
<1>7. CASE LogoutAnswered(t)
  <2>1. login' = login /\ access' \in Cookie /\ token' \in {0, token}
    BY <1>2, <1>7 DEF LogoutAnswered, Cookie
  <2>2. token' \in 0..MaxTokens /\ token' <= issued /\ token' \notin spent
    BY <1>0, <1>2, <2>1
  <2> QED BY <1>1, <1>2, <1>3, <1>4, <1>5, <2>1, <2>2, CookieMoves
<1> QED BY <1>6, <1>7

LEMMA AccessExpiresTokens == ASSUME TokensInv, AccessExpires PROVE TokensInv'
<1>1. logout' = [t \in AuthTabs |-> [logout[t] EXCEPT !.access = Expired(logout[t].access)]]
  BY DEF AccessExpires
<1>2. ASSUME NEW t \in AuthTabs PROVE logout'[t] \in Logout
  <2>1. logout[t] \in Logout
    BY DEF TokensInv, TokensTypeOK
  <2>2. Expired(logout[t].access) \in Cookie
    BY <2>1 DEF Expired, Logout, Cookie
  <2>3. logout'[t] = [logout[t] EXCEPT !.access = Expired(logout[t].access)]
    BY <1>1
  <2> QED BY <2>1, <2>2, <2>3 DEF Logout
<1>3. logout' \in [AuthTabs -> Logout]
  BY <1>1, <1>2
<1>4. /\ UNCHANGED <<refreshes, refreshPromise, login, token, issued, sessionLive, spent>>
      /\ access' \in Cookie /\ sessionLive \in BOOLEAN /\ login \in [AuthTabs -> Login]
  BY DEF AccessExpires, TokensInv, TokensTypeOK, Cookie
<1> QED BY <1>3, <1>4, TokensStay

LEMMA OtherStepsTokens ==
  ASSUME TokensInv,
         \/ \E c \in Calls : StartCall(c) \/ ServeCall(c)
         \/ SessionRevoked \/ UNCHANGED portalVars
  PROVE  TokensInv' /\ UNCHANGED refreshes
<1>1. UNCHANGED <<refreshes, refreshPromise, login, logout, access, token, issued, spent>>
  BY DEF StartCall, ServeCall, SessionRevoked, portalVars
<1>2. sessionLive' \in BOOLEAN
  BY DEF StartCall, ServeCall, SessionRevoked, portalVars, TokensInv, TokensTypeOK
<1>3. access \in Cookie /\ login \in [AuthTabs -> Login] /\ logout \in [AuthTabs -> Logout]
  BY DEF TokensInv, TokensTypeOK
<1> QED BY <1>1, <1>2, <1>3, TokensStay

LEMMA PortalStep ==
  ASSUME PortalInv, [PortalNext]_portalVars
  PROVE  PortalInv' /\ SendsUnspent
<1>0. TokensInv /\ CallsInv /\ access \in Cookie /\ refreshes \subseteq Refresh
  BY DEF PortalInv, TokensInv, TokensTypeOK
<1>1. ASSUME NEW c \in Calls, CallAnswered(c) PROVE TokensInv' /\ SendsUnspent
  BY <1>1, CallAnsweredTokens
<1>2. ASSUME NEW r \in refreshes, ServeRefresh(r) \/ RefreshAnswered(r)
      PROVE  TokensInv' /\ SendsUnspent
  BY <1>0, <1>2, ServeRefreshTokens, RefreshAnsweredTokens
<1>3. UNCHANGED refreshes => SendsUnspent
  BY DEF SendsUnspent
<1>4. ASSUME NEW t \in AuthTabs,
             \/ AskLogin(t) \/ ServeLogin(t) \/ LoginAnswered(t)
             \/ AskLogout(t) \/ ServeLogout(t) \/ LogoutAnswered(t)
      PROVE  TokensInv' /\ SendsUnspent
  <2>1. UNCHANGED refreshes
    BY <1>4 DEF AskLogin, ServeLogin, LoginAnswered, AskLogout, ServeLogout, LogoutAnswered
  <2> QED BY <1>0, <1>3, <1>4, <2>1, AuthStay, ServeLoginTokens, AnsweredTokens
<1>5. CASE AccessExpires
  <2>1. UNCHANGED refreshes
    BY <1>5 DEF AccessExpires
  <2> QED BY <1>0, <1>3, <1>5, <2>1, AccessExpiresTokens, CallsStep DEF PortalInv
<1>6. ASSUME \/ \E c \in Calls : StartCall(c) \/ ServeCall(c)
             \/ SessionRevoked \/ UNCHANGED portalVars
      PROVE  TokensInv' /\ SendsUnspent
  BY <1>0, <1>3, <1>6, OtherStepsTokens
<1>7. TokensInv' /\ SendsUnspent
  BY <1>1, <1>2, <1>4, <1>5, <1>6, Zenon DEF PortalNext, PortalInv
<1> QED BY <1>0, <1>7, CallsStep DEF PortalInv

(***************************************************************************)
(* The portal keeps its inductive invariant.                               *)
(***************************************************************************)
THEOREM PortalInvariance == PortalSpec => []PortalInv
<1>1. PortalInit => PortalInv
  BY CallsInitInv, TokensInitInv DEF PortalInv
<1>2. PortalInv /\ [PortalNext]_portalVars => PortalInv'
  BY PortalStep
<1> QED BY <1>1, <1>2, PTL DEF PortalSpec

(***************************************************************************)
(* For any number of calls under way, what api reports of a call is what   *)
(* the server did, whatever is refreshed, retried, lost or revoked between *)
(* the call and its answer.                                                *)
(***************************************************************************)
THEOREM ApiReportsWhatHappened == PortalSpec => []ReportsWhatHappened
<1>1. PortalInv => ReportsWhatHappened
  BY DEF PortalInv, CallsInv, Tells, ReportsWhatHappened
<1> QED BY <1>1, PortalInvariance, PTL

(***************************************************************************)
(* For any number of tabs, calls and tokens: a tab sends no refresh token  *)
(* that it awaits the answer for, as its refreshPromise is cleared only    *)
(* with the answer, and no tab sends one the browser has the successor of, *)
(* as the answer brings the new cookie along.  That another tab sends the  *)
(* same token meanwhile, or a tab after a lost or refused answer, is left  *)
(* open, as the code leaves it (refreshSession).                           *)
(***************************************************************************)
THEOREM TabsShareTheirRefresh == PortalSpec => RefreshIsShared
<1>1. PortalInv /\ [PortalNext]_portalVars =>
        [\A r \in refreshes' \ refreshes : r.answer = "open" =>
           /\ r.token \notin spent
           /\ \A q \in refreshes : q.tab = r.tab => q.token # r.token]_portalVars
  BY PortalStep DEF SendsUnspent
<1>2. PortalInv /\ [PortalNext]_portalVars => PortalInv'
  BY PortalStep
<1> QED BY <1>1, <1>2, PortalInvariance, PTL DEF PortalSpec, RefreshIsShared

-----------------------------------------------------------------------------
(* RailwayMigrate: what a successful deploy has left in the database.       *)

(* A set of numbers has a smallest one: the CHOOSE of the next migration is *)
(* one of those it chooses from.                                            *)
LEMMA SmallestOf ==
  ASSUME NEW S, S \subseteq Nat, S # {}
  PROVE  \E n \in S : \A k \in S : n <= k
<1>1. PICK n \in S : \A k \in S : ~(<<k, n>> \in OpToRel(<, Nat))
  BY NatLessThanWellFounded, WFMin
<1>2. \A k \in S : ~(k < n)
  BY <1>1 DEF OpToRel
<1> QED BY <1>2

(* db push starts from an empty database, and resolve runs on one that db  *)
(* push has finished.                                                      *)
PushThenResolve ==
  /\ script = "push" => tables \subseteq Listed
  /\ script = "resolve" => Listed \subseteq tables

AppliedHasTables == \A n \in Migrations : migrationRow[n] = "applied" => n \in tables

SucceededIsRecorded ==
  outcome = "succeeded" => \A n \in Listed : migrationRow[n] = "applied"

MigrateInv ==
  MigrateTypeOK /\ PushThenResolve /\ AppliedHasTables /\ SucceededIsRecorded

LEMMA MigrateInitInv == MigrateInit => MigrateInv
<1> SUFFICES ASSUME MigrateInit PROVE MigrateInv
  OBVIOUS
<1>1. tables \subseteq Migrations
  BY DEF MigrateInit
<1>2. MigrateTypeOK
  BY <1>1 DEF MigrateInit, MigrateTypeOK, Step
<1> QED BY <1>2 DEF MigrateInit, MigrateInv, PushThenResolve, AppliedHasTables, SucceededIsRecorded

LEMMA ListedAreMigrations ==
  ASSUME MigrateInv
  PROVE  Listed \subseteq Migrations /\ Migrations \subseteq Nat
BY ShippedAssumption DEF MigrateInv, MigrateTypeOK, Listed, Migrations

LEMMA NextIsUnrecorded ==
  ASSUME MigrateInv, Unrecorded # {}
  PROVE  NextUnrecorded \in Listed /\ migrationRow[NextUnrecorded] = "none"
<1>1. Unrecorded \subseteq Nat
  BY ListedAreMigrations DEF Unrecorded
<1>2. \E n \in Unrecorded : \A k \in Unrecorded : n <= k
  BY <1>1, SmallestOf
<1>3. NextUnrecorded \in Unrecorded
  BY <1>2 DEF NextUnrecorded
<1> QED BY <1>3 DEF Unrecorded

(* The order of the calls, and where each leads. *)
LEMMA BootstrapCalls ==
  /\ BootstrapOrder[1] = "push" /\ Following("push") = "resolve"
  /\ Following("resolve") = "deploy"
<1>1. BootstrapOrder[1] = "push" /\ BootstrapOrder[2] = "resolve" /\ BootstrapOrder[3] = "deploy"
  BY DEF BootstrapOrder
<1>2. \A i \in 1..2 : i = 1 \/ i = 2
  OBVIOUS
<1>3. (CHOOSE i \in 1..2 : BootstrapOrder[i] = "push") = 1
  BY <1>1, <1>2
<1>4. (CHOOSE i \in 1..2 : BootstrapOrder[i] = "resolve") = 2
  BY <1>1, <1>2
<1> QED BY <1>1, <1>3, <1>4 DEF Following

(* Steps that change neither the rows nor the image. *)
LEMMA ScriptMovesOn ==
  ASSUME MigrateInv, UNCHANGED <<shipped, migrationRow, rawSql>>,
         tables \subseteq tables', tables' \subseteq Migrations,
         historyTable' \in BOOLEAN, script' \in Step, outcome' \in {outcome, "failed"},
         script' = "push" => tables' \subseteq Listed,
         script' = "resolve" => Listed \subseteq tables'
  PROVE  MigrateInv'
<1>1. MigrateTypeOK'
  BY DEF MigrateInv, MigrateTypeOK
<1> QED BY <1>1 DEF MigrateInv, PushThenResolve, AppliedHasTables, SucceededIsRecorded, Listed

LEMMA ShipInv == ASSUME MigrateInv, ShipMigration PROVE MigrateInv'
<1>1. shipped + 1 \in 0..MaxShipped
  BY ShippedAssumption DEF ShipMigration, MigrateInv, MigrateTypeOK
<1>2. MigrateTypeOK'
  BY <1>1 DEF ShipMigration, MigrateInv, MigrateTypeOK, Database
<1> QED BY <1>2 DEF ShipMigration, MigrateInv, PushThenResolve, AppliedHasTables,
                    SucceededIsRecorded, Database

LEMMA ReadInv ==
  ASSUME MigrateInv, StartScript \/ ReadDatabaseState \/ Interrupted
  PROVE  MigrateInv'
<1>1. UNCHANGED <<shipped, tables, rawSql, historyTable, migrationRow>>
  BY DEF StartScript, ReadDatabaseState, Interrupted, Database
<1>2. script' \in {"read", "deploy", "push", "off"} /\ outcome' \in {outcome, "failed"}
  BY BootstrapCalls DEF StartScript, ReadDatabaseState, Interrupted, End
<1>3. tables \subseteq Migrations /\ historyTable \in BOOLEAN
  BY DEF MigrateInv, MigrateTypeOK
<1>4. script' = "push" => tables = {}
  BY <1>3, BootstrapCalls DEF StartScript, ReadDatabaseState, Interrupted, End, MigrationAction
<1> QED BY <1>1, <1>2, <1>3, <1>4, ScriptMovesOn DEF Step

LEMMA DbPushInv == ASSUME MigrateInv, DbPush PROVE MigrateInv'
<1>0. /\ UNCHANGED <<shipped, rawSql, historyTable, migrationRow, outcome>>
      /\ tables \subseteq Migrations /\ historyTable \in BOOLEAN
  BY DEF DbPush, MigrateInv, MigrateTypeOK
<1>1. CASE tables = Listed
  BY <1>0, <1>1, BootstrapCalls, ScriptMovesOn DEF DbPush, Step
<1>2. CASE tables # Listed
  <2> DEFINE n == CHOOSE n \in Listed \ tables : \A k \in Listed \ tables : n <= k
  <2>1. tables' = tables \cup {n} /\ script' = "push"
    BY <1>2 DEF DbPush
  <2>2. tables \subseteq Listed /\ Listed \ tables # {}
    BY <1>2 DEF DbPush, MigrateInv, PushThenResolve
  <2>3. n \in Listed \ tables
    <3>1. Listed \ tables \subseteq Nat
      BY ListedAreMigrations
    <3>2. \E m \in Listed \ tables : \A k \in Listed \ tables : m <= k
      BY <2>2, <3>1, SmallestOf
    <3> QED BY <3>2
  <2> HIDE DEF n
  <2>4. tables' \subseteq Migrations /\ tables' \subseteq Listed
    BY <1>0, <2>1, <2>2, <2>3, ListedAreMigrations
  <2> QED BY <1>0, <2>1, <2>4, ScriptMovesOn DEF Step
<1> QED BY <1>1, <1>2

(* A row that was not there yet, or was started, is written. *)
LEMMA RecordInv ==
  ASSUME MigrateInv, NEW n \in Migrations, NEW state \in {"started", "applied"},
         migrationRow[n] # "applied",
         migrationRow' = [migrationRow EXCEPT ![n] = state],
         state = "applied" => n \in tables',
         tables \subseteq tables', tables' \subseteq Migrations, rawSql' \subseteq Migrations,
         UNCHANGED <<shipped, historyTable, outcome>>,
         script' \in Step, script' # "push", script' = "resolve" => script = "resolve"
  PROVE  MigrateInv'
<1>1. /\ migrationRow' \in [Migrations -> {"none", "started", "applied"}]
      /\ migrationRow'[n] = state
      /\ \A k \in Migrations : k # n => migrationRow'[k] = migrationRow[k]
  BY DEF MigrateInv, MigrateTypeOK
<1>2. MigrateTypeOK'
  BY <1>1 DEF MigrateInv, MigrateTypeOK
<1>3. PushThenResolve' /\ AppliedHasTables'
  BY <1>1 DEF MigrateInv, PushThenResolve, AppliedHasTables, Listed
<1>4. SucceededIsRecorded'
  <2>1. Listed \subseteq Migrations
    BY ListedAreMigrations
  <2> QED BY <1>1, <2>1 DEF MigrateInv, SucceededIsRecorded, Listed
<1> QED BY <1>2, <1>3, <1>4 DEF MigrateInv

LEMMA MigrateResolveInv == ASSUME MigrateInv, MigrateResolve PROVE MigrateInv'
<1>0. /\ script = "resolve" /\ UNCHANGED <<shipped, tables, rawSql, outcome>>
      /\ tables \subseteq Migrations /\ rawSql \subseteq Migrations
      /\ historyTable \in BOOLEAN /\ Listed \subseteq tables
  BY DEF MigrateResolve, MigrateInv, MigrateTypeOK, PushThenResolve
<1>1. CASE historyTable' = TRUE /\ UNCHANGED <<migrationRow, script>>
  BY <1>0, <1>1, ScriptMovesOn DEF Step
<1>2. CASE /\ Unrecorded # {} /\ UNCHANGED <<historyTable, script>>
           /\ migrationRow' = [migrationRow EXCEPT ![NextUnrecorded] = "applied"]
  <2>1. /\ NextUnrecorded \in Migrations /\ NextUnrecorded \in tables'
        /\ migrationRow[NextUnrecorded] = "none"
    BY <1>0, <1>2, NextIsUnrecorded
  <2> QED BY <1>0, <1>2, <2>1, RecordInv DEF Step
<1>3. CASE script' = Following("resolve") /\ UNCHANGED <<historyTable, migrationRow>>
  BY <1>0, <1>3, BootstrapCalls, ScriptMovesOn DEF Step
<1> QED BY <1>1, <1>2, <1>3 DEF MigrateResolve

LEMMA DeployStartsInv == ASSUME MigrateInv, DeployStarts PROVE MigrateInv'
<1>0. /\ script = "deploy" /\ UNCHANGED <<shipped, tables, rawSql, historyTable>>
      /\ tables \subseteq Migrations /\ rawSql \subseteq Migrations /\ historyTable \in BOOLEAN
  BY DEF DeployStarts, MigrateInv, MigrateTypeOK
<1>1. CASE End("failed") /\ UNCHANGED migrationRow
  BY <1>0, <1>1, ScriptMovesOn DEF End, Step
<1>2. CASE Started = {} /\ Unrecorded = {} /\ End("succeeded") /\ UNCHANGED migrationRow
  <2>1. \A n \in Listed : migrationRow[n] = "applied"
    BY <1>2, ListedAreMigrations DEF Started, Unrecorded, MigrateInv, MigrateTypeOK
  <2>2. MigrateTypeOK'
    BY <1>0, <1>2 DEF End, Step, MigrateInv, MigrateTypeOK
  <2>3. PushThenResolve' /\ AppliedHasTables' /\ SucceededIsRecorded'
    BY <1>0, <1>2, <2>1 DEF End, MigrateInv, PushThenResolve, AppliedHasTables,
                            SucceededIsRecorded, Listed
  <2> QED BY <2>2, <2>3 DEF MigrateInv
<1>3. CASE /\ Unrecorded # {} /\ script' = "applying" /\ UNCHANGED outcome
           /\ migrationRow' = [migrationRow EXCEPT ![NextUnrecorded] = "started"]
  <2>1. NextUnrecorded \in Migrations /\ migrationRow[NextUnrecorded] = "none"
    BY <1>3, NextIsUnrecorded, ListedAreMigrations
  <2> QED BY <1>0, <1>3, <2>1, RecordInv DEF Step
<1> QED BY <1>1, <1>2, <1>3 DEF DeployStarts

LEMMA DeployAppliesInv == ASSUME MigrateInv, DeployApplies PROVE MigrateInv'
<1>0. /\ script = "applying" /\ UNCHANGED <<shipped, historyTable>>
      /\ tables \subseteq Migrations /\ rawSql \subseteq Migrations /\ historyTable \in BOOLEAN
  BY DEF DeployApplies, MigrateInv, MigrateTypeOK
<1>1. PICK n \in Started :
       \/ /\ tables' = tables \cup {n} /\ rawSql' = rawSql \cup {n}
          /\ migrationRow' = [migrationRow EXCEPT ![n] = "applied"]
          /\ script' = "deploy" /\ UNCHANGED outcome
       \/ End("failed") /\ UNCHANGED <<tables, rawSql, migrationRow>>
  BY DEF DeployApplies
<1>2. n \in Migrations /\ migrationRow[n] = "started"
  BY DEF Started
<1>3. CASE /\ tables' = tables \cup {n} /\ rawSql' = rawSql \cup {n}
           /\ migrationRow' = [migrationRow EXCEPT ![n] = "applied"]
           /\ script' = "deploy" /\ UNCHANGED outcome
  BY <1>0, <1>2, <1>3, RecordInv DEF Step
<1>4. CASE End("failed") /\ UNCHANGED <<tables, rawSql, migrationRow>>
  BY <1>0, <1>4, ScriptMovesOn DEF End, Step
<1> QED BY <1>1, <1>3, <1>4

(***************************************************************************)
(* The deploy script keeps its inductive invariant.                        *)
(***************************************************************************)
THEOREM MigrateInvariance == MigrateSpec => []MigrateInv
<1>1. MigrateInit => MigrateInv
  BY MigrateInitInv
<1>2. MigrateInv /\ [MigrateNext]_migrateVars => MigrateInv'
  <2> SUFFICES ASSUME MigrateInv, [MigrateNext]_migrateVars PROVE MigrateInv'
    OBVIOUS
  <2>1. CASE UNCHANGED migrateVars
    BY <2>1 DEF migrateVars, MigrateInv, MigrateTypeOK, PushThenResolve, AppliedHasTables,
                SucceededIsRecorded, Listed
  <2> QED BY <2>1, ShipInv, ReadInv, DbPushInv, MigrateResolveInv, DeployStartsInv,
             DeployAppliesInv DEF MigrateNext
<1> QED BY <1>1, <1>2, PTL DEF MigrateSpec

(***************************************************************************)
(* For any number of migrations and deploys, a script that reports success *)
(* has left every migration of its image recorded and its tables there,    *)
(* wherever it and its predecessors were interrupted.                      *)
(***************************************************************************)
THEOREM SuccessfulDeploysAreCurrent == MigrateSpec => []SuccessMeansCurrent
<1>1. MigrateInv => SuccessMeansCurrent
  BY ListedAreMigrations
     DEF MigrateInv, SucceededIsRecorded, AppliedHasTables, SuccessMeansCurrent
<1> QED BY <1>1, MigrateInvariance, PTL

-----------------------------------------------------------------------------
(* DebugEvents: what the unattended prune deletes.                          *)

(* What a prune has read is still expired, or gone for good. *)
CondemnedAreExpired ==
  \A ids \in prunes : \A i \in ids :
    i \in usedIds /\ (i \in Stored => ExpiredRow(i))

RowsTypeOK ==
  /\ debugNow \in 0..MaxDebugTime
  /\ debugRow \in [RowIds -> DebugRow \cup {NoDebugRow}]
  /\ Stored \subseteq usedIds /\ usedIds \subseteq RowIds
  /\ prunes \subseteq SUBSET RowIds

PruneInv == RowsTypeOK /\ CondemnedAreExpired

LEMMA PruneInitInv == DebugInit => PruneInv
<1> SUFFICES ASSUME DebugInit PROVE PruneInv
  OBVIOUS
<1>1. debugNow \in 0..MaxDebugTime
  BY DebugAssumption DEF DebugInit
<1>2. debugRow \in [RowIds -> DebugRow \cup {NoDebugRow}] /\ Stored = {}
  BY DEF DebugInit, Stored
<1> QED BY <1>1, <1>2 DEF DebugInit, PruneInv, RowsTypeOK, CondemnedAreExpired

LEMMA DebugRowFacts ==
  /\ \A row \in DebugRow : row # NoDebugRow /\ row.at \in Nat
  /\ \A row \in DebugRow, m \in BOOLEAN :
       UpdatedRow(row, m) \in DebugRow /\ UpdatedRow(row, m).at = row.at
<1>1. \A row \in DebugRow : row # NoDebugRow /\ row.at \in Nat
  BY DebugAssumption DEF DebugRow, NoDebugRow
<1>2. ASSUME NEW row \in DebugRow, NEW m \in BOOLEAN
      PROVE  UpdatedRow(row, m) \in DebugRow /\ UpdatedRow(row, m).at = row.at
  BY DEF DebugRow, UpdatedRow
<1> QED BY <1>1, <1>2

(* Steps after which every id that was in use is free or holds a row that  *)
(* was received when its row was.                                          *)
LEMMA RowsMoveOn ==
  ASSUME PruneInv, debugRow' \in [RowIds -> DebugRow \cup {NoDebugRow}],
         debugNow' \in 0..MaxDebugTime, debugNow <= debugNow',
         usedIds \subseteq usedIds', usedIds' \subseteq RowIds,
         \A i \in RowIds : i \notin usedIds' => debugRow'[i] = NoDebugRow,
         \A i \in usedIds : \/ debugRow'[i] = NoDebugRow
                            \/ debugRow[i] \in DebugRow /\ debugRow'[i].at = debugRow[i].at,
         \A ids \in prunes' : \/ ids \in prunes
                              \/ ids \subseteq {i \in Stored : ExpiredRow(i)}
  PROVE  PruneInv'
<1>0. /\ debugNow \in Nat /\ debugNow' \in Nat /\ Retention \in Nat
      /\ debugRow \in [RowIds -> DebugRow \cup {NoDebugRow}] /\ usedIds \subseteq RowIds
      /\ Stored \subseteq usedIds
  BY DebugAssumption DEF PruneInv, RowsTypeOK
<1>1. RowsTypeOK'
  <2>1. Stored' \subseteq usedIds'
    BY DEF Stored
  <2>2. prunes' \subseteq SUBSET RowIds
    BY DEF PruneInv, RowsTypeOK, Stored
  <2> QED BY <2>1, <2>2 DEF RowsTypeOK
<1>2. CondemnedAreExpired'
  <2> SUFFICES ASSUME NEW ids \in prunes', NEW i \in ids
               PROVE  i \in usedIds' /\ (i \in Stored' => ExpiredRow(i)')
    BY DEF CondemnedAreExpired
  <2>1. i \in usedIds /\ (i \in Stored => ExpiredRow(i))
    <3>1. CASE ids \in prunes
      BY <3>1 DEF PruneInv, CondemnedAreExpired
    <3>2. CASE ids \subseteq {j \in Stored : ExpiredRow(j)}
      BY <1>0, <3>2
    <3> QED BY <3>1, <3>2
  <2>2. ASSUME i \in Stored' PROVE ExpiredRow(i)'
    <3>1. debugRow'[i] # NoDebugRow
      BY <2>2 DEF Stored
    <3>2. debugRow[i] \in DebugRow /\ debugRow'[i].at = debugRow[i].at
      BY <2>1, <3>1
    <3>3. i \in Stored
      BY <1>0, <2>1, <3>2, DebugRowFacts DEF Stored
    <3>4. debugRow[i].at \in Nat /\ debugRow[i].at + Retention < debugNow
      BY <2>1, <3>2, <3>3, DebugRowFacts DEF ExpiredRow
    <3> QED BY <1>0, <3>2, <3>4 DEF ExpiredRow
  <2> QED BY <2>1, <2>2
<1> QED BY <1>1, <1>2 DEF PruneInv

(* The facts about the rows that a step leaves alone. *)
LEMMA RowsAsTheyAre ==
  ASSUME PruneInv
  PROVE  /\ debugRow \in [RowIds -> DebugRow \cup {NoDebugRow}]
         /\ debugNow \in 0..MaxDebugTime /\ debugNow <= debugNow /\ debugNow \in Nat
         /\ usedIds \subseteq RowIds
         /\ \A i \in RowIds : i \notin usedIds => debugRow[i] = NoDebugRow
         /\ \A i \in usedIds : debugRow[i] = NoDebugRow \/ debugRow[i] \in DebugRow
BY DebugAssumption DEF PruneInv, RowsTypeOK, Stored

LEMMA StartPruneAdds ==
  ASSUME StartPrune, NEW ids \in prunes'
  PROVE  ids \in prunes \/ ids = {}
BY DEF StartPrune

LEMMA IngestPrune ==
  ASSUME PruneInv, NEW batch \in SUBSET ClientEvents, NEW m \in BOOLEAN, IngestBatch(batch, m)
  PROVE  /\ PruneInv'
         /\ \A i \in usedIds : \/ debugRow'[i] = NoDebugRow
                               \/ debugRow[i] \in DebugRow /\ debugRow'[i].at = debugRow[i].at
<1> DEFINE new == {e \in batch : RowsOfEvent(e) = {}}
<1>1. PICK id \in [new -> RowIds \ usedIds] :
        /\ usedIds' = usedIds \cup {id[e] : e \in new}
        /\ debugRow' = [i \in RowIds |->
             IF \E e \in new : id[e] = i
             THEN CreatedRow(CHOOSE e \in new : id[e] = i, m)
             ELSE IF i \in Stored /\ debugRow[i].event \in batch
                  THEN UpdatedRow(debugRow[i], m)
                  ELSE debugRow[i]]
  BY DEF IngestBatch
<1>2. StartPrune /\ UNCHANGED debugNow
  BY DEF IngestBatch
<1>3. new \subseteq ClientEvents
  OBVIOUS
<1> HIDE DEF new
<1>4. ASSUME NEW i \in RowIds, \E e \in new : id[e] = i
      PROVE  debugRow'[i] \in DebugRow /\ i \notin usedIds
  <2>1. (CHOOSE e \in new : id[e] = i) \in new
    BY <1>4
  <2>2. debugRow'[i] = CreatedRow(CHOOSE e \in new : id[e] = i, m)
    BY <1>1, <1>4
  <2>3. \A e \in ClientEvents : CreatedRow(e, m) \in DebugRow
    BY RowsAsTheyAre DEF CreatedRow, DebugRow
  <2> QED BY <1>3, <1>4, <2>1, <2>2, <2>3
<1>5. ASSUME NEW i \in RowIds, ~\E e \in new : id[e] = i
      PROVE  \/ debugRow'[i] = debugRow[i]
             \/ /\ debugRow[i] \in DebugRow /\ debugRow'[i] \in DebugRow
                /\ debugRow'[i].at = debugRow[i].at
  <2>1. CASE i \in Stored /\ debugRow[i].event \in batch
    <3>1. debugRow'[i] = UpdatedRow(debugRow[i], m)
      BY <1>1, <1>5, <2>1
    <3>2. debugRow[i] \in DebugRow
      BY <2>1, RowsAsTheyAre DEF Stored
    <3> QED BY <3>1, <3>2, DebugRowFacts
  <2>2. CASE ~(i \in Stored /\ debugRow[i].event \in batch)
    BY <1>1, <1>5, <2>2
  <2> QED BY <2>1, <2>2
<1>6. debugRow' \in [RowIds -> DebugRow \cup {NoDebugRow}]
  <2>1. \A i \in RowIds : debugRow'[i] \in DebugRow \cup {NoDebugRow}
    BY <1>4, <1>5, RowsAsTheyAre
  <2> QED BY <1>1, <2>1
<1>7. usedIds' \subseteq RowIds
  BY <1>1, RowsAsTheyAre
<1>8. \A i \in RowIds : i \notin usedIds' => debugRow'[i] = NoDebugRow
  <2> SUFFICES ASSUME NEW i \in RowIds, i \notin usedIds' PROVE debugRow'[i] = NoDebugRow
    OBVIOUS
  <2>1. i \notin usedIds /\ ~\E e \in new : id[e] = i
    BY <1>1
  <2>2. debugRow[i] = NoDebugRow
    BY <2>1, RowsAsTheyAre
  <2> QED BY <1>5, <2>1, <2>2, DebugRowFacts
<1>9. \A i \in usedIds : \/ debugRow'[i] = NoDebugRow
                         \/ debugRow[i] \in DebugRow /\ debugRow'[i].at = debugRow[i].at
  BY <1>4, <1>5, RowsAsTheyAre
<1>10. \A ids \in prunes' : ids \in prunes \/ ids \subseteq {i \in Stored : ExpiredRow(i)}
  BY <1>2, StartPruneAdds
<1> QED BY <1>1, <1>2, <1>6, <1>7, <1>8, <1>9, <1>10, RowsAsTheyAre, RowsMoveOn

LEMMA DeletePrune ==
  ASSUME PruneInv, NEW gone, debugRow' = Without(gone), prunes' \subseteq prunes,
         UNCHANGED <<debugNow, usedIds>>
  PROVE  PruneInv'
<1>1. \A i \in RowIds : debugRow'[i] = NoDebugRow \/ debugRow'[i] = debugRow[i]
  BY DEF Without
<1>2. debugRow' \in [RowIds -> DebugRow \cup {NoDebugRow}]
  BY RowsAsTheyAre DEF Without
<1> QED BY <1>1, <1>2, RowsAsTheyAre, RowsMoveOn

LEMMA RowsStayPrune ==
  ASSUME PruneInv, UNCHANGED <<debugRow, usedIds>>, debugNow' \in 0..MaxDebugTime,
         debugNow <= debugNow',
         \A ids \in prunes' : ids \in prunes \/ ids \subseteq {i \in Stored : ExpiredRow(i)}
  PROVE  PruneInv'
BY RowsAsTheyAre, RowsMoveOn

LEMMA PruneStep ==
  ASSUME PruneInv, [DebugNext]_debugVars
  PROVE  PruneInv'
<1>1. ASSUME NEW batch \in SUBSET ClientEvents, NEW m \in BOOLEAN, IngestBatch(batch, m)
      PROVE  PruneInv'
  BY <1>1, IngestPrune
<1>2. CASE ClockTicks
  <2>1. debugNow' \in 0..MaxDebugTime /\ debugNow <= debugNow'
    BY <1>2, RowsAsTheyAre, DebugAssumption DEF ClockTicks
  <2> QED BY <1>2, <2>1, RowsStayPrune DEF ClockTicks
<1>3. CASE PruneReads
  <2>1. \A ids \in prunes' : ids \in prunes \/ ids \subseteq {i \in Stored : ExpiredRow(i)}
    BY <1>3 DEF PruneReads
  <2> QED BY <1>3, <2>1, RowsAsTheyAre, RowsStayPrune DEF PruneReads
<1>4. CASE PruneExpired \/ UserDeleted
  BY <1>4, DeletePrune DEF PruneExpired, UserDeleted
<1>5. ASSUME NEW ids \in prunes, PruneDeletes(ids) PROVE PruneInv'
  BY <1>5, DeletePrune DEF PruneDeletes
<1>6. ASSUME NEW ids \in prunes, PruneFails(ids) PROVE PruneInv'
  BY <1>6, RowsAsTheyAre, RowsStayPrune DEF PruneFails
<1>7. CASE FetchPage
  BY <1>7, StartPruneAdds, RowsAsTheyAre, RowsStayPrune DEF FetchPage
<1>8. CASE \/ HandleNext \/ HandlePrev \/ HandleFilterChange \/ BackToList
           \/ \E i \in RowIds : GetEvent(i)
           \/ UNCHANGED debugVars
  <2>1. UNCHANGED <<debugNow, debugRow, usedIds, prunes>>
    BY <1>8 DEF HandleNext, HandlePrev, HandleFilterChange, BackToList, GetEvent, debugVars
  <2> QED BY <2>1, RowsAsTheyAre, RowsStayPrune
<1> QED BY <1>1, <1>2, <1>3, <1>4, <1>5, <1>6, <1>7, <1>8, Zenon DEF DebugNext

(***************************************************************************)
(* For any number of events, rows and prunes under way: what a prune has   *)
(* read stays expired until it is deleted, or is gone and never returns.   *)
(***************************************************************************)
THEOREM PruneInvariance == DebugSpec => []PruneInv
<1>1. DebugInit => PruneInv
  BY PruneInitInv
<1>2. PruneInv /\ [DebugNext]_debugVars => PruneInv'
  BY PruneStep
<1> QED BY <1>1, <1>2, PTL DEF DebugSpec

(***************************************************************************)
(* An unattended prune deletes by the ids it has read and never takes an   *)
(* event that is live by then (pruneExpiredBounded): the update of an      *)
(* ingested event leaves its expiry alone, and ids are not used again.     *)
(***************************************************************************)
THEOREM PrunesSpareTheLive == DebugSpec => PruneSparesLive
<1>1. ASSUME PruneInv, NEW ids \in prunes, NEW i \in ids, i \in Stored PROVE ~LiveRow(i)
  <2>1. ExpiredRow(i)
    BY <1>1 DEF PruneInv, CondemnedAreExpired
  <2>2. i \in RowIds /\ debugRow[i] \in DebugRow
    BY <1>1, RowsAsTheyAre DEF Stored
  <2> QED BY <1>1, <2>1, <2>2, RowsAsTheyAre, DebugRowFacts, DebugAssumption DEF ExpiredRow, LiveRow
<1>2. PruneInv /\ [DebugNext]_debugVars =>
        [\A ids \in prunes :
           (prunes' = prunes \ {ids} /\ debugRow' # debugRow)
             => \A i \in ids : i \in Stored => ~LiveRow(i)]_debugVars
  BY <1>1
<1>3. PruneInv /\ [DebugNext]_debugVars => PruneInv'
  BY PruneStep
<1> QED BY <1>2, <1>3, PruneInvariance, PTL DEF DebugSpec, PruneSparesLive

-----------------------------------------------------------------------------
(* DebugEvents: the walk through the pages.                                 *)

(* A row is received once: its place among the others never changes, not    *)
(* even after it has gone.                                                  *)
StampsHold == \A i \in Stored : stamped[i] = debugRow[i].at

Sooner(i, j) == stamped[i] > stamped[j] \/ (stamped[i] = stamped[j] /\ i > j)

(* What a page that was fetched from c leaves over comes after its cursor.  *)
LeavesOver(shown, rows) ==
  rows \subseteq shown.of /\ \A i \in rows : shown.next # 0 /\ Sooner(shown.next, i)

PageCovers(c, shown) ==
  shown # NoPage =>
    /\ c \in usedIds \cup {0} /\ shown.next \in usedIds \cup {0} /\ shown.of \subseteq usedIds
    /\ \A i \in shown.of : c = 0 \/ Sooner(c, i) =>
         i \in shown.items \/ (shown.next # 0 /\ Sooner(shown.next, i))

PagesCover == \A c \in RowIds \cup {0} : PageCovers(c, pages[c])

(* What the walk has still to show comes after every cursor it has used ...  *)
Reached(c, rows) ==
  c # 0 => c \in usedIds /\ rows \subseteq usedIds /\ \A i \in rows : Sooner(c, i)

CursorsAreReached ==
  Reached(cursor, due) /\ \A n \in DOMAIN history : Reached(history[n], due)

(* ... and after the page on show. *)
ShownIsPast == timeline.of = 0 /\ pages[cursor] # NoPage => LeavesOver(pages[cursor], due)

WalkInv == DebugTypeOK /\ StampsHold /\ PagesCover /\ CursorsAreReached /\ ShownIsPast

(* The order of the list: by receivedAt and id, newest first. *)
LEMMA ListOrder ==
  ASSUME RowsTypeOK, NEW i \in Stored, NEW j \in Stored
  PROVE  /\ ~Before(i, i)
         /\ i = j \/ Before(i, j) \/ Before(j, i)
         /\ Before(i, j) => ~Before(j, i)
         /\ \A k \in Stored : Before(i, j) /\ Before(j, k) => Before(i, k)
<1>1. \A k \in Stored : k \in Nat /\ debugRow[k].at \in Nat
  BY DebugAssumption, DebugRowFacts DEF RowsTypeOK, Stored
<1> QED BY <1>1 DEF Before

(* Place counts along the order. *)
LEMMA Places ==
  ASSUME RowsTypeOK, NEW S \in SUBSET Stored
  PROVE  /\ IsFiniteSet(S) /\ Cardinality(S) \in Nat
         /\ \A i \in S : Place(i, S) \in Nat /\ Place(i, S) < Cardinality(S)
         /\ \A i, j \in S : Before(i, j) => Place(i, S) < Place(j, S)
<1>1. IsFiniteSet(S) /\ Cardinality(S) \in Nat
  <2>1. S \in SUBSET RowIds
    BY DEF Stored
  <2> QED BY <2>1, DebugAssumption, FS_Subset, FS_CardinalityType
<1>2. \A i \in S : IsFiniteSet({j \in S : Before(j, i)}) /\ Place(i, S) \in Nat
  BY <1>1, FS_Subset, FS_CardinalityType DEF Place
<1>3. ASSUME NEW i \in S PROVE Place(i, S) < Cardinality(S)
  <2>1. {j \in S : Before(j, i)} \in SUBSET S /\ i \notin {j \in S : Before(j, i)}
    BY ListOrder
  <2>2. /\ Cardinality({j \in S : Before(j, i)}) <= Cardinality(S)
        /\ Cardinality({j \in S : Before(j, i)}) # Cardinality(S)
    BY <1>1, <2>1, FS_Subset
  <2> QED BY <1>1, <1>2, <2>2 DEF Place
<1>4. ASSUME NEW i \in S, NEW j \in S, Before(i, j) PROVE Place(i, S) < Place(j, S)
  <2> DEFINE I == {k \in S : Before(k, i)}  J == {k \in S : Before(k, j)}
  <2>1. I \in SUBSET J /\ i \in J /\ i \notin I
    BY <1>4, ListOrder
  <2>2. Cardinality(I) <= Cardinality(J) /\ Cardinality(I) # Cardinality(J)
    BY <1>2, <2>1, FS_Subset
  <2> QED BY <1>2, <2>2 DEF Place
<1> QED BY <1>1, <1>2, <1>3, <1>4

(* Some of the listed rows have a first and a last one. *)
LEMMA FirstAndLast ==
  ASSUME RowsTypeOK, NEW S \in SUBSET Stored, S # {}
  PROVE  /\ \E i \in S : \A j \in S : j = i \/ Before(i, j)
         /\ \E i \in S : \A j \in S : j = i \/ Before(j, i)
<1>1. /\ Cardinality(S) \in Nat
      /\ \A i \in S : Place(i, S) \in Nat /\ Place(i, S) < Cardinality(S)
      /\ \A i, j \in S : Before(i, j) => Place(i, S) < Place(j, S)
  BY Places
<1>2. \E i \in S : \A j \in S : j = i \/ Before(i, j)
  <2> DEFINE N == {Place(i, S) : i \in S}
  <2>1. N \subseteq Nat /\ N # {}
    BY <1>1
  <2>2. PICK n \in N : \A k \in N : n <= k
    BY <2>1, SmallestOf
  <2>3. PICK i \in S : n = Place(i, S)
    BY <2>2
  <2>4. \A j \in S : Place(i, S) <= Place(j, S)
    BY <2>2, <2>3
  <2>5. \A j \in S : ~Before(j, i)
    BY <1>1, <2>4
  <2> QED BY <2>5, ListOrder
<1>3. \E i \in S : \A j \in S : j = i \/ Before(j, i)
  <2> DEFINE N == {Cardinality(S) - Place(i, S) : i \in S}
  <2>1. N \subseteq Nat /\ N # {}
    BY <1>1
  <2>2. PICK n \in N : \A k \in N : n <= k
    BY <2>1, SmallestOf
  <2>3. PICK i \in S : n = Cardinality(S) - Place(i, S)
    BY <2>2
  <2>4. \A j \in S : Cardinality(S) - Place(i, S) <= Cardinality(S) - Place(j, S)
    BY <2>2, <2>3
  <2>5. \A j \in S : ~Before(i, j)
    BY <1>1, <2>4
  <2> QED BY <2>5, ListOrder
<1> QED BY <1>2, <1>3

(* A page that is not the last has rows: the first of those too far down   *)
(* has at most the skipped one before it otherwise.                        *)
LEMMA PageHasRows ==
  ASSUME RowsTypeOK, NEW S \in SUBSET Stored, NEW skip \in {0, 1},
         Cardinality(S) > skip + PageLimit
  PROVE  PageFrom(S, skip).items # {}
<1> SUFFICES ASSUME \A i \in S : Place(i, S) \notin skip..(skip + PageLimit - 1) PROVE FALSE
  BY DEF PageFrom
<1>1. /\ IsFiniteSet(S) /\ Cardinality(S) \in Nat
      /\ \A i \in S : Place(i, S) \in Nat /\ Place(i, S) < Cardinality(S)
      /\ \A i, j \in S : Before(i, j) => Place(i, S) < Place(j, S)
  BY Places
<1>2. PageLimit \in Nat \ {0}
  BY DebugAssumption
<1> DEFINE far == {i \in S : Place(i, S) # 0}
<1>3. \A i \in S : Place(i, S) # skip
  BY <1>1, <1>2
<1>4. PICK top \in S : \A j \in S : j = top \/ Before(top, j)
  <2>1. S # {}
    BY <1>2, FS_EmptySet
  <2> QED BY <2>1, FirstAndLast
<1>5. far = S \ {top} /\ skip = 1
  <2>1. \A j \in S : ~Before(j, top)
    BY <1>4, ListOrder
  <2>2. {j \in S : Before(j, top)} = {}
    BY <2>1
  <2>3. Place(top, S) = 0
    BY <2>2, FS_EmptySet DEF Place
  <2> QED BY <1>1, <1>3, <1>4, <2>3
<1>6. far # {}
  <2>1. Cardinality(S) > 1
    BY <1>1, <1>2
  <2>2. S # {top}
    BY <2>1, FS_Singleton
  <2> QED BY <1>5, <2>2
<1>7. PICK i \in far : \A j \in far : j = i \/ Before(i, j)
  BY <1>6, FirstAndLast
<1>8. {j \in S : Before(j, i)} = {top}
  BY <1>4, <1>5, <1>7, ListOrder
<1>9. Place(i, S) = 1
  BY <1>8, FS_Singleton DEF Place
<1> QED BY <1>3, <1>5, <1>9

(* What one page shows: after the last page there is nothing left, after   *)
(* another there is nothing left up to its cursor, its last row.           *)
LEMMA PageShows ==
  ASSUME RowsTypeOK, NEW S \in SUBSET Stored, NEW skip \in {0, 1}
  PROVE  LET shown == PageFrom(S, skip) IN
         /\ shown.items \subseteq S
         /\ shown.next \in S \cup {0}
         /\ \A i \in S : Place(i, S) >= skip =>
              \/ i \in shown.items
              \/ shown.next # 0 /\ Before(shown.next, i)
<1> DEFINE shown == PageFrom(S, skip)
           items == {i \in S : Place(i, S) \in skip..(skip + PageLimit - 1)}
           last  == CHOOSE i \in items : \A j \in items : j = i \/ Before(j, i)
<1>1. /\ shown.items = items
      /\ shown.next = IF Cardinality(S) > skip + PageLimit THEN last ELSE 0
  BY DEF PageFrom
<1>2. /\ Cardinality(S) \in Nat
      /\ \A i \in S : Place(i, S) \in Nat /\ Place(i, S) < Cardinality(S)
      /\ \A i, j \in S : Before(i, j) => Place(i, S) < Place(j, S)
  BY Places
<1>3. PageLimit \in Nat \ {0} /\ S \subseteq RowIds /\ 0 \notin RowIds
  BY DebugAssumption DEF Stored
<1> HIDE DEF shown, last
<1>4. CASE Cardinality(S) > skip + PageLimit
  <2>1. items # {}
    BY <1>1, <1>4, PageHasRows DEF shown
  <2>2. \E i \in items : \A j \in items : j = i \/ Before(j, i)
    BY <2>1, FirstAndLast
  <2>3. last \in items /\ \A j \in items : j = last \/ Before(j, last)
    BY <2>2 DEF last
  <2>4. shown.next = last
    BY <1>1, <1>4
  <2>5. ASSUME NEW i \in S, Place(i, S) >= skip, ~Before(last, i) PROVE i \in items
    <3>1. i = last \/ Before(i, last)
      BY <2>3, <2>5, ListOrder
    <3>2. Place(i, S) <= Place(last, S)
      BY <1>2, <2>3, <3>1
    <3> QED BY <1>2, <1>3, <2>3, <2>5, <3>2
  <2> QED BY <1>1, <1>3, <2>3, <2>4, <2>5 DEF shown
<1>5. CASE ~(Cardinality(S) > skip + PageLimit)
  <2>1. \A i \in S : Place(i, S) >= skip => i \in items
    BY <1>2, <1>3, <1>5
  <2>2. shown.next = 0
    BY <1>1, <1>5
  <2> QED BY <1>1, <2>1, <2>2 DEF shown
<1> QED BY <1>4, <1>5

LEMMA WalkInitInv == DebugInit => WalkInv
<1> SUFFICES ASSUME DebugInit PROVE WalkInv
  OBVIOUS
<1>1. RowsTypeOK /\ Stored = {} /\ 0 \in 0..MaxDebugTime
  BY PruneInitInv, DebugAssumption DEF PruneInv, DebugInit, Stored
<1>2. DebugTypeOK
  BY <1>1 DEF DebugInit, DebugTypeOK, RowsTypeOK
<1> QED BY <1>1, <1>2
        DEF DebugInit, WalkInv, StampsHold, PagesCover, PageCovers, CursorsAreReached, Reached,
            ShownIsPast

(* Rows come and go, and the walk stays where it is. *)
LEMMA RowsChangeWalk ==
  ASSUME WalkInv, RowsTypeOK', UNCHANGED <<cursor, history, pages, timeline, due>>,
         usedIds \subseteq usedIds', stamped' \in [RowIds -> 0..MaxDebugTime],
         \A i \in usedIds : stamped'[i] = stamped[i],
         StampsHold'
  PROVE  WalkInv'
<1>1. DebugTypeOK'
  BY DEF WalkInv, DebugTypeOK, RowsTypeOK
<1>2. \A i, j \in usedIds : Sooner(i, j)' <=> Sooner(i, j)
  BY DEF Sooner
<1>3. PagesCover'
  <2> SUFFICES ASSUME NEW c \in RowIds \cup {0}, pages[c] # NoPage PROVE PageCovers(c, pages[c])'
    BY DEF PagesCover, PageCovers
  <2>1. PageCovers(c, pages[c])
    BY DEF WalkInv, PagesCover
  <2> QED BY <1>2, <2>1 DEF PageCovers
<1>4. \A c : Reached(c, due) => Reached(c, due)'
  BY <1>2 DEF Reached
<1>5. CursorsAreReached'
  BY <1>4 DEF WalkInv, CursorsAreReached
<1>6. ShownIsPast'
  <2> SUFFICES ASSUME timeline.of = 0, pages[cursor] # NoPage PROVE LeavesOver(pages[cursor], due)'
    BY DEF ShownIsPast
  <2>1. cursor \in RowIds \cup {0}
    BY DEF WalkInv, DebugTypeOK
  <2>2. LeavesOver(pages[cursor], due) /\ PageCovers(cursor, pages[cursor])
    BY <2>1 DEF WalkInv, PagesCover, ShownIsPast
  <2> QED BY <1>2, <2>2 DEF LeavesOver, PageCovers
<1> QED BY <1>1, <1>3, <1>5, <1>6 DEF WalkInv

(* A page comes on show where the walk has arrived. *)
LEMMA ComesOnShow ==
  ASSUME NEW c, NEW rows, NEW shown, PageCovers(c, shown), Reached(c, rows)
  PROVE  /\ DueAfter(rows, shown) \subseteq rows
         /\ shown # NoPage => LeavesOver(shown, DueAfter(rows, shown))
BY DEF DueAfter, PageCovers, Reached, LeavesOver

(* What FetchPage keeps: its page shows what comes after the cursor. *)
LEMMA FetchedPage ==
  ASSUME WalkInv, NEW shown, cursor \in usedIds \cup {0},
         shown = [items |-> ListEvents(cursor).items, next |-> ListEvents(cursor).next,
                 of |-> ListedFrom(cursor)]
  PROVE  shown \in Page /\ PageCovers(cursor, shown)
<1> DEFINE fetched == ListEvents(cursor)
<1>1. RowsTypeOK
  BY DEF WalkInv, DebugTypeOK, RowsTypeOK
<1>2. /\ Listable \in SUBSET Stored /\ FromCursor(cursor) \in SUBSET Stored
      /\ Stored \subseteq usedIds /\ Stored \subseteq RowIds /\ usedIds \subseteq RowIds
      /\ 0 \notin RowIds
  BY <1>1, DebugAssumption DEF Listable, FromCursor, RowsTypeOK, Stored
<1>3. /\ fetched.items \subseteq Stored /\ fetched.next \in Stored \cup {0}
      /\ \A i \in Listable :
              cursor = 0 \/ (cursor \in Listable /\ Before(cursor, i)) =>
                \/ i \in fetched.items
                \/ fetched.next # 0 /\ Before(fetched.next, i)
  <2>1. CASE cursor = 0
    <3>1. fetched = PageFrom(Listable, 0)
      BY <2>1 DEF ListEvents
    <3>2. \A i \in Listable : Place(i, Listable) >= 0
      <4>1. \A i \in Listable : Place(i, Listable) \in Nat
        BY <1>1, <1>2, Places
      <4> QED BY <4>1
    <3> QED BY <1>1, <1>2, <3>1, <3>2, PageShows
  <2>2. CASE cursor # 0
    <3> DEFINE S == FromCursor(cursor)
    <3>1. fetched = PageFrom(S, 1)
      BY <2>2 DEF ListEvents
    <3>2. ASSUME NEW i \in Listable, cursor \in Listable, Before(cursor, i)
          PROVE  i \in S /\ Place(i, S) >= 1
      <4>1. i \in S /\ cursor \in S
        BY <1>2, <3>2 DEF FromCursor
      <4>2. Place(cursor, S) \in Nat /\ Place(i, S) \in Nat /\ Place(cursor, S) < Place(i, S)
        BY <1>1, <1>2, <3>2, <4>1, Places
      <4> QED BY <4>1, <4>2
    <3> HIDE DEF S, fetched
    <3>3. /\ fetched.items \subseteq S /\ fetched.next \in S \cup {0}
          /\ \A i \in S : Place(i, S) >= 1 =>
               \/ i \in fetched.items
               \/ fetched.next # 0 /\ Before(fetched.next, i)
      BY <1>1, <1>2, <3>1, PageShows DEF S
    <3> QED BY <1>2, <2>2, <3>2, <3>3 DEF S
  <2> QED BY <2>1, <2>2
<1> HIDE DEF fetched
<1>4. /\ shown = [items |-> fetched.items, next |-> fetched.next, of |-> ListedFrom(cursor)]
      /\ shown.items = fetched.items /\ shown.next = fetched.next /\ shown.of = ListedFrom(cursor)
  BY DEF fetched
<1>5. shown.of \subseteq Listable /\ (shown.of # {} => cursor = 0 \/ cursor \in Listable)
  BY <1>4 DEF ListedFrom
<1>6. shown \in Page
  BY <1>2, <1>3, <1>4, <1>5 DEF Page
<1>7. \A i, j \in Stored : Before(i, j) <=> Sooner(i, j)
  BY DEF WalkInv, StampsHold, Before, Sooner
<1>8. ASSUME NEW i \in shown.of, cursor = 0 \/ Sooner(cursor, i)
      PROVE  i \in shown.items \/ (shown.next # 0 /\ Sooner(shown.next, i))
  <2>1. i \in Listable /\ (cursor = 0 \/ cursor \in Listable)
    BY <1>5
  <2>2. cursor = 0 \/ (cursor \in Listable /\ Before(cursor, i))
    BY <1>2, <1>7, <1>8, <2>1
  <2>3. i \in fetched.items \/ (fetched.next # 0 /\ Before(fetched.next, i))
    BY <1>3, <2>1, <2>2
  <2> QED BY <1>2, <1>3, <1>4, <1>7, <2>1, <2>3
<1> QED BY <1>2, <1>3, <1>4, <1>5, <1>6, <1>8 DEF PageCovers

(* The walk moves on to the cursor c, with the page that is kept for it. *)
LEMMA WalkGoesOn ==
  ASSUME WalkInv, UNCHANGED <<debugRow, debugNow, usedIds, stamped>>, prunes' \subseteq SUBSET RowIds,
         timeline' \in [of : RowIds \cup {0}, shown : SUBSET RowIds],
         NEW rows \in SUBSET RowIds,
         cursor' \in RowIds \cup {0}, Reached(cursor', rows),
         history' \in Seq(RowIds \cup {0}), \A n \in DOMAIN history' : Reached(history'[n], rows),
         pages' \in [RowIds \cup {0} -> Page \cup {NoPage}],
         \A c \in RowIds \cup {0} : PageCovers(c, pages'[c]),
         due' = DueAfter(rows, pages'[cursor'])
  PROVE  WalkInv'
<1>1. /\ due' \subseteq rows
      /\ pages'[cursor'] # NoPage => LeavesOver(pages'[cursor'], due')
  BY ComesOnShow
<1>2. DebugTypeOK' /\ StampsHold'
  BY <1>1 DEF WalkInv, DebugTypeOK, StampsHold, Stored
<1>3. PagesCover'
  <2>1. \A c \in RowIds \cup {0} : PageCovers(c, pages[c])'
    BY DEF PageCovers, Sooner
  <2> QED BY <2>1 DEF PagesCover
<1>4. \A c : Reached(c, rows) => Reached(c, due)'
  BY <1>1 DEF Reached, Sooner
<1>5. CursorsAreReached'
  BY <1>4 DEF CursorsAreReached
<1>6. ShownIsPast'
  BY <1>1 DEF ShownIsPast, LeavesOver, Sooner
<1> QED BY <1>2, <1>3, <1>5, <1>6 DEF WalkInv

LEMMA WalkTypes ==
  ASSUME WalkInv
  PROVE  /\ cursor \in RowIds \cup {0} /\ history \in Seq(RowIds \cup {0})
         /\ pages \in [RowIds \cup {0} -> Page \cup {NoPage}]
         /\ timeline \in [of : RowIds \cup {0}, shown : SUBSET RowIds]
         /\ due \in SUBSET RowIds /\ usedIds \subseteq RowIds /\ prunes \subseteq SUBSET RowIds
         /\ \A c \in RowIds \cup {0} : PageCovers(c, pages[c])
         /\ Reached(cursor, due) /\ \A n \in DOMAIN history : Reached(history[n], due)
BY DEF WalkInv, DebugTypeOK, PagesCover, CursorsAreReached

LEMMA FetchPageWalk ==
  ASSUME WalkInv, FetchPage
  PROVE  WalkInv'
<1>1. PICK shown :
        shown = [items |-> ListEvents(cursor).items, next |-> ListEvents(cursor).next,
                of |-> ListedFrom(cursor)]
  OBVIOUS
<1>2. pages' = [pages EXCEPT ![cursor] = shown]
  BY <1>1 DEF FetchPage
<1>3. shown \in Page /\ PageCovers(cursor, shown)
  <2>1. cursor \in usedIds \cup {0}
    BY WalkTypes DEF Reached
  <2> QED BY <1>1, <2>1, FetchedPage
<1>4. /\ pages' \in [RowIds \cup {0} -> Page \cup {NoPage}]
      /\ \A c \in RowIds \cup {0} : PageCovers(c, pages'[c])
  <2>1. \A c \in RowIds \cup {0} : pages'[c] = IF c = cursor THEN shown ELSE pages[c]
    BY <1>2, WalkTypes
  <2> QED BY <1>2, <1>3, <2>1, WalkTypes
<1>5. prunes' \subseteq SUBSET RowIds
  BY WalkTypes DEF FetchPage, StartPrune
<1>6. /\ UNCHANGED <<debugNow, debugRow, usedIds, stamped, cursor, history, timeline>>
      /\ due' = DueAfter(due, pages'[cursor'])
  BY DEF FetchPage
<1> QED BY <1>4, <1>5, <1>6, WalkTypes, WalkGoesOn

LEMMA HandleNextWalk ==
  ASSUME WalkInv, HandleNext
  PROVE  WalkInv'
<1>1. /\ timeline.of = 0 /\ pages[cursor] # NoPage /\ pages[cursor].next # 0
      /\ cursor' = pages[cursor].next /\ history' = Append(history, cursor)
      /\ due' = DueAfter(due, pages'[cursor'])
      /\ UNCHANGED <<debugNow, debugRow, usedIds, stamped, prunes, pages, timeline>>
  BY DEF HandleNext
<1>2. LeavesOver(pages[cursor], due) /\ PageCovers(cursor, pages[cursor])
  BY <1>1, WalkTypes DEF WalkInv, ShownIsPast
<1>3. cursor' \in RowIds \cup {0} /\ Reached(cursor', due)
  BY <1>1, <1>2, WalkTypes DEF LeavesOver, PageCovers, Reached
<1>4. history' \in Seq(RowIds \cup {0})
  BY <1>1, WalkTypes
<1>5. \A n \in DOMAIN history' : Reached(history'[n], due)
  <2>1. \A n \in DOMAIN history' :
          history'[n] = cursor \/ (n \in DOMAIN history /\ history'[n] = history[n])
    BY <1>1, WalkTypes
  <2> QED BY <2>1, WalkTypes
<1> QED BY <1>1, <1>3, <1>4, <1>5, WalkTypes, WalkGoesOn

LEMMA HandlePrevWalk ==
  ASSUME WalkInv, HandlePrev
  PROVE  WalkInv'
<1>1. /\ history # <<>>
      /\ cursor' = history[Len(history)] /\ history' = SubSeq(history, 1, Len(history) - 1)
      /\ due' = DueAfter(due, pages'[cursor'])
      /\ UNCHANGED <<debugNow, debugRow, usedIds, stamped, prunes, pages, timeline>>
  BY DEF HandlePrev
<1>2. /\ Len(history) \in DOMAIN history
      /\ cursor' \in RowIds \cup {0} /\ history' \in Seq(RowIds \cup {0})
      /\ \A n \in DOMAIN history' : n \in DOMAIN history /\ history'[n] = history[n]
  BY <1>1, WalkTypes
<1>3. Reached(cursor', due) /\ \A n \in DOMAIN history' : Reached(history'[n], due)
  BY <1>1, <1>2, WalkTypes
<1> QED BY <1>1, <1>2, <1>3, WalkTypes, WalkGoesOn

LEMMA FirstPageWalk ==
  ASSUME WalkInv, FirstPage, UNCHANGED <<debugNow, debugRow, usedIds, stamped, prunes>>,
         timeline' \in [of : RowIds \cup {0}, shown : SUBSET RowIds]
  PROVE  WalkInv'
<1>1. PICK kept \in SUBSET (RowIds \cup {0}) :
        pages' = [c \in RowIds \cup {0} |-> IF c \in kept THEN pages[c] ELSE NoPage]
  BY DEF FirstPage
<1>2. /\ pages' \in [RowIds \cup {0} -> Page \cup {NoPage}]
      /\ \A c \in RowIds \cup {0} : PageCovers(c, pages'[c])
  <2>1. \A c \in RowIds \cup {0} : pages'[c] = pages[c] \/ pages'[c] = NoPage
    BY <1>1
  <2> QED BY <1>1, <2>1, WalkTypes DEF PageCovers
<1>3. /\ cursor' = 0 /\ history' = <<>> /\ due' = DueAfter(RowIds, pages'[cursor'])
      /\ Reached(cursor', RowIds) /\ \A n \in DOMAIN history' : Reached(history'[n], RowIds)
  BY DEF FirstPage, Reached
<1> QED BY <1>2, <1>3, WalkTypes, WalkGoesOn

(* The list is left: there is nothing to go on from. *)
LEMMA GetEventWalk ==
  ASSUME WalkInv, NEW i \in RowIds, GetEvent(i)
  PROVE  WalkInv'
<1>1. timeline' \in [of : RowIds \cup {0}, shown : SUBSET RowIds] /\ timeline'.of # 0
  BY DebugAssumption DEF GetEvent, RelatedRows, Earliest, Stored
<1>2. /\ cursor' = 0 /\ history' = <<>> /\ due' = RowIds
      /\ UNCHANGED <<debugNow, debugRow, usedIds, stamped, prunes, pages>>
  BY DEF GetEvent
<1>3. DebugTypeOK' /\ StampsHold' /\ PagesCover'
  BY <1>1, <1>2 DEF WalkInv, DebugTypeOK, StampsHold, Stored, PagesCover, PageCovers, Sooner
<1>4. CursorsAreReached' /\ ShownIsPast'
  BY <1>1, <1>2 DEF CursorsAreReached, Reached, ShownIsPast
<1> QED BY <1>3, <1>4 DEF WalkInv

LEMMA IngestWalk ==
  ASSUME PruneInv, WalkInv, RowsTypeOK',
         NEW batch \in SUBSET ClientEvents, NEW m \in BOOLEAN, IngestBatch(batch, m)
  PROVE  WalkInv'
<1> DEFINE new == {e \in batch : RowsOfEvent(e) = {}}
<1>1. PICK id \in [new -> RowIds \ usedIds] :
        /\ usedIds' = usedIds \cup {id[e] : e \in new}
        /\ stamped' = [i \in RowIds |->
                         IF \E e \in new : id[e] = i THEN debugNow ELSE stamped[i]]
        /\ debugRow' = [i \in RowIds |->
             IF \E e \in new : id[e] = i
             THEN CreatedRow(CHOOSE e \in new : id[e] = i, m)
             ELSE IF i \in Stored /\ debugRow[i].event \in batch
                  THEN UpdatedRow(debugRow[i], m)
                  ELSE debugRow[i]]
  BY DEF IngestBatch
<1> HIDE DEF new
<1>2. stamped' \in [RowIds -> 0..MaxDebugTime] /\ \A i \in usedIds : stamped'[i] = stamped[i]
  <2>1. stamped \in [RowIds -> 0..MaxDebugTime] /\ debugNow \in 0..MaxDebugTime
    BY DEF WalkInv, DebugTypeOK
  <2> QED BY <1>1, <2>1, WalkTypes
<1>3. StampsHold'
  <2> SUFFICES ASSUME NEW i \in RowIds, debugRow'[i] # NoDebugRow
               PROVE  stamped'[i] = debugRow'[i].at
    BY DEF StampsHold, Stored
  <2>1. CASE \E e \in new : id[e] = i
    BY <1>1, <2>1 DEF CreatedRow
  <2>2. CASE ~\E e \in new : id[e] = i
    <3>1. stamped'[i] = stamped[i]
      BY <1>1, <2>2
    <3>2. CASE i \in Stored /\ debugRow[i].event \in batch
      <4>1. debugRow'[i] = UpdatedRow(debugRow[i], m)
        BY <1>1, <2>2, <3>2
      <4>2. debugRow[i] \in DebugRow
        BY <3>2, RowsAsTheyAre DEF Stored
      <4>3. debugRow'[i].at = debugRow[i].at
        BY <4>1, <4>2, DebugRowFacts
      <4> QED BY <3>1, <3>2, <4>3 DEF WalkInv, StampsHold
    <3>3. CASE ~(i \in Stored /\ debugRow[i].event \in batch)
      <4>1. debugRow'[i] = debugRow[i]
        BY <1>1, <2>2, <3>3
      <4> QED BY <3>1, <4>1 DEF WalkInv, StampsHold, Stored
    <3> QED BY <3>2, <3>3
  <2> QED BY <2>1, <2>2
<1>4. usedIds \subseteq usedIds' /\ UNCHANGED <<cursor, history, pages, timeline, due>>
  BY <1>1 DEF IngestBatch
<1> QED BY <1>2, <1>3, <1>4, RowsChangeWalk

LEMMA WalkStep ==
  ASSUME PruneInv, WalkInv, [DebugNext]_debugVars
  PROVE  WalkInv'
<1>1. RowsTypeOK' /\ stamped \in [RowIds -> 0..MaxDebugTime]
  BY PruneStep DEF PruneInv, WalkInv, DebugTypeOK
<1>2. ASSUME NEW batch \in SUBSET ClientEvents, NEW m \in BOOLEAN, IngestBatch(batch, m)
      PROVE  WalkInv'
  BY <1>1, <1>2, IngestWalk
<1>3. ASSUME NEW gone, debugRow' = Without(gone),
             UNCHANGED <<usedIds, stamped, cursor, history, pages, timeline, due>>
      PROVE  WalkInv'
  <2>1. StampsHold'
    BY <1>3 DEF WalkInv, StampsHold, Stored, Without
  <2> QED BY <1>1, <1>3, <2>1, RowsChangeWalk
<1>4. ASSUME UNCHANGED <<debugRow, usedIds, stamped, cursor, history, pages, timeline, due>>
      PROVE  WalkInv'
  <2>1. StampsHold'
    BY <1>4 DEF WalkInv, StampsHold, Stored
  <2> QED BY <1>1, <1>4, <2>1, RowsChangeWalk
<1>5. CASE \/ ClockTicks \/ PruneReads \/ (\E ids \in prunes : PruneFails(ids))
           \/ UNCHANGED debugVars
  BY <1>4, <1>5 DEF ClockTicks, PruneReads, PruneFails, debugVars
<1>6. CASE PruneExpired \/ UserDeleted
  BY <1>3, <1>6 DEF PruneExpired, UserDeleted
<1>7. ASSUME NEW ids \in prunes, PruneDeletes(ids) PROVE WalkInv'
  BY <1>3, <1>7 DEF PruneDeletes
<1>8. CASE FetchPage
  BY <1>8, FetchPageWalk
<1>9. CASE HandleNext \/ HandlePrev
  BY <1>9, HandleNextWalk, HandlePrevWalk
<1>10. CASE HandleFilterChange
  BY <1>10, WalkTypes, FirstPageWalk DEF HandleFilterChange
<1>11. CASE BackToList
  <2>1. timeline' \in [of : RowIds \cup {0}, shown : SUBSET RowIds]
    BY <1>11 DEF BackToList
  <2> QED BY <1>11, <2>1, FirstPageWalk DEF BackToList
<1>12. ASSUME NEW i \in RowIds, GetEvent(i) PROVE WalkInv'
  BY <1>12, GetEventWalk
<1> QED BY <1>2, <1>5, <1>6, <1>7, <1>8, <1>9, <1>10, <1>11, <1>12, Zenon DEF DebugNext

(***************************************************************************)
(* The walk keeps its inductive invariant: what it has still to show comes *)
(* after every cursor it may return to and after the page on show.         *)
(***************************************************************************)
THEOREM WalkInvariance == DebugSpec => []WalkInv
<1>1. DebugInit => WalkInv
  BY WalkInitInv
<1>2. PruneInv /\ WalkInv /\ [DebugNext]_debugVars => WalkInv'
  BY WalkStep
<1> QED BY <1>1, <1>2, PruneInvariance, PTL DEF DebugSpec

(***************************************************************************)
(* For any number of events, any page size and any walk forward and back   *)
(* over pages that are cached, by this walk or an earlier one, and fetched *)
(* again: at the end of the list every event that was listed whenever a    *)
(* page the walk showed had been fetched has been shown, unless a cursor   *)
(* row had gone or stopped matching when its page was fetched (listEvents, *)
(* handleNext).                                                            *)
(***************************************************************************)
THEOREM WalksMissNothing == DebugSpec => []WalkMissesNothing
<1>1. WalkInv => WalkMissesNothing
  BY DEF WalkInv, ShownIsPast, LeavesOver, WalkMissesNothing
<1> QED BY <1>1, WalkInvariance, PTL

-----------------------------------------------------------------------------
(* PagedLists: the walk through numbered pages.                             *)

KeptAnswer == [total : Nat, current : BOOLEAN, earlier : BOOLEAN]

ListTotal == TotalPages(Cardinality(InList(sortKey)))

(* Page q was shown, or is being read, by the walk that has come to page p. *)
Taken(q, p, kept, reads) ==
  \/ q < p
  \/ \E a \in kept[q] : ~a.earlier
  \/ \E read \in reads : read.page = q /\ ~read.earlier

(* One answer is kept for a page, and tells the total while it is current. *)
AnswersAreTrue(kept) ==
  \A q \in Pages : \A a \in kept[q] :
    /\ \A b \in kept[q] : a = b
    /\ a.current => a.total = ListTotal

(* Before it has shown a page there is nothing to go on from. *)
NothingTaken(p, kept, reads, t) ==
  ~t.began =>
    /\ p = 1 /\ t = NoTour
    /\ \A q \in Pages : \A a \in kept[q] : a.earlier
    /\ \A read \in reads : read.earlier

(* What it has still to show is below every page it has taken ... *)
DueAreBelow(p, kept, reads, t) ==
  ~t.outdated => \A i \in t.due, q \in Pages : Taken(q, p, kept, reads) => PageOf(sortKey, i) > q

(* ... and is nothing when an answer it was shown is the last page's. *)
LastPageIsLast(kept, t) ==
  ~t.outdated => \A q \in Pages : \A a \in kept[q] : ~a.earlier /\ a.total <= q => t.due = {}

WalkAt(p, kept, reads, t) ==
  /\ p \in Pages /\ kept \in [Pages -> SUBSET KeptAnswer] /\ reads \subseteq PageRead /\ t \in Tour
  /\ AnswersAreTrue(kept)
  /\ NothingTaken(p, kept, reads, t)
  /\ t.due \subseteq InList(sortKey)
  /\ DueAreBelow(p, kept, reads, t)
  /\ LastPageIsLast(kept, t)
  /\ list.changes = AuditList => ~t.slipped

TourInv ==
  /\ listClock \in 1..MaxListTime /\ sortKey \in Keys
  /\ WalkAt(page, answers, counting, tour)
  /\ \A a \in answers[page] : ~a.earlier

LEMMA DivNat ==
  ASSUME NEW a \in Nat
  PROVE  a \div PageSize \in Nat /\ (a + PageSize) \div PageSize = a \div PageSize + 1
BY ListAssumption, Z3

LEMMA DivMonotone ==
  ASSUME NEW a \in Nat, NEW b \in Nat, a <= b
  PROVE  a \div PageSize <= b \div PageSize
BY ListAssumption, Z3

(* There is a first page, and a row of a list has a place in it. *)
LEMMA PageFacts ==
  /\ Pages \subseteq Nat /\ 1 \in Pages
  /\ \A p, q \in Nat : p \in Pages /\ 1 <= q /\ q <= p => q \in Pages
  /\ \A p \in Pages : p = 1 \/ p - 1 \in Pages
<1>1. Cardinality(ListIds) \in Nat \ {0}
  BY ListAssumption, FS_CardinalityType, FS_EmptySet
<1>2. PageSize \in Nat \ {0}
  BY ListAssumption
<1>3. Cardinality(ListIds) - 1 \in Nat
  BY <1>1
<1>4. TotalPages(Cardinality(ListIds)) \in Nat \ {0}
  <2>1. Cardinality(ListIds) + PageSize - 1 = (Cardinality(ListIds) - 1) + PageSize
    BY <1>1, <1>2
  <2> QED BY <1>3, <2>1, DivNat DEF TotalPages
<1> QED BY <1>4 DEF Pages

LEMMA ListPlaces ==
  ASSUME NEW keys \in Keys, NEW i \in ListIds
  PROVE  /\ IsFiniteSet(InList(keys)) /\ Cardinality(InList(keys)) \in Nat
         /\ IsFiniteSet({j \in InList(keys) \ {i} : Ahead(keys, j, i)})
         /\ PlaceInList(keys, i) \in Nat
         /\ i \in InList(keys) => PlaceInList(keys, i) < Cardinality(InList(keys))
<1> DEFINE ahead == {j \in InList(keys) \ {i} : Ahead(keys, j, i)}
<1>1. InList(keys) \in SUBSET ListIds /\ ahead \in SUBSET InList(keys) /\ i \notin ahead
  BY DEF InList
<1>2. IsFiniteSet(InList(keys)) /\ Cardinality(InList(keys)) \in Nat
  BY <1>1, ListAssumption, FS_Subset, FS_CardinalityType
<1>3. /\ IsFiniteSet(ahead) /\ Cardinality(ahead) \in Nat
      /\ Cardinality(ahead) <= Cardinality(InList(keys))
      /\ Cardinality(InList(keys)) = Cardinality(ahead) => InList(keys) = ahead
  BY <1>1, <1>2, FS_Subset, FS_CardinalityType
<1> QED BY <1>1, <1>2, <1>3 DEF PlaceInList

(* A row below page p is in a list with more than p pages. *)
LEMMA BelowIsMore ==
  ASSUME NEW keys \in Keys, NEW i \in InList(keys), NEW p \in Nat,
         PlaceInList(keys, i) \div PageSize >= p
  PROVE  TotalPages(Cardinality(InList(keys))) > p
<1>1. i \in ListIds
  BY DEF InList
<1>2. /\ Cardinality(InList(keys)) \in Nat /\ PlaceInList(keys, i) \in Nat
      /\ PlaceInList(keys, i) < Cardinality(InList(keys))
  BY <1>1, ListPlaces
<1>3. PICK n \in Nat, m \in Nat : n = Cardinality(InList(keys)) /\ m = PlaceInList(keys, i)
  BY <1>2
<1>4. PageSize \in Nat \ {0} /\ m < n
  BY <1>2, <1>3, ListAssumption
<1>5. m + PageSize \in Nat /\ n + PageSize - 1 \in Nat /\ m + PageSize <= n + PageSize - 1
  BY <1>4
<1>6. (m + PageSize) \div PageSize <= (n + PageSize - 1) \div PageSize
  BY <1>5, DivMonotone
<1>7. (m + PageSize) \div PageSize = m \div PageSize + 1 /\ m \div PageSize \in Nat
  BY DivNat
<1>8. (n + PageSize - 1) \div PageSize \in Nat
  BY <1>5, DivNat
<1>9. m \div PageSize >= p
  BY <1>3
<1> QED BY <1>3, <1>6, <1>7, <1>8, <1>9 DEF TotalPages

(* A row that enters pushes others down, if any. *)
LEMMA EnteringMovesDown ==
  ASSUME sortKey \in Keys, NEW i \in ListIds, sortKey[i] = 0, NEW key \in 1..MaxListTime,
         NEW j \in ListIds \ {i}
  PROVE  PlaceInList(sortKey, j) <= PlaceInList([sortKey EXCEPT ![i] = key], j)
<1> DEFINE keys == [sortKey EXCEPT ![i] = key]
           before == {k \in InList(sortKey) \ {j} : Ahead(sortKey, k, j)}
           after  == {k \in InList(keys) \ {j} : Ahead(keys, k, j)}
<1>1. keys \in Keys /\ \A k \in ListIds \ {i} : keys[k] = sortKey[k]
  BY ListAssumption DEF Keys
<1>2. IsFiniteSet(after)
  BY <1>1, ListPlaces
<1>3. before \in SUBSET after
  BY <1>1 DEF InList, Ahead, Keys
<1>4. Cardinality(before) <= Cardinality(after)
  BY <1>2, <1>3, FS_Subset
<1> QED BY <1>4 DEF PlaceInList

LEMMA PagesOfRows ==
  ASSUME NEW keys \in Keys, NEW i \in ListIds
  PROVE  PageOf(keys, i) \in Nat \ {0}
<1>1. PICK n \in Nat : n = PlaceInList(keys, i)
  BY ListPlaces
<1>2. n \div PageSize \in Nat
  BY DivNat
<1> QED BY <1>1, <1>2 DEF PageOf

(* A row below page q is counted on a later one. *)
LEMMA TotalIsMore ==
  ASSUME sortKey \in Keys, NEW i \in InList(sortKey), NEW q \in Nat, PageOf(sortKey, i) > q
  PROVE  ListTotal \in Nat /\ ListTotal > q
<1>1. i \in ListIds
  BY DEF InList
<1>2. PICK n \in Nat : n = PlaceInList(sortKey, i)
  BY <1>1, ListPlaces
<1>3. n \div PageSize \in Nat /\ n \div PageSize + 1 > q
  BY <1>2, DivNat DEF PageOf
<1>4. PlaceInList(sortKey, i) \div PageSize >= q
  BY <1>2, <1>3
<1>5. ListTotal > q
  BY <1>4, BelowIsMore DEF ListTotal
<1>6. ListTotal \in Nat
  <2>1. PICK m \in Nat : m = Cardinality(InList(sortKey))
    BY <1>1, ListPlaces
  <2>2. m + PageSize - 1 \in Nat
    BY ListAssumption
  <2> QED BY <2>1, <2>2, DivNat DEF ListTotal, TotalPages
<1> QED BY <1>5, <1>6

LEMMA NoTourFacts ==
  /\ NoTour \in Tour /\ NoTour.due = {} /\ ~NoTour.began /\ ~NoTour.slipped /\ ~NoTour.outdated
BY DEF NoTour, Tour

LEMMA TourInitInv == ListInit => TourInv
<1> SUFFICES ASSUME ListInit PROVE TourInv
  OBVIOUS
<1>1. page = 1 /\ counting = {} /\ answers = [p \in Pages |-> {}] /\ tour = NoTour
  BY DEF ListInit, NoAnswers
<1>2. sortKey \in Keys /\ listClock \in 1..MaxListTime
  BY ListAssumption DEF ListInit, Keys
<1>3. WalkAt(page, answers, counting, tour)
  BY <1>1, PageFacts, NoTourFacts
     DEF WalkAt, AnswersAreTrue, NothingTaken, DueAreBelow, LastPageIsLast, Taken
<1> QED BY <1>1, <1>2, <1>3, PageFacts DEF TourInv

(* A page's rows are read, or shown as they are: what the walk has still to *)
(* show is below this page too.                                             *)
LEMMA ReadingGoesOn ==
  ASSUME sortKey \in Keys, NEW p, NEW kept, NEW reads, NEW t, WalkAt(p, kept, reads, t)
  PROVE  LET next == Reading(t, p) IN
         /\ next \in Tour /\ next.began /\ next.slipped = t.slipped /\ next.outdated = t.outdated
         /\ next.due \subseteq InList(sortKey)
         /\ ~t.outdated => \A i \in next.due, q \in Pages :
              Taken(q, p, kept, reads) \/ q = p => PageOf(sortKey, i) > q
         /\ LastPageIsLast(kept, next)
<1> DEFINE next == Reading(t, p)
<1>1. /\ p \in Pages /\ Pages \subseteq Nat \ {0} /\ t \in Tour /\ t.due \subseteq InList(sortKey)
      /\ InList(sortKey) \subseteq ListIds
  BY PageFacts DEF WalkAt, InList, Pages
<1>2. \A i \in InList(sortKey) : PageOf(sortKey, i) \in Nat \ {0}
  BY <1>1, PagesOfRows
<1>3. CASE t.began
  <2>1. next = [t EXCEPT !.due = @ \ OnPage(p)]
    BY <1>3 DEF Reading
  <2>2. /\ next \in Tour /\ next.began /\ next.slipped = t.slipped /\ next.outdated = t.outdated
        /\ next.due = t.due \ OnPage(p)
    BY <1>1, <1>3, <2>1 DEF Tour
  <2>3. ASSUME ~t.outdated, NEW i \in next.due, NEW q \in Pages,
               Taken(q, p, kept, reads) \/ q = p
        PROVE  PageOf(sortKey, i) > q
    <3>1. i \in t.due /\ i \in InList(sortKey) /\ PageOf(sortKey, i) # p
      BY <1>1, <2>2, <2>3 DEF OnPage
    <3>2. \A r \in Pages : Taken(r, p, kept, reads) => PageOf(sortKey, i) > r
      BY <2>3, <3>1 DEF WalkAt, DueAreBelow
    <3>3. CASE Taken(q, p, kept, reads)
      BY <3>2, <3>3
    <3>4. CASE q = p
      <4>1. CASE p = 1
        BY <1>2, <3>1, <3>4, <4>1
      <4>2. CASE p # 1
        <5>1. p - 1 \in Pages /\ p - 1 < p
          BY <1>1, <4>2, PageFacts
        <5>2. PageOf(sortKey, i) > p - 1
          BY <3>2, <5>1 DEF Taken
        <5> QED BY <1>1, <1>2, <3>1, <3>4, <5>2
      <4> QED BY <4>1, <4>2
    <3> QED BY <2>3, <3>3, <3>4
  <2>4. LastPageIsLast(kept, next)
    BY <2>2 DEF WalkAt, LastPageIsLast
  <2> QED BY <1>1, <2>2, <2>3, <2>4
<1>4. CASE ~t.began
  <2>1. /\ p = 1 /\ t = NoTour /\ (\A q \in Pages : \A a \in kept[q] : a.earlier)
        /\ \A read \in reads : read.earlier
    BY <1>4 DEF WalkAt, NothingTaken
  <2>2. next = [NoTour EXCEPT !.began = TRUE, !.due = InList(sortKey) \ OnPage(p)]
    BY <1>4 DEF Reading
  <2>3. /\ next \in Tour /\ next.began /\ next.slipped = t.slipped /\ next.outdated = t.outdated
        /\ next.due = InList(sortKey) \ OnPage(p)
    BY <1>1, <2>1, <2>2 DEF Tour, NoTour
  <2>4. ASSUME NEW i \in next.due, NEW q \in Pages, Taken(q, p, kept, reads) \/ q = p
        PROVE  PageOf(sortKey, i) > q
    <3>1. q = 1
      BY <1>1, <2>1, <2>4 DEF Taken
    <3>2. i \in InList(sortKey) /\ PageOf(sortKey, i) # 1
      BY <2>1, <2>3, <2>4 DEF OnPage
    <3> QED BY <1>2, <3>1, <3>2
  <2>5. LastPageIsLast(kept, next)
    BY <2>1 DEF LastPageIsLast
  <2> QED BY <1>1, <2>3, <2>4, <2>5
<1> QED BY <1>3, <1>4

(* The pages of a list that stays as it is. *)
LEMMA ListStays ==
  ASSUME UNCHANGED <<list, sortKey>>, WalkAt(page', answers', counting', tour')
  PROVE  WalkAt(page, answers, counting, tour)'
<1>1. InList(sortKey)' = InList(sortKey)
  BY DEF InList
<1>2. ListTotal' = ListTotal
  BY <1>1 DEF ListTotal, TotalPages
<1>3. ASSUME NEW i PROVE PageOf(sortKey, i)' = PageOf(sortKey, i)
  BY <1>1 DEF PageOf, PlaceInList, Ahead, TieBreak, Forward
<1>4. /\ AnswersAreTrue(answers)' /\ NothingTaken(page, answers, counting, tour)'
      /\ LastPageIsLast(answers, tour)'
  BY <1>2 DEF WalkAt, AnswersAreTrue, NothingTaken, LastPageIsLast
<1>5. DueAreBelow(page, answers, counting, tour)'
  BY <1>3 DEF WalkAt, DueAreBelow, Taken
<1> QED BY <1>1, <1>4, <1>5 DEF WalkAt

(* The page p comes on show. *)
LEMMA TurnToTour ==
  ASSUME listClock' \in 1..MaxListTime, sortKey \in Keys, UNCHANGED <<list, sortKey>>,
         NEW p, NEW kept, NEW t, WalkAt(p, kept, counting', t), TurnTo(p, kept, t)
  PROVE  TourInv'
<1>1. /\ p \in Pages /\ kept \in [Pages -> SUBSET KeptAnswer] /\ counting' \subseteq PageRead
      /\ t \in Tour /\ AnswersAreTrue(kept) /\ NothingTaken(p, kept, counting', t)
      /\ t.due \subseteq InList(sortKey) /\ DueAreBelow(p, kept, counting', t)
      /\ LastPageIsLast(kept, t) /\ (list.changes = AuditList => ~t.slipped)
      /\ Pages \subseteq Nat
  BY PageFacts DEF WalkAt
<1>2. page' = p /\ answers' = [kept EXCEPT ![p] = {[a EXCEPT !.earlier = FALSE] : a \in kept[p]}]
  BY DEF TurnTo
<1>3. /\ answers' \in [Pages -> SUBSET KeptAnswer]
      /\ answers'[p] = {[a EXCEPT !.earlier = FALSE] : a \in kept[p]}
      /\ \A q \in Pages : q # p => answers'[q] = kept[q]
  <2>1. {[a EXCEPT !.earlier = FALSE] : a \in kept[p]} \in SUBSET KeptAnswer
    BY <1>1 DEF KeptAnswer
  <2> QED BY <1>1, <1>2, <2>1
<1>4. \A b \in answers'[p] : \E a \in kept[p] :
        b.total = a.total /\ b.current = a.current /\ ~b.earlier /\ b = [a EXCEPT !.earlier = FALSE]
  BY <1>1, <1>3 DEF KeptAnswer
<1>5. AnswersAreTrue(answers')
  <2> SUFFICES ASSUME NEW q \in Pages, NEW b \in answers'[q]
               PROVE  (\A c \in answers'[q] : b = c) /\ (b.current => b.total = ListTotal)
    BY DEF AnswersAreTrue
  <2>1. CASE q # p
    BY <1>1, <1>3, <2>1 DEF AnswersAreTrue
  <2>2. CASE q = p
    <3>1. PICK a \in kept[p] : b.total = a.total /\ b.current = a.current
      BY <1>4, <2>2
    <3>2. (\A c \in kept[p] : c = a) /\ (a.current => a.total = ListTotal)
      BY <1>1 DEF AnswersAreTrue
    <3>3. \A c \in answers'[p] : c = [a EXCEPT !.earlier = FALSE]
      BY <1>3, <3>2
    <3> QED BY <2>2, <3>1, <3>2, <3>3
  <2> QED BY <2>1, <2>2
<1>6. CASE kept[p] = {}
  <2>1. tour' = t /\ answers' = kept
    <3>1. tour' = t
      BY <1>6 DEF TurnTo
    <3>2. {[a EXCEPT !.earlier = FALSE] : a \in kept[p]} = kept[p]
      BY <1>6
    <3> QED BY <1>1, <1>2, <3>1, <3>2
  <2>2. WalkAt(page, answers, counting, tour)'
    BY <1>2, <2>1, ListStays
  <2> QED BY <1>2, <1>6, <2>1, <2>2 DEF TourInv
<1>7. ASSUME NEW a \in kept[p], tour' = Showing(t, p, a)
      PROVE  TourInv'
  <2>1. a \in KeptAnswer /\ \A b \in kept[p] : b = a
    BY <1>1, <1>7 DEF AnswersAreTrue
  <2>2. \A b \in answers'[p] : b.total = a.total /\ b.current = a.current /\ ~b.earlier
    BY <1>4, <2>1
  <2>3. /\ tour' \in Tour /\ tour'.began /\ tour'.due \subseteq InList(sortKey)
        /\ tour'.slipped = t.slipped
        /\ ~tour'.outdated =>
             /\ \A i \in tour'.due, q \in Pages :
                  Taken(q, p, kept, counting') \/ q = p => PageOf(sortKey, i) > q
             /\ LastPageIsLast(kept, tour')
             /\ a.total <= p => tour'.due = {}
    <3>1. CASE ~a.earlier
      <4>1. tour' = t
        BY <1>7, <3>1 DEF Showing
      <4>2. t.began
        BY <1>1, <1>7, <3>1 DEF NothingTaken
      <4>3. Taken(p, p, kept, counting')
        BY <1>7, <3>1 DEF Taken
      <4>4. ~t.outdated => (a.total <= p => t.due = {})
        BY <1>1, <1>7, <3>1 DEF LastPageIsLast
      <4> QED BY <1>1, <4>1, <4>2, <4>3, <4>4 DEF DueAreBelow
    <3>2. CASE a.earlier /\ a.current
      <4>1. tour' = Reading(t, p)
        BY <1>7, <3>2 DEF Showing
      <4>2. /\ tour' \in Tour /\ tour'.began /\ tour'.slipped = t.slipped
            /\ tour'.outdated = t.outdated /\ tour'.due \subseteq InList(sortKey)
            /\ ~t.outdated => \A i \in tour'.due, q \in Pages :
                 Taken(q, p, kept, counting') \/ q = p => PageOf(sortKey, i) > q
            /\ LastPageIsLast(kept, tour')
        BY <4>1, ReadingGoesOn
      <4>3. ASSUME ~tour'.outdated, a.total <= p, NEW i \in tour'.due PROVE FALSE
        <5>1. i \in InList(sortKey) /\ PageOf(sortKey, i) > p /\ p \in Nat
          BY <1>1, <4>2, <4>3
        <5>2. ListTotal \in Nat /\ ListTotal > p
          BY <5>1, TotalIsMore
        <5>3. a.total = ListTotal
          BY <1>1, <1>7, <3>2 DEF AnswersAreTrue
        <5> QED BY <4>3, <5>1, <5>2, <5>3
      <4> QED BY <4>2, <4>3
    <3>3. CASE a.earlier /\ ~a.current
      <4>1. tour' = [t EXCEPT !.began = TRUE, !.outdated = TRUE]
        BY <1>7, <3>3 DEF Showing
      <4> QED BY <1>1, <4>1 DEF Tour
    <3> QED BY <2>1, <3>1, <3>2, <3>3 DEF KeptAnswer
  <2>4. \A q \in Pages : Taken(q, p, answers', counting') => Taken(q, p, kept, counting') \/ q = p
    BY <1>3 DEF Taken
  <2>5. DueAreBelow(p, answers', counting', tour')
    BY <2>3, <2>4 DEF DueAreBelow
  <2>6. LastPageIsLast(answers', tour')
    <3> SUFFICES ASSUME ~tour'.outdated, NEW q \in Pages, NEW b \in answers'[q], ~b.earlier,
                        b.total <= q
                 PROVE  tour'.due = {}
      BY DEF LastPageIsLast
    <3>1. CASE q = p
      BY <2>2, <2>3, <3>1
    <3>2. CASE q # p
      BY <1>3, <2>3, <3>2 DEF LastPageIsLast
    <3> QED BY <3>1, <3>2
  <2>7. WalkAt(p, answers', counting', tour')
    BY <1>1, <1>3, <1>5, <2>3, <2>5, <2>6 DEF WalkAt, NothingTaken
  <2>8. WalkAt(page, answers, counting, tour)'
    BY <1>2, <2>7, ListStays
  <2> QED BY <1>2, <2>2, <2>8 DEF TourInv
<1> QED BY <1>6, <1>7 DEF TurnTo

(* The list changes: a row the walk has still to show moves up only onto    *)
(* the page it was on, or the walk slips.                                   *)
LEMMA BecomesTour ==
  ASSUME TourInv, NEW keys \in Keys, NEW i \in ListIds, Becomes(keys, {i}),
         \A j \in ListIds \ {i} : keys[j] = sortKey[j],
         list.changes = AuditList =>
           \A j \in ListIds \ {i} : PlaceInList(sortKey, j) <= PlaceInList(keys, j)
  PROVE  TourInv'
<1>1. /\ page \in Pages /\ answers \in [Pages -> SUBSET KeptAnswer] /\ counting \subseteq PageRead
      /\ tour \in Tour /\ sortKey \in Keys /\ listClock \in 1..MaxListTime
      /\ AnswersAreTrue(answers) /\ NothingTaken(page, answers, counting, tour)
      /\ tour.due \subseteq InList(sortKey) /\ DueAreBelow(page, answers, counting, tour)
      /\ LastPageIsLast(answers, tour) /\ (list.changes = AuditList => ~tour.slipped)
      /\ \A a \in answers[page] : ~a.earlier
  BY DEF TourInv, WalkAt
<1>2. PICK slipping :
        slipping = {j \in tour.due \ {i} : PageOf(keys, j) < PageOf(sortKey, j)}
  OBVIOUS
<1>3. /\ sortKey' = keys /\ UNCHANGED <<list, listClock, page>>
      /\ tour' = [tour EXCEPT !.due = @ \ ({i} \cup slipping),
                              !.slipped = @ \/ slipping # {}]
      /\ answers' = [p \in Pages |-> Outdated(answers[p])]
      /\ counting' = Outdated(counting)
  BY <1>2 DEF Becomes, TourAfter
<1>4. /\ tour' \in Tour /\ tour'.began = tour.began /\ tour'.outdated = tour.outdated
      /\ tour'.due = tour.due \ ({i} \cup slipping)
      /\ tour'.slipped = (tour.slipped \/ slipping # {})
  BY <1>1, <1>3 DEF Tour
<1>5. /\ answers' \in [Pages -> SUBSET KeptAnswer]
      /\ \A q \in Pages : \A b \in answers'[q] : \E a \in answers[q] :
           /\ b = [a EXCEPT !.current = FALSE]
           /\ b.total = a.total /\ b.earlier = a.earlier /\ ~b.current
  <2>1. \A q \in Pages : Outdated(answers[q]) \in SUBSET KeptAnswer
    BY <1>1 DEF Outdated, KeptAnswer
  <2>2. \A q \in Pages : \A b \in Outdated(answers[q]) : \E a \in answers[q] :
           /\ b = [a EXCEPT !.current = FALSE]
           /\ b.total = a.total /\ b.earlier = a.earlier /\ ~b.current
    BY <1>1 DEF Outdated, KeptAnswer
  <2> QED BY <1>3, <2>1, <2>2
<1>6. /\ counting' \subseteq PageRead
      /\ \A b \in counting' : \E a \in counting : b.page = a.page /\ b.earlier = a.earlier
  BY <1>1, <1>3 DEF Outdated, PageRead
<1>7. AnswersAreTrue(answers)'
  <2> SUFFICES ASSUME NEW q \in Pages, NEW b \in answers'[q], NEW c \in answers'[q]
               PROVE  b = c /\ ~b.current
    BY DEF AnswersAreTrue
  <2>1. PICK a \in answers[q], d \in answers[q] :
          b = [a EXCEPT !.current = FALSE] /\ ~b.current /\ c = [d EXCEPT !.current = FALSE]
    BY <1>5
  <2> QED BY <1>1, <2>1 DEF AnswersAreTrue
<1>8. NothingTaken(page, answers, counting, tour)'
  <2> SUFFICES ASSUME ~tour'.began
               PROVE  /\ page' = 1 /\ tour' = NoTour
                      /\ \A q \in Pages : \A a \in answers'[q] : a.earlier
                      /\ \A read \in counting' : read.earlier
    BY DEF NothingTaken
  <2>1. /\ page = 1 /\ tour = NoTour
        /\ \A q \in Pages : \A a \in answers[q] : a.earlier
        /\ \A read \in counting : read.earlier
    BY <1>1, <1>4 DEF NothingTaken
  <2>2. slipping = {}
    BY <1>2, <2>1, NoTourFacts
  <2>3. tour' = NoTour
    BY <1>3, <2>1, <2>2, NoTourFacts DEF NoTour
  <2> QED BY <1>3, <1>5, <1>6, <2>1, <2>3
<1>9. tour'.due \subseteq InList(sortKey)'
  BY <1>1, <1>3, <1>4 DEF InList
<1>10. \A j \in ListIds : PageOf(sortKey, j)' = PageOf(keys, j)
  BY <1>3 DEF PageOf, PlaceInList, InList, Ahead, TieBreak, Forward
<1>11. \A j \in ListIds : PageOf(keys, j) \in Nat /\ PageOf(sortKey, j) \in Nat
  BY <1>1, PagesOfRows
<1>12. DueAreBelow(page, answers, counting, tour)'
  <2> SUFFICES ASSUME ~tour'.outdated, NEW j \in tour'.due, NEW q \in Pages,
                      Taken(q, page', answers', counting')
               PROVE  PageOf(sortKey, j)' > q
    BY DEF DueAreBelow, Taken
  <2>1. Taken(q, page, answers, counting)
    BY <1>3, <1>5, <1>6 DEF Taken
  <2>2. j \in tour.due /\ j \in ListIds /\ ~(PageOf(keys, j) < PageOf(sortKey, j))
    BY <1>1, <1>2, <1>4 DEF InList
  <2>3. PageOf(sortKey, j) > q
    BY <1>1, <1>4, <2>1, <2>2 DEF DueAreBelow
  <2>4. q \in Nat
    BY PageFacts
  <2> QED BY <1>10, <1>11, <2>2, <2>3, <2>4
<1>13. LastPageIsLast(answers, tour)'
  <2> SUFFICES ASSUME ~tour'.outdated, NEW q \in Pages, NEW b \in answers'[q], ~b.earlier,
                      b.total <= q
               PROVE  tour'.due = {}
    BY DEF LastPageIsLast
  <2>1. PICK a \in answers[q] : b.total = a.total /\ b.earlier = a.earlier
    BY <1>5
  <2>2. tour.due = {}
    BY <1>1, <1>4, <2>1 DEF LastPageIsLast
  <2> QED BY <1>4, <2>2
<1>14. list'.changes = AuditList => ~tour'.slipped
  <2> SUFFICES ASSUME list.changes = AuditList PROVE ~tour'.slipped
    BY <1>3
  <2>1. ASSUME NEW j \in slipping PROVE FALSE
    <3>1. j \in ListIds \ {i} /\ PageOf(keys, j) < PageOf(sortKey, j)
      BY <1>1, <1>2 DEF InList
    <3>2. PICK a \in Nat, b \in Nat : a = PlaceInList(sortKey, j) /\ b = PlaceInList(keys, j)
      BY <1>1, <3>1, ListPlaces
    <3>3. a <= b
      BY <3>1, <3>2
    <3>4. a \div PageSize <= b \div PageSize /\ a \div PageSize \in Nat /\ b \div PageSize \in Nat
      BY <3>3, DivMonotone, DivNat
    <3>5. b \div PageSize + 1 < a \div PageSize + 1
      BY <3>1, <3>2 DEF PageOf
    <3> QED BY <3>4, <3>5
  <2> QED BY <1>1, <1>4, <2>1
<1>15. WalkAt(page, answers, counting, tour)'
  BY <1>1, <1>3, <1>4, <1>5, <1>6, <1>7, <1>8, <1>9, <1>12, <1>13, <1>14 DEF WalkAt
<1>16. \A a \in answers'[page'] : ~a.earlier
  BY <1>1, <1>3, <1>5
<1> QED BY <1>1, <1>3, <1>15, <1>16 DEF TourInv

LEMMA RowTour ==
  ASSUME TourInv, NEW i \in ListIds, RowEnters(i) \/ RowLeaves(i) \/ RowMoves(i)
  PROVE  TourInv'
<1>1. sortKey \in Keys /\ listClock \in 1..MaxListTime /\ MaxListTime \in Nat
  BY ListAssumption DEF TourInv
<1>2. \A key \in 0..MaxListTime :
        /\ [sortKey EXCEPT ![i] = key] \in Keys
        /\ \A j \in ListIds \ {i} : [sortKey EXCEPT ![i] = key][j] = sortKey[j]
  BY <1>1 DEF Keys
<1>3. CASE RowEnters(i)
  <2>1. PICK key \in 1..listClock : Becomes([sortKey EXCEPT ![i] = key], {i})
    BY <1>3 DEF RowEnters
  <2>2. key \in 1..MaxListTime /\ key \in 0..MaxListTime
    BY <1>1
  <2>3. \A j \in ListIds \ {i} : PlaceInList(sortKey, j) <= PlaceInList([sortKey EXCEPT ![i] = key], j)
    BY <1>1, <1>3, <2>2, EnteringMovesDown DEF RowEnters
  <2> QED BY <1>2, <2>1, <2>2, <2>3, BecomesTour
<1>4. CASE RowLeaves(i)
  <2>1. Becomes([sortKey EXCEPT ![i] = 0], {i}) /\ list.changes # AuditList
    BY <1>4 DEF RowLeaves, AuditList
  <2>2. 0 \in 0..MaxListTime
    BY <1>1
  <2> QED BY <1>2, <2>1, <2>2, BecomesTour
<1>5. CASE RowMoves(i)
  <2>1. Becomes([sortKey EXCEPT ![i] = listClock], {i}) /\ list.changes # AuditList
    BY <1>5 DEF RowMoves, AuditList
  <2>2. listClock \in 0..MaxListTime
    BY <1>1
  <2> QED BY <1>2, <2>1, <2>2, BecomesTour
<1> QED BY <1>3, <1>4, <1>5

LEMMA ReadRowsTour ==
  ASSUME TourInv, ReadRows
  PROVE  TourInv'
<1>1. /\ sortKey \in Keys /\ listClock \in 1..MaxListTime
      /\ WalkAt(page, answers, counting, tour) /\ \A a \in answers[page] : ~a.earlier
      /\ page \in Pages /\ answers \in [Pages -> SUBSET KeptAnswer] /\ counting \subseteq PageRead
      /\ AnswersAreTrue(answers) /\ (list.changes = AuditList => ~tour.slipped)
  BY DEF TourInv, WalkAt
<1>2. /\ counting' = counting \cup {[page |-> page, current |-> TRUE, earlier |-> FALSE]}
      /\ tour' = Reading(tour, page)
      /\ UNCHANGED <<list, listClock, sortKey, page, answers>>
  BY DEF ReadRows
<1>3. /\ tour' \in Tour /\ tour'.began /\ tour'.slipped = tour.slipped
      /\ tour'.outdated = tour.outdated /\ tour'.due \subseteq InList(sortKey)
      /\ ~tour.outdated => \A i \in tour'.due, q \in Pages :
           Taken(q, page, answers, counting) \/ q = page => PageOf(sortKey, i) > q
      /\ LastPageIsLast(answers, tour')
  BY <1>1, <1>2, ReadingGoesOn
<1>4. counting' \subseteq PageRead
  <2>1. [page |-> page, current |-> TRUE, earlier |-> FALSE] \in PageRead
    BY <1>1 DEF PageRead
  <2> QED BY <1>1, <1>2, <2>1
<1>5. \A q \in Pages : Taken(q, page, answers, counting') =>
        Taken(q, page, answers, counting) \/ q = page
  BY <1>2 DEF Taken
<1>6. DueAreBelow(page, answers, counting', tour')
  BY <1>3, <1>5 DEF DueAreBelow
<1>7. WalkAt(page', answers', counting', tour')
  BY <1>1, <1>2, <1>3, <1>4, <1>6 DEF WalkAt, NothingTaken
<1>8. WalkAt(page, answers, counting, tour)'
  BY <1>2, <1>7, ListStays
<1> QED BY <1>1, <1>2, <1>8 DEF TourInv

LEMMA CountRowsTour ==
  ASSUME TourInv, CountRows
  PROVE  TourInv'
<1>1. /\ sortKey \in Keys /\ listClock \in 1..MaxListTime
      /\ \A a \in answers[page] : ~a.earlier
      /\ page \in Pages /\ answers \in [Pages -> SUBSET KeptAnswer] /\ counting \subseteq PageRead
      /\ tour \in Tour /\ AnswersAreTrue(answers) /\ NothingTaken(page, answers, counting, tour)
      /\ tour.due \subseteq InList(sortKey) /\ DueAreBelow(page, answers, counting, tour)
      /\ LastPageIsLast(answers, tour) /\ (list.changes = AuditList => ~tour.slipped)
  BY DEF TourInv, WalkAt
<1>2. PICK read \in counting : \E answer, kept :
        /\ answer = [total |-> ListTotal, current |-> read.current, earlier |-> read.earlier]
        /\ kept = [answers EXCEPT ![read.page] = {answer}]
        /\ counting' = counting \ {read}
        /\ IF read.page = page THEN TurnTo(page, kept, tour)
           ELSE answers' = kept /\ UNCHANGED <<page, tour>>
        /\ UNCHANGED <<list, listClock, sortKey>>
  BY DEF CountRows, ListTotal
<1>3. PICK answer, kept :
        /\ read \in counting
        /\ answer = [total |-> ListTotal, current |-> read.current, earlier |-> read.earlier]
        /\ kept = [answers EXCEPT ![read.page] = {answer}]
        /\ counting' = counting \ {read}
        /\ IF read.page = page THEN TurnTo(page, kept, tour)
           ELSE answers' = kept /\ UNCHANGED <<page, tour>>
        /\ UNCHANGED <<list, listClock, sortKey>>
  BY <1>2
<1>4. read.page \in Pages /\ read.current \in BOOLEAN /\ read.earlier \in BOOLEAN /\ Pages \subseteq Nat
  BY <1>1, <1>3, PageFacts DEF PageRead
<1>5. ListTotal \in Nat
  <2>1. PICK i \in ListIds : TRUE
    BY ListAssumption
  <2>2. PICK m \in Nat : m = Cardinality(InList(sortKey))
    BY <1>1, <2>1, ListPlaces
  <2>3. m + PageSize - 1 \in Nat
    BY ListAssumption
  <2> QED BY <2>2, <2>3, DivNat DEF ListTotal, TotalPages
<1>6. /\ answer \in KeptAnswer /\ answer.total = ListTotal /\ answer.earlier = read.earlier
      /\ kept \in [Pages -> SUBSET KeptAnswer] /\ kept[read.page] = {answer}
      /\ \A q \in Pages : q # read.page => kept[q] = answers[q]
  BY <1>1, <1>3, <1>4, <1>5 DEF KeptAnswer
<1>7. AnswersAreTrue(kept)
  BY <1>1, <1>6 DEF AnswersAreTrue
<1>8. NothingTaken(page, kept, counting', tour)
  BY <1>1, <1>3, <1>6 DEF NothingTaken
<1>9. \A q \in Pages : Taken(q, page, kept, counting') => Taken(q, page, answers, counting)
  BY <1>3, <1>6 DEF Taken
<1>10. DueAreBelow(page, kept, counting', tour)
  BY <1>1, <1>9 DEF DueAreBelow
<1>11. LastPageIsLast(kept, tour)
  <2> SUFFICES ASSUME ~tour.outdated, NEW q \in Pages, NEW a \in kept[q], ~a.earlier, a.total <= q,
                      NEW i \in tour.due
               PROVE  FALSE
    BY DEF LastPageIsLast
  <2>1. CASE q # read.page
    BY <1>1, <1>6, <2>1 DEF LastPageIsLast
  <2>2. CASE q = read.page
    <3>1. a = answer /\ ~read.earlier
      BY <1>6, <2>2
    <3>2. Taken(q, page, answers, counting)
      BY <1>3, <2>2, <3>1 DEF Taken
    <3>3. PageOf(sortKey, i) > q /\ i \in InList(sortKey) /\ q \in Nat
      BY <1>1, <1>4, <3>2 DEF DueAreBelow
    <3>4. ListTotal > q
      BY <1>1, <3>3, TotalIsMore
    <3> QED BY <1>5, <1>6, <3>1, <3>3, <3>4
  <2> QED BY <2>1, <2>2
<1>12. WalkAt(page, kept, counting', tour)
  BY <1>1, <1>3, <1>6, <1>7, <1>8, <1>10, <1>11 DEF WalkAt
<1>13. CASE read.page = page
  BY <1>1, <1>3, <1>12, <1>13, TurnToTour
<1>14. CASE read.page # page
  <2>1. answers' = kept /\ UNCHANGED <<page, tour>>
    BY <1>3, <1>14
  <2>2. WalkAt(page, answers, counting, tour)'
    BY <1>3, <1>12, <2>1, ListStays
  <2>3. \A a \in answers'[page'] : ~a.earlier
    BY <1>1, <1>6, <1>14, <2>1
  <2> QED BY <1>1, <1>3, <2>2, <2>3 DEF TourInv
<1> QED BY <1>13, <1>14

(* The walk turns to a page whose predecessors it has shown. *)
LEMMA TurnsPage ==
  ASSUME TourInv, NEW p \in Pages, p < page \/ (p = page + 1 /\ answers[page] # {}),
         TurnTo(p, answers, tour), UNCHANGED <<list, listClock, sortKey, counting>>
  PROVE  TourInv'
<1>1. /\ sortKey \in Keys /\ listClock \in 1..MaxListTime
      /\ WalkAt(page, answers, counting, tour) /\ \A a \in answers[page] : ~a.earlier
      /\ page \in Pages /\ Pages \subseteq Nat \ {0}
  BY DEF TourInv, WalkAt, Pages
<1>2. \A q \in Pages : Taken(q, p, answers, counting) => Taken(q, page, answers, counting)
  <2>1. answers[page] # {} => Taken(page, page, answers, counting)
    BY <1>1 DEF Taken
  <2>2. \A q \in Pages : q < p => q < page \/ (q = page /\ answers[page] # {})
    <3>1. \A q \in Nat, n \in Nat, m \in Nat :
            q < n /\ (n < m \/ n = m + 1) => q < m \/ (q = m /\ n = m + 1)
      OBVIOUS
    <3>2. page \in Nat /\ p \in Nat /\ Pages \subseteq Nat /\ ~(p < page /\ p = page + 1)
      BY <1>1
    <3> QED BY <3>1, <3>2
  <2> QED BY <2>1, <2>2 DEF Taken
<1>3. tour.began
  BY <1>1 DEF WalkAt, NothingTaken
<1>4. WalkAt(p, answers, counting', tour)
  BY <1>1, <1>2, <1>3 DEF WalkAt, NothingTaken, DueAreBelow
<1> QED BY <1>1, <1>4, TurnToTour

LEMMA ChangeFilterTour ==
  ASSUME TourInv, ChangeFilter
  PROVE  TourInv'
<1>1. /\ page' = 1 /\ counting' = {} /\ answers' = [p \in Pages |-> {}] /\ tour' = NoTour
      /\ UNCHANGED <<list, listClock>>
  BY DEF ChangeFilter, NoAnswers
<1>2. sortKey' \in Keys /\ listClock' \in 1..MaxListTime
  BY <1>1, ListAssumption DEF TourInv, ChangeFilter, Keys
<1>3. WalkAt(page, answers, counting, tour)'
  BY <1>1, PageFacts, NoTourFacts
     DEF WalkAt, AnswersAreTrue, NothingTaken, DueAreBelow, LastPageIsLast, Taken
<1> QED BY <1>1, <1>2, <1>3, PageFacts DEF TourInv

LEMMA ReopenListTour ==
  ASSUME TourInv, ReopenList
  PROVE  TourInv'
<1>1. /\ sortKey \in Keys /\ listClock \in 1..MaxListTime
      /\ answers \in [Pages -> SUBSET KeptAnswer] /\ counting \subseteq PageRead
      /\ AnswersAreTrue(answers)
  BY DEF TourInv, WalkAt
<1>2. PICK kept :
        /\ \E cached \in SUBSET Pages :
             kept = [p \in Pages |-> IF p \in cached THEN Earlier(answers[p]) ELSE {}]
        /\ TurnTo(1, kept, NoTour)
  BY DEF ReopenList
<1>3. counting' = Earlier(counting) /\ UNCHANGED <<list, listClock, sortKey>>
  BY DEF ReopenList
<1>4. counting' \subseteq PageRead /\ \A read \in counting' : read.earlier
  BY <1>1, <1>3 DEF Earlier, PageRead
<1>5. ASSUME NEW q \in Pages
      PROVE  /\ kept[q] \in SUBSET KeptAnswer
             /\ \A b \in kept[q] : \E a \in answers[q] :
                  /\ b = [a EXCEPT !.earlier = TRUE]
                  /\ b.total = a.total /\ b.current = a.current /\ b.earlier
  <2>1. kept[q] = Earlier(answers[q]) \/ kept[q] = {}
    BY <1>2
  <2>2. answers[q] \in SUBSET KeptAnswer
    BY <1>1
  <2> QED BY <2>1, <2>2 DEF Earlier, KeptAnswer
<1>6. kept \in [Pages -> SUBSET KeptAnswer]
  BY <1>2, <1>5
<1>7. AnswersAreTrue(kept)
  <2> SUFFICES ASSUME NEW q \in Pages, NEW b \in kept[q], NEW c \in kept[q]
               PROVE  b = c /\ (b.current => b.total = ListTotal)
    BY DEF AnswersAreTrue
  <2>1. PICK a \in answers[q], d \in answers[q] :
          /\ b = [a EXCEPT !.earlier = TRUE] /\ b.total = a.total /\ b.current = a.current
          /\ c = [d EXCEPT !.earlier = TRUE]
    BY <1>5
  <2> QED BY <1>1, <2>1 DEF AnswersAreTrue
<1>8. WalkAt(1, kept, counting', NoTour)
  BY <1>4, <1>5, <1>6, <1>7, PageFacts, NoTourFacts
     DEF WalkAt, NothingTaken, DueAreBelow, LastPageIsLast
<1> QED BY <1>1, <1>2, <1>3, <1>8, TurnToTour

LEMMA TourStep ==
  ASSUME TourInv, [ListNext]_listVars
  PROVE  TourInv'
<1>1. /\ page \in Pages /\ listClock \in 1..MaxListTime /\ MaxListTime \in Nat /\ Pages \subseteq Nat
      /\ WalkAt(page, answers, counting, tour)
  BY PageFacts, ListAssumption DEF TourInv, WalkAt
<1>2. ASSUME NEW i \in ListIds, RowEnters(i) \/ RowLeaves(i) \/ RowMoves(i) PROVE TourInv'
  BY <1>2, RowTour
<1>3. CASE ListTick \/ UNCHANGED listVars
  <2>1. listClock' \in 1..MaxListTime /\ UNCHANGED <<list, sortKey, page, answers, counting, tour>>
    BY <1>1, <1>3 DEF ListTick, listVars
  <2>2. WalkAt(page, answers, counting, tour)'
    BY <1>1, <2>1, ListStays
  <2> QED BY <2>1, <2>2 DEF TourInv
<1>4. CASE ReadRows \/ CountRows \/ ChangeFilter \/ ReopenList
  BY <1>4, ReadRowsTour, CountRowsTour, ChangeFilterTour, ReopenListTour
<1>5. CASE NextPage
  <2>1. PICK total \in Pages : answers[page] # {} /\ page < total
    BY <1>5 DEF NextPage, Shown
  <2>2. page + 1 \in Pages
    <3>1. page \in Nat /\ total \in Nat /\ page + 1 \in Nat /\ 1 <= page + 1 /\ page + 1 <= total
      BY <1>1, <2>1
    <3> QED BY <2>1, <3>1, PageFacts
  <2> QED BY <1>5, <2>1, <2>2, TurnsPage DEF NextPage
<1>6. CASE PreviousPage
  <2>1. page - 1 \in Pages /\ page - 1 < page
    BY <1>1, <1>6, PageFacts DEF PreviousPage
  <2> QED BY <1>6, <2>1, TurnsPage DEF PreviousPage
<1> QED BY <1>2, <1>3, <1>4, <1>5, <1>6, Zenon DEF ListNext

(***************************************************************************)
(* The walk through numbered pages keeps its inductive invariant: what it  *)
(* has still to show is below every page it has read or shown.             *)
(***************************************************************************)
THEOREM TourInvariance == ListSpec => []TourInv
<1>1. ListInit => TourInv
  BY TourInitInv
<1>2. TourInv /\ [ListNext]_listVars => TourInv'
  BY TourStep
<1> QED BY <1>1, <1>2, PTL DEF ListSpec

(***************************************************************************)
(* For any list, page size and walk through numbered pages, over answers   *)
(* kept by this walk or an earlier one: on the last page every row that    *)
(* was in the list when the walk began and stayed where it was has been    *)
(* shown, although rows and count are read by two statements, unless it    *)
(* moved up onto an earlier page; in the audit trail none does.  The walk  *)
(* that was shown an answer the list had left behind before it began is    *)
(* excepted (stableOrderBy, boundedPage, pageEnvelope).                    *)
(***************************************************************************)
THEOREM NumberedPagesMissNothing == ListSpec => []PagesMissNothing
<1>1. TourInv => PagesMissNothing
  <2> SUFFICES ASSUME TourInv, ~tour.outdated, NEW total \in 0..page, Shown(total)
               PROVE  tour.due = {} /\ (tour.slipped => list.changes # AuditList)
    BY DEF PagesMissNothing
  <2>1. PICK a \in answers[page] : a.total = total
    BY DEF Shown
  <2>2. page \in Pages /\ ~a.earlier /\ a.total <= page
    BY <2>1, PageFacts DEF TourInv, WalkAt
  <2> QED BY <2>1, <2>2 DEF TourInv, WalkAt, LastPageIsLast
<1> QED BY <1>1, TourInvariance, PTL

-----------------------------------------------------------------------------
(* DataExport: what a complete document holds.                              *)

Written == {written[n] : n \in DOMAIN written}

(* The rows the document owes its reader. *)
Owed == atStart \cap exportRow

ArrayOf(frame) == {i \in ExportIds : TableOf[i] = frame.table /\ ParentOf[i] = frame.of}

ExportStateOK ==
  /\ exportRow \subseteq ExportIds /\ exportGone \subseteq ExportIds
  /\ exportState \in {"idle", "streaming", "complete", "failed"}
  /\ section \in 0..Len(Sections)
  /\ stack \in Seq(Frame) /\ written \in Seq(ExportIds)
  /\ atStart \subseteq exportRow \cup exportGone /\ cut \in BOOLEAN
  /\ exportState = "idle" => atStart = {} /\ written = <<>> /\ stack = <<>>
  /\ exportState = "streaming" => stack # <<>> /\ section \in DOMAIN Sections
  /\ exportState = "complete" => stack = <<>> /\ section = Len(Sections)

(* The foreign keys hold, as they did at the start. *)
RowsHaveParents ==
  /\ \A i \in exportRow : ParentOf[i] \in exportRow \cup {0}
  /\ \A i \in atStart : ParentOf[i] \in atStart \cup {0}

(* The generators under way are nested in one another. *)
FramesAreNested ==
  /\ \A j, k \in DOMAIN stack : stack[j].of = stack[k].of => j = k
  /\ \A k \in DOMAIN stack :
       IF k = 1 THEN stack[k].of = 0 /\ stack[k].table = Sections[section]
       ELSE /\ stack[k].of \in Written \cap ArrayOf(stack[k - 1])
            /\ stack[k].table = NestedIn[stack[k - 1].table]

(* An array is written in the order of its ids. *)
FrameInOrder(frame) ==
  /\ frame.after \in ArrayOf(frame) \cup {0}
  /\ frame.todo \subseteq ArrayOf(frame) \ Written
  /\ \A i \in frame.todo : i <= frame.after
  /\ \A i \in Written \cap ArrayOf(frame) : i <= frame.after

FramesInOrder == \A k \in DOMAIN stack : FrameInOrder(stack[k])

(* Arrays are opened once: nested ones with their row, the others in order. *)
WrittenOnce ==
  /\ \A m, n \in DOMAIN written : written[m] = written[n] => m = n
  /\ \A i \in Written : IF ParentOf[i] = 0
                        THEN \E n \in 1..section : Sections[n] = TableOf[i]
                        ELSE ParentOf[i] \in Written

FrameIsWhole(frame) ==
  \A i \in Owed \cap ArrayOf(frame) :
    i <= frame.after \/ ~frame.more => i \in Written \cup frame.todo

(* What is owed up to the cursor of each array, and of each array that is  *)
(* closed, has been written.                                               *)
DocumentIsWhole ==
  ~cut /\ exportState \in {"streaming", "complete"} =>
    /\ \A k \in DOMAIN stack : FrameIsWhole(stack[k])
    /\ \A i \in Owed : ParentOf[i] # 0 =>
         \/ i \in Written \/ ParentOf[i] \notin Written
         \/ \E k \in DOMAIN stack : stack[k].of = ParentOf[i]
    /\ \A i \in Owed, n \in DOMAIN Sections :
         ParentOf[i] = 0 /\ TableOf[i] = Sections[n] =>
           i \in Written \/ n > section \/ (n = section /\ exportState = "streaming")

ExportInv ==
  /\ ExportStateOK /\ RowsHaveParents /\ FramesAreNested /\ FramesInOrder
  /\ WrittenOnce /\ DocumentIsWhole

(* A finite set of numbers has a largest one. *)
LEMMA LargestOf ==
  ASSUME NEW S, S \subseteq Nat, IsFiniteSet(S), S # {}
  PROVE  \E n \in S : \A k \in S : k <= n
<1> DEFINE Above(i) == {j \in S : j > i}
<1>1. \A i \in S : IsFiniteSet(Above(i)) /\ Cardinality(Above(i)) \in Nat
  BY FS_Subset, FS_CardinalityType
<1> DEFINE N == {Cardinality(Above(i)) : i \in S}
<1>2. N \subseteq Nat /\ N # {}
  BY <1>1
<1> HIDE DEF N
<1>3. PICK least \in N : \A k \in N : least <= k
  BY <1>2, SmallestOf
<1>4. PICK i \in S : least = Cardinality(Above(i))
  BY <1>3 DEF N
<1>5. ASSUME NEW j \in S, ~(j <= i) PROVE FALSE
  <2>1. j > i /\ j \in Nat /\ i \in Nat
    BY <1>5
  <2>2. \A k \in S : k \in Nat
    OBVIOUS
  <2>3. ~(j > j) /\ \A k \in S : k > j => k > i
    BY <2>1, <2>2
  <2>4. Above(j) \in SUBSET Above(i) /\ j \in Above(i) /\ j \notin Above(j)
    BY <2>1, <2>3
  <2>5. Cardinality(Above(j)) <= Cardinality(Above(i)) /\ Cardinality(Above(j)) # Cardinality(Above(i))
    BY <1>1, <2>4, FS_Subset
  <2>6. Cardinality(Above(j)) \in N
    BY DEF N
  <2> QED BY <1>1, <1>3, <1>4, <2>5, <2>6
<1> QED BY <1>5

(* take: what is in a batch, and that one that is not full is the last. *)
LEMMA Batches ==
  ASSUME NEW rows \in SUBSET ExportIds
  PROVE  /\ IsFiniteSet(rows) /\ FirstOf(rows) \subseteq rows
         /\ \A m \in FirstOf(rows), i \in rows : i <= m => i \in FirstOf(rows)
         /\ ~MoreAfter(FirstOf(rows)) => FirstOf(rows) = rows
         /\ FirstOf(rows) # {} =>
              /\ Max(FirstOf(rows)) \in FirstOf(rows)
              /\ \A i \in FirstOf(rows) : i <= Max(FirstOf(rows))
<1> DEFINE F == FirstOf(rows)  Below(i) == {j \in rows : j < i}
<1>1. IsFiniteSet(rows) /\ rows \subseteq Nat /\ BatchSize \in Nat \ {0}
  BY ExportAssumption, FS_Subset
<1>2. /\ F \in SUBSET rows /\ IsFiniteSet(F) /\ Cardinality(F) \in Nat
      /\ \A i \in rows : i \in F <=> Cardinality(Below(i)) < BatchSize
  <2>1. F \in SUBSET rows
    BY DEF FirstOf
  <2> QED BY <1>1, <2>1, FS_Subset, FS_CardinalityType DEF FirstOf
<1>3. \A i \in rows : IsFiniteSet(Below(i)) /\ Cardinality(Below(i)) \in Nat
  BY <1>1, FS_Subset, FS_CardinalityType
<1>4. ASSUME NEW m \in F, NEW i \in rows, i <= m PROVE i \in F
  <2>1. m \in rows /\ i \in Nat /\ m \in Nat
    BY <1>1, <1>2
  <2>2. \A j \in rows : j \in Nat
    BY <1>1
  <2>3. \A j \in rows : j < i => j < m
    BY <1>4, <2>1, <2>2
  <2>4. Below(i) \in SUBSET Below(m)
    BY <2>3
  <2>5. Cardinality(Below(i)) <= Cardinality(Below(m))
    BY <1>3, <2>1, <2>4, FS_Subset
  <2> QED BY <1>1, <1>2, <1>3, <2>1, <2>5
<1>5. F # {} => Max(F) \in F /\ \A i \in F : i <= Max(F)
  <2> SUFFICES ASSUME F # {} PROVE Max(F) \in F /\ \A i \in F : i <= Max(F)
    OBVIOUS
  <2>1. F \subseteq Nat
    BY <1>1, <1>2
  <2>2. \E n \in F : \A k \in F : k <= n
    BY <1>2, <2>1, LargestOf
  <2>3. \E n \in F : \A k \in F : n >= k
    BY <2>1, <2>2
  <2>4. Max(F) \in F /\ \A k \in F : Max(F) >= k
    BY <2>3 DEF Max
  <2> QED BY <2>1, <2>4
<1>6. Cardinality(F) <= BatchSize
  <2>1. CASE F = {}
    BY <1>1, <2>1, FS_EmptySet
  <2>2. CASE F # {}
    <3>1. PICK m \in F : \A i \in F : i <= m
      BY <1>5, <2>2
    <3>2. m \in rows /\ m \in Nat /\ \A i \in F : i \in rows /\ i \in Nat
      BY <1>1, <1>2
    <3>3. ~(m < m) /\ \A i \in F : i < m \/ i = m
      BY <3>1, <3>2
    <3>4. m \in rows /\ m \notin Below(m) /\ F \in SUBSET (Below(m) \cup {m})
      BY <3>2, <3>3
    <3>5. IsFiniteSet(Below(m) \cup {m}) /\ Cardinality(Below(m) \cup {m}) = Cardinality(Below(m)) + 1
      BY <1>3, <3>4, FS_AddElement
    <3>6. Cardinality(F) <= Cardinality(Below(m)) + 1
      BY <3>4, <3>5, FS_Subset
    <3> QED BY <1>1, <1>2, <1>3, <3>4, <3>6
  <2> QED BY <2>1, <2>2
<1>7. ASSUME F # rows PROVE Cardinality(F) = BatchSize
  <2>1. rows \ F # {} /\ rows \ F \subseteq Nat
    BY <1>1, <1>2, <1>7
  <2>2. PICK i \in rows \ F : \A j \in rows \ F : i <= j
    BY <2>1, SmallestOf
  <2>3. i \in Nat /\ \A j \in rows : j \in Nat
    BY <1>1, <2>2
  <2>4. \A j \in rows : j < i => j \in F
    BY <2>2, <2>3
  <2>5. Below(i) \in SUBSET F
    BY <2>4
  <2>6. Cardinality(Below(i)) <= Cardinality(F)
    BY <1>2, <2>5, FS_Subset
  <2>7. ~(Cardinality(Below(i)) < BatchSize)
    BY <1>2, <2>2
  <2> QED BY <1>1, <1>2, <1>3, <1>6, <2>2, <2>6, <2>7
<1> HIDE DEF F
<1>8. ~MoreAfter(F) => F = rows
  BY <1>7 DEF MoreAfter
<1> QED BY <1>1, <1>2, <1>4, <1>5, <1>8 DEF F

(* The cascade of the foreign keys leaves no row without its parent. *)
LEMMA CascadeKeepsParents ==
  ASSUME NEW rows \in SUBSET ExportIds
  PROVE  /\ Cascade(rows) \subseteq rows
         /\ \A i \in Cascade(rows) : ParentOf[i] \in Cascade(rows) \cup {0}
<1> DEFINE once == rows \ Orphans(rows)
<1>1. Cascade(rows) = once \ Orphans(once) /\ once \subseteq rows
  BY DEF Cascade
<1>2. ASSUME NEW i \in Cascade(rows), ParentOf[i] # 0 PROVE ParentOf[i] \in Cascade(rows)
  <2>1. i \in once /\ ParentOf[i] \in once
    BY <1>1, <1>2 DEF Orphans
  <2>2. i \in ExportIds /\ ParentOf[i] \in ExportIds
    BY <2>1
  <2>3. ParentOf[ParentOf[i]] \in rows \cup {0}
    BY <2>1 DEF Orphans
  <2>4. ParentOf[ParentOf[i]] = 0 \/ ParentOf[ParentOf[ParentOf[i]]] = 0
    BY <2>2, <2>3, ExportAssumption
  <2>5. ParentOf[ParentOf[i]] \in once \cup {0}
    BY <2>3, <2>4 DEF Orphans
  <2> QED BY <1>1, <2>1, <2>5 DEF Orphans
<1> QED BY <1>1, <1>2

LEMMA ExportInitInv == ExportInit => ExportInv
<1> SUFFICES ASSUME ExportInit PROVE ExportInv
  OBVIOUS
<1>1. Written = {} /\ stack = <<>> /\ DOMAIN stack = {} /\ DOMAIN written = {}
  BY DEF ExportInit, Written
<1>2. Len(Sections) \in Nat
  BY ExportAssumption
<1>3. section \in 0..Len(Sections) /\ stack \in Seq(Frame) /\ written \in Seq(ExportIds)
  BY <1>2 DEF ExportInit
<1>4. ExportStateOK
  BY <1>3 DEF ExportInit, ExportStateOK
<1> QED BY <1>1, <1>4 DEF ExportInit, ExportInv, RowsHaveParents, FramesAreNested, FramesInOrder,
                         WrittenOnce, DocumentIsWhole

(* Rows come and go: nothing more is owed than before. *)
LEMMA EditsExport ==
  ASSUME ExportInv, Edit, exportRow' \subseteq ExportIds, exportGone' \subseteq ExportIds,
         exportRow \cup exportGone \subseteq exportRow' \cup exportGone',
         exportRow' \cap (exportRow \cup exportGone) \subseteq exportRow,
         \A i \in exportRow' : ParentOf[i] \in exportRow' \cup {0}
  PROVE  ExportInv'
<1>1. UNCHANGED <<exportState, section, stack, written, atStart, cut>>
  BY DEF Edit
<1>2. ExportStateOK'
  BY <1>1 DEF ExportInv, ExportStateOK
<1>3. Written' = Written /\ Owed' \subseteq Owed
  BY <1>1 DEF ExportInv, ExportStateOK, Written, Owed
<1>4. RowsHaveParents' /\ FramesAreNested' /\ FramesInOrder' /\ WrittenOnce'
  BY <1>1, <1>3 DEF ExportInv, RowsHaveParents, FramesAreNested, FramesInOrder, FrameInOrder,
                    WrittenOnce, ArrayOf
<1>5. DocumentIsWhole'
  BY <1>1, <1>3 DEF ExportInv, DocumentIsWhole, FrameIsWhole, ArrayOf
<1> QED BY <1>2, <1>4, <1>5 DEF ExportInv

LEMMA InsertRowExport ==
  ASSUME ExportInv, NEW i \in ExportIds, InsertRow(i)
  PROVE  ExportInv'
<1>1. /\ i \notin exportRow \cup exportGone /\ ParentOf[i] \in exportRow \cup {0}
      /\ exportRow' = exportRow \cup {i} /\ exportGone' = exportGone /\ Edit
  BY DEF InsertRow
<1> QED BY <1>1, EditsExport DEF ExportInv, ExportStateOK, RowsHaveParents

LEMMA RemoveRowsExport ==
  ASSUME ExportInv, NEW rows, RemoveRows(rows)
  PROVE  ExportInv'
<1>1. exportRow \subseteq ExportIds /\ exportGone \subseteq ExportIds
  BY DEF ExportInv, ExportStateOK
<1>2. /\ exportRow' \subseteq exportRow
      /\ \A i \in exportRow' : ParentOf[i] \in exportRow' \cup {0}
  BY <1>1, CascadeKeepsParents DEF RemoveRows
<1>3. exportGone' = exportGone \cup (exportRow \ exportRow') /\ Edit
  BY DEF RemoveRows
<1> QED BY <1>1, <1>2, <1>3, EditsExport

(* What a new generator knows. *)
LEMMA NewFrames ==
  ASSUME NEW table \in Tables, NEW of \in ExportIds \cup {0}
  PROVE  /\ NewFrame(table, of) \in Frame
         /\ NewFrame(table, of).table = table /\ NewFrame(table, of).of = of
         /\ NewFrame(table, of).after = 0 /\ NewFrame(table, of).todo = {}
         /\ NewFrame(table, of).more
BY DEF NewFrame, Frame

LEMMA StartExportInv ==
  ASSUME ExportInv, StartExport
  PROVE  ExportInv'
<1>1. /\ exportState' = "streaming" /\ section' = 1
      /\ stack' = <<NewFrame(Sections[1], 0)>> /\ atStart' = exportRow
      /\ UNCHANGED <<exportRow, exportGone, written, cut>>
  BY DEF StartExport
<1>2. written = <<>> /\ Written = {} /\ Written' = {} /\ DOMAIN written = {}
  BY <1>1 DEF StartExport, ExportInv, ExportStateOK, Written
<1>3. 1 \in DOMAIN Sections /\ Sections[1] \in Tables /\ Len(Sections) \in Nat
      /\ DOMAIN Sections = 1..Len(Sections)
  BY ExportAssumption
<1>4. PICK frame : frame = NewFrame(Sections[1], 0)
  OBVIOUS
<1>5. /\ frame \in Frame /\ frame.table = Sections[1] /\ frame.of = 0 /\ frame.after = 0
      /\ frame.todo = {} /\ frame.more
  BY <1>3, <1>4, NewFrames
<1>6. stack' \in Seq(Frame) /\ DOMAIN stack' = {1} /\ stack'[1] = frame /\ stack' # <<>>
  BY <1>1, <1>4, <1>5
<1>7. ExportStateOK'
  <2>1. section' \in 0..Len(Sections) /\ section' \in DOMAIN Sections
    BY <1>1, <1>3
  <2>2. /\ exportRow \subseteq ExportIds /\ exportGone \subseteq ExportIds
        /\ written \in Seq(ExportIds) /\ cut \in BOOLEAN
    BY DEF ExportInv, ExportStateOK
  <2> QED BY <1>1, <1>6, <2>1, <2>2 DEF ExportStateOK
<1>8. RowsHaveParents' /\ WrittenOnce'
  BY <1>1, <1>2 DEF ExportInv, RowsHaveParents, WrittenOnce
<1>9. FramesAreNested'
  BY <1>1, <1>5, <1>6 DEF FramesAreNested
<1>10. FramesInOrder'
  BY <1>2, <1>5, <1>6 DEF FramesInOrder, FrameInOrder
<1>11. FrameIsWhole(frame)'
  <2>1. \A i \in ExportIds : ~(i <= 0)
    BY ExportAssumption
  <2> QED BY <1>5, <2>1 DEF FrameIsWhole, ArrayOf
<1>12. DocumentIsWhole'
  <2>1. \A n \in DOMAIN Sections : n > 1 \/ n = 1
    BY <1>3
  <2> QED BY <1>1, <1>2, <1>6, <1>11, <2>1 DEF DocumentIsWhole
<1> QED BY <1>7, <1>8, <1>9, <1>10, <1>12 DEF ExportInv

(* The frames below the top one, and the top. *)
LEMMA TopFrame ==
  ASSUME ExportInv, exportState = "streaming"
  PROVE  /\ Len(stack) \in Nat \ {0} /\ DOMAIN stack = 1..Len(stack)
         /\ Len(stack) \in DOMAIN stack /\ 1 \in DOMAIN stack
         /\ Top = stack[Len(stack)] /\ Top \in Frame
         /\ \A k \in DOMAIN stack : stack[k] \in Frame
         /\ FrameInOrder(Top)
         /\ Written \subseteq ExportIds
         /\ \A k \in DOMAIN stack : stack[k].of \in Written \cup {0}
<1>1. stack \in Seq(Frame) /\ stack # <<>> /\ written \in Seq(ExportIds)
  BY DEF ExportInv, ExportStateOK
<1>2. /\ Len(stack) \in Nat \ {0} /\ DOMAIN stack = 1..Len(stack)
      /\ Len(stack) \in DOMAIN stack /\ 1 \in DOMAIN stack
      /\ \A k \in DOMAIN stack : stack[k] \in Frame
  BY <1>1
<1> QED BY <1>1, <1>2 DEF ExportInv, FramesInOrder, FramesAreNested, Top, Written

LEMMA ReplacedTop ==
  ASSUME ExportInv, exportState = "streaming", NEW frame \in Frame,
         frame.table = Top.table, frame.of = Top.of
  PROVE  /\ ReplaceTop(frame) \in Seq(Frame) /\ ReplaceTop(frame) # <<>>
         /\ Len(ReplaceTop(frame)) = Len(stack)
         /\ DOMAIN ReplaceTop(frame) = DOMAIN stack
         /\ ReplaceTop(frame)[Len(stack)] = frame
         /\ \A k \in DOMAIN stack : k # Len(stack) => ReplaceTop(frame)[k] = stack[k]
         /\ \A k \in DOMAIN stack : /\ ReplaceTop(frame)[k].of = stack[k].of
                                    /\ ReplaceTop(frame)[k].table = stack[k].table
<1>1. stack \in Seq(Frame) /\ Len(stack) \in DOMAIN stack
  BY TopFrame DEF ExportInv, ExportStateOK
<1>2. /\ ReplaceTop(frame) \in Seq(Frame) /\ Len(ReplaceTop(frame)) = Len(stack)
      /\ DOMAIN ReplaceTop(frame) = DOMAIN stack
      /\ ReplaceTop(frame)[Len(stack)] = frame
      /\ \A k \in DOMAIN stack : k # Len(stack) => ReplaceTop(frame)[k] = stack[k]
  BY <1>1 DEF ReplaceTop
<1> QED BY <1>1, <1>2, TopFrame

LEMMA FetchBatchExport ==
  ASSUME ExportInv, FetchBatch
  PROVE  ExportInv'
<1>1. /\ exportState = "streaming" /\ Top.todo = {}
      /\ UNCHANGED <<exportRow, exportGone, exportState, section, written, atStart>>
      /\ cut' = (cut \/ Top.after \notin exportRow \cup {0}) /\ cut \in BOOLEAN
  BY DEF FetchBatch, ExportInv, ExportStateOK
<1>2. /\ Top \in Frame /\ FrameInOrder(Top) /\ exportRow \subseteq ExportIds
      /\ Written \subseteq ExportIds
      /\ ExportIds \subseteq Nat \ {0}
      /\ Top.after \in ExportIds \cup {0} /\ Top.after \in Nat
  <2>1. Top \in Frame
    BY <1>1, TopFrame
  <2>2. Top.after \in ExportIds \cup {0}
    BY <2>1 DEF Frame
  <2>3. ExportIds \subseteq Nat \ {0}
    BY ExportAssumption
  <2>4. \A x \in ExportIds \cup {0} : x \in Nat
    BY <2>3
  <2>5. Top.after \in Nat
    BY <2>2, <2>4
  <2> QED BY <1>1, <2>1, <2>2, <2>3, <2>5, TopFrame, ExportAssumption DEF ExportInv, ExportStateOK
<1> DEFINE rows == IF Top.after = 0 THEN RowsOf(Top)
                   ELSE IF Top.after \in exportRow
                        THEN {i \in RowsOf(Top) : i > Top.after} ELSE {}
           read == FirstOf(rows)
<1>3. /\ ExportCursorPage(Top) = read
      /\ rows \subseteq ArrayOf(Top) /\ rows \in SUBSET ExportIds
      /\ \A i \in rows : i > Top.after
  <2>1. RowsOf(Top) \subseteq ArrayOf(Top) /\ ArrayOf(Top) \subseteq ExportIds
    BY <1>2 DEF RowsOf, ArrayOf
  <2>2. \A i \in ExportIds : i > 0
    BY <1>2
  <2> QED BY <2>1, <2>2 DEF ExportCursorPage
<1>4. /\ read \subseteq rows
      /\ \A m \in read, i \in rows : i <= m => i \in read
      /\ ~MoreAfter(read) => read = rows
      /\ read # {} => Max(read) \in read /\ \A i \in read : i <= Max(read)
  BY <1>3, Batches
<1>5. ~cut' => /\ ~cut
               /\ \A i \in Owed \cap ArrayOf(Top) : i <= Top.after \/ i \in rows
  <2> SUFFICES ASSUME ~cut', NEW i \in Owed \cap ArrayOf(Top), ~(i <= Top.after) PROVE i \in rows
    BY <1>1
  <2>1. i \in RowsOf(Top)
    BY DEF Owed, ArrayOf, RowsOf
  <2>2. i > Top.after
    <3>1. i \in Nat
      BY <1>2 DEF ArrayOf
    <3> QED BY <1>2, <3>1
  <2>3. Top.after = 0 \/ Top.after \in exportRow
    BY <1>1
  <2> QED BY <2>1, <2>2, <2>3
<1>6. PICK batch : batch = read
  OBVIOUS
<1>7. PICK more \in BOOLEAN : more = MoreAfter(batch)
  BY DEF MoreAfter
<1>8. PICK after : after = IF batch = {} THEN Top.after ELSE Max(batch)
  OBVIOUS
<1>9. PICK frame : frame = [Top EXCEPT !.todo = batch, !.more = more, !.after = after]
  OBVIOUS
<1>10. /\ batch \subseteq ArrayOf(Top) /\ batch \subseteq ExportIds
       /\ after \in ArrayOf(Top) \cup {0} /\ after \in Nat /\ Top.after <= after
       /\ \A i \in batch : i <= after /\ i > Top.after
       /\ ~cut' => /\ ~cut
                   /\ \A i \in Owed \cap ArrayOf(Top) :
                        i <= after \/ ~more => i <= Top.after \/ i \in batch
  <2>1. CASE batch = {}
    <3>1. after = Top.after
      BY <2>1, <1>8
    <3>2. ~more => rows = {}
      BY <1>4, <1>6, <1>7, <2>1
    <3>3. ~more
      <4>1. Cardinality(batch) = 0 /\ BatchSize # 0
        BY <2>1, FS_EmptySet, ExportAssumption
      <4> QED BY <1>7, <4>1 DEF MoreAfter
    <3> QED BY <1>2, <1>5, <2>1, <3>1, <3>2, <3>3 DEF FrameInOrder
  <2>2. CASE batch # {}
    <3>1. after \in batch /\ \A i \in batch : i <= after
      BY <1>4, <1>6, <1>8, <2>2
    <3>2. batch \subseteq ArrayOf(Top) /\ batch \subseteq ExportIds /\ \A i \in batch : i > Top.after
      BY <1>3, <1>4, <1>6
    <3>3. after \in Nat /\ Top.after <= after /\ after \in ArrayOf(Top)
      <4>1. after \in ArrayOf(Top) /\ after \in Nat /\ after > Top.after
        BY <1>2, <3>1, <3>2
      <4> QED BY <1>2, <4>1
    <3>4. \A i \in rows : i <= after \/ ~more => i \in batch
      BY <1>4, <1>6, <1>7, <3>1
    <3> QED BY <1>5, <3>1, <3>2, <3>3, <3>4
  <2> QED BY <2>1, <2>2
<1> HIDE DEF rows, read
<1>11. /\ frame \in Frame /\ frame.table = Top.table /\ frame.of = Top.of
       /\ frame.todo = batch /\ frame.more = more /\ frame.after = after
  <2>1. after \in ExportIds \cup {0}
    BY <1>10 DEF ArrayOf
  <2> QED BY <1>2, <1>9, <1>10, <2>1 DEF Frame
<1>12. stack' = ReplaceTop(frame)
  BY <1>3, <1>6, <1>7, <1>8, <1>9 DEF FetchBatch
<1>13. /\ stack' \in Seq(Frame) /\ stack' # <<>> /\ DOMAIN stack' = DOMAIN stack
       /\ stack'[Len(stack)] = frame
       /\ \A k \in DOMAIN stack : k # Len(stack) => stack'[k] = stack[k]
       /\ \A k \in DOMAIN stack : stack'[k].of = stack[k].of /\ stack'[k].table = stack[k].table
  BY <1>1, <1>11, <1>12, ReplacedTop
<1>14. /\ Written' = Written /\ Owed' = Owed
       /\ \A i \in Written \cap ArrayOf(Top) : i <= Top.after
  BY <1>1, <1>2 DEF Written, Owed, FrameInOrder
<1>15. \A k \in DOMAIN stack : ArrayOf(stack'[k]) = ArrayOf(stack[k])
  BY <1>13 DEF ArrayOf
<1>16. ArrayOf(frame) = ArrayOf(Top)
  BY <1>11 DEF ArrayOf
<1>17. ExportStateOK' /\ RowsHaveParents' /\ WrittenOnce'
  BY <1>1, <1>13, <1>14 DEF ExportInv, ExportStateOK, RowsHaveParents, WrittenOnce
<1>18. FramesAreNested'
  <2>1. \A k \in DOMAIN stack : k # 1 => k - 1 \in DOMAIN stack
    BY <1>1, TopFrame
  <2> QED BY <1>1, <1>13, <1>14, <1>15, <2>1 DEF ExportInv, FramesAreNested
<1>19. FrameInOrder(frame)
  <2>1. \A i \in Written \cap ArrayOf(Top) : i <= after /\ i \notin batch
    <3> SUFFICES ASSUME NEW i \in Written \cap ArrayOf(Top) PROVE i <= after /\ i \notin batch
      OBVIOUS
    <3>1. i \in Nat /\ i <= Top.after
      BY <1>2, <1>14
    <3>2. i <= after
      BY <1>2, <1>10, <3>1
    <3>3. ~(i > Top.after)
      BY <1>2, <3>1
    <3> QED BY <1>10, <3>2, <3>3
  <2> QED BY <1>10, <1>11, <1>16, <2>1 DEF FrameInOrder
<1>20. FramesInOrder'
  BY <1>13, <1>14, <1>19 DEF ExportInv, FramesInOrder, FrameInOrder
<1>21. DocumentIsWhole'
  <2> SUFFICES ASSUME ~cut' PROVE
         /\ \A k \in DOMAIN stack : FrameIsWhole(stack[k])'
         /\ \A i \in Owed : ParentOf[i] # 0 =>
              \/ i \in Written \/ ParentOf[i] \notin Written
              \/ \E k \in DOMAIN stack : stack[k].of = ParentOf[i]
         /\ \A i \in Owed, n \in DOMAIN Sections :
              ParentOf[i] = 0 /\ TableOf[i] = Sections[n] =>
                i \in Written \/ n > section \/ (n = section /\ exportState = "streaming")
    BY <1>1, <1>13, <1>14 DEF DocumentIsWhole
  <2>1. ~cut /\ \A k \in DOMAIN stack : FrameIsWhole(stack[k])
    BY <1>1, <1>10 DEF ExportInv, DocumentIsWhole
  <2>2. FrameIsWhole(frame)
    <3> SUFFICES ASSUME NEW i \in Owed \cap ArrayOf(Top), i <= after \/ ~more
                 PROVE  i \in Written \cup batch
      BY <1>11, <1>16 DEF FrameIsWhole
    <3>1. i <= Top.after \/ i \in batch
      BY <1>10
    <3>2. FrameIsWhole(Top)
      BY <1>1, <2>1, TopFrame
    <3> QED BY <1>1, <3>1, <3>2 DEF FrameIsWhole
  <2>3. \A k \in DOMAIN stack : FrameIsWhole(stack[k])'
    BY <1>13, <1>14, <2>1, <2>2 DEF FrameIsWhole
  <2> QED BY <1>1, <2>1, <2>3 DEF ExportInv, DocumentIsWhole
<1> QED BY <1>17, <1>18, <1>20, <1>21 DEF ExportInv

LEMMA WriteRowExport ==
  ASSUME ExportInv, WriteRow
  PROVE  ExportInv'
<1>1. /\ exportState = "streaming" /\ Top.todo # {}
      /\ UNCHANGED <<exportRow, exportGone, exportState, section, atStart, cut>>
  BY DEF WriteRow
<1>2. /\ Top \in Frame /\ FrameInOrder(Top) /\ Written \subseteq ExportIds
      /\ ExportIds \subseteq Nat \ {0} /\ Top = stack[Len(stack)] /\ Len(stack) \in DOMAIN stack
      /\ Len(stack) \in Nat \ {0} /\ DOMAIN stack = 1..Len(stack) /\ 1 \in DOMAIN stack
      /\ written \in Seq(ExportIds) /\ stack \in Seq(Frame)
      /\ \A k \in DOMAIN stack : stack[k].of \in Written \cup {0}
  BY <1>1, TopFrame, ExportAssumption DEF ExportInv, ExportStateOK
<1>3. PICK i : i = Min(Top.todo)
  OBVIOUS
<1>4. i \in Top.todo
  <2>1. Top.todo \subseteq Nat
    BY <1>2 DEF Frame
  <2>2. \E n \in Top.todo : \A k \in Top.todo : n <= k
    BY <1>1, <2>1, SmallestOf
  <2> QED BY <1>3, <2>2 DEF Min
<1>5. /\ i \in ExportIds /\ i \in ArrayOf(Top) /\ i \notin Written /\ i <= Top.after /\ i # 0
      /\ TableOf[i] = Top.table /\ ParentOf[i] = Top.of
  BY <1>2, <1>4 DEF FrameInOrder, ArrayOf
<1>6. /\ ParentOf[i] \in Written \cup {0} /\ ParentOf[i] # i
      /\ \A k \in DOMAIN stack : k # Len(stack) => stack[k].of # ParentOf[i]
  BY <1>2, <1>5 DEF ExportInv, FramesAreNested
<1>7. PICK frame : frame = [Top EXCEPT !.todo = @ \ {i}]
  OBVIOUS
<1>8. /\ frame \in Frame /\ frame.table = Top.table /\ frame.of = Top.of
      /\ frame.todo = Top.todo \ {i} /\ frame.more = Top.more /\ frame.after = Top.after
  BY <1>2, <1>7 DEF Frame
<1>9. PICK rest : rest = ReplaceTop(frame)
  OBVIOUS
<1>10. /\ rest \in Seq(Frame) /\ rest # <<>> /\ Len(rest) = Len(stack) /\ DOMAIN rest = DOMAIN stack
       /\ rest[Len(stack)] = frame
       /\ \A k \in DOMAIN stack : k # Len(stack) => rest[k] = stack[k]
       /\ \A k \in DOMAIN stack : rest[k].of = stack[k].of /\ rest[k].table = stack[k].table
  BY <1>1, <1>8, <1>9, ReplacedTop
<1>11. PICK nested : nested = NestedIn[Top.table]
  OBVIOUS
<1>12. nested # "none" => nested \in Tables
  BY <1>2, <1>11, ExportAssumption DEF Frame
<1>13. PICK new : new = NewFrame(nested, i)
  OBVIOUS
<1>14. nested # "none" =>
         /\ new \in Frame /\ new.table = nested /\ new.of = i /\ new.after = 0
         /\ new.todo = {} /\ new.more
  BY <1>5, <1>12, <1>13, NewFrames
<1>15. /\ written' = Append(written, i)
       /\ stack' = IF nested = "none" THEN rest ELSE Append(rest, new)
  BY <1>3, <1>7, <1>9, <1>11, <1>13 DEF WriteRow
<1>16. /\ stack' \in Seq(Frame) /\ stack' # <<>>
       /\ DOMAIN stack' = DOMAIN stack \cup (IF nested = "none" THEN {} ELSE {Len(stack) + 1})
       /\ \A k \in DOMAIN stack : stack'[k] = rest[k]
       /\ nested # "none" => stack'[Len(stack) + 1] = new
  <2>1. CASE nested = "none"
    BY <1>10, <1>15, <2>1
  <2>2. CASE nested # "none"
    <3>1. stack' = Append(rest, new) /\ new \in Frame
      BY <1>14, <1>15, <2>2
    <3>2. /\ stack' \in Seq(Frame) /\ Len(stack') = Len(stack) + 1
          /\ DOMAIN stack' = 1..(Len(stack) + 1) /\ stack'[Len(stack) + 1] = new
          /\ \A k \in 1..Len(stack) : stack'[k] = rest[k]
      BY <1>2, <1>10, <3>1
    <3> QED BY <1>2, <2>2, <3>2
  <2> QED BY <2>1, <2>2
<1>17. /\ written' \in Seq(ExportIds) /\ Written' = Written \cup {i} /\ Owed' = Owed
       /\ \A m, n \in DOMAIN written' : written'[m] = written'[n] => m = n
  <2>1. /\ written' \in Seq(ExportIds) /\ DOMAIN written' = DOMAIN written \cup {Len(written) + 1}
        /\ written'[Len(written) + 1] = i
        /\ \A n \in DOMAIN written : written'[n] = written[n]
    BY <1>2, <1>5, <1>15
  <2>2. \A n \in DOMAIN written : written[n] # i
    BY <1>5 DEF Written
  <2>3. Written' = Written \cup {i}
    BY <2>1 DEF Written
  <2> QED BY <1>1, <2>1, <2>2, <2>3 DEF ExportInv, WrittenOnce, Owed
<1>18. \A k \in DOMAIN stack : ArrayOf(stack'[k]) = ArrayOf(stack[k])
  BY <1>10, <1>16 DEF ArrayOf
<1>19. ExportStateOK' /\ RowsHaveParents'
  BY <1>1, <1>16, <1>17 DEF ExportInv, ExportStateOK, RowsHaveParents
<1>20. WrittenOnce'
  <2>1. ASSUME ParentOf[i] = 0 PROVE \E n \in 1..section : Sections[n] = TableOf[i]
    <3>1. Len(stack) = 1
      BY <1>2, <1>6, <2>1 DEF ExportInv, FramesAreNested
    <3>2. Sections[section] = TableOf[i]
      BY <1>2, <1>5, <3>1 DEF ExportInv, FramesAreNested
    <3>3. section \in 1..section
      BY <1>1, ExportAssumption DEF ExportInv, ExportStateOK
    <3> QED BY <3>2, <3>3
  <2> QED BY <1>1, <1>6, <1>17, <2>1 DEF ExportInv, WrittenOnce
<1>21. FramesAreNested'
  <2>1. \A k \in DOMAIN stack : k # 1 => k - 1 \in DOMAIN stack
    BY <1>2
  <2>2. \A k \in DOMAIN stack :
          /\ stack'[k].of = stack[k].of /\ stack'[k].table = stack[k].table
          /\ IF k = 1 THEN stack'[k].of = 0 /\ stack'[k].table = Sections[section']
             ELSE /\ stack'[k].of \in Written' \cap ArrayOf(stack'[k - 1])
                  /\ stack'[k].table = NestedIn[stack'[k - 1].table]
    BY <1>1, <1>10, <1>16, <1>17, <1>18, <2>1 DEF ExportInv, FramesAreNested
  <2>3. CASE nested = "none"
    BY <1>16, <2>2, <2>3 DEF ExportInv, FramesAreNested
  <2>4. CASE nested # "none"
    <3>1. /\ stack'[Len(stack) + 1].of = i /\ stack'[Len(stack) + 1].table = nested
          /\ Len(stack) + 1 # 1 /\ (Len(stack) + 1) - 1 = Len(stack)
          /\ Len(stack) + 1 \notin DOMAIN stack
      BY <1>2, <1>14, <1>16, <2>4
    <3>2. /\ i \in Written' \cap ArrayOf(stack'[Len(stack)])
          /\ nested = NestedIn[stack'[Len(stack)].table]
      BY <1>2, <1>5, <1>10, <1>11, <1>16, <1>17, <1>18
    <3>3. \A k \in DOMAIN stack : stack'[k].of # i
      BY <1>2, <1>5, <2>2
    <3>4. DOMAIN stack' = DOMAIN stack \cup {Len(stack) + 1}
      BY <1>16, <2>4
    <3>5. \A j, k \in DOMAIN stack' : stack'[j].of = stack'[k].of => j = k
      BY <2>2, <3>1, <3>3, <3>4 DEF ExportInv, FramesAreNested
    <3>6. \A k \in DOMAIN stack' :
            IF k = 1 THEN stack'[k].of = 0 /\ stack'[k].table = Sections[section']
            ELSE /\ stack'[k].of \in Written' \cap ArrayOf(stack'[k - 1])
                 /\ stack'[k].table = NestedIn[stack'[k - 1].table]
      BY <2>2, <3>1, <3>2, <3>4
    <3> QED BY <3>5, <3>6 DEF FramesAreNested, ArrayOf
  <2> QED BY <2>3, <2>4
<1>22. nested # "none" => \A j \in Written' : j \notin ArrayOf(new)
  <2> SUFFICES ASSUME nested # "none", NEW j \in Written', ParentOf[j] = i PROVE FALSE
    BY <1>14 DEF ArrayOf
  <2>1. j \in Written
    BY <1>6, <1>17
  <2> QED BY <1>5, <2>1 DEF ExportInv, WrittenOnce
<1>23. FramesInOrder'
  <2>1. ASSUME NEW k \in DOMAIN stack, k # Len(stack) PROVE FrameInOrder(stack[k])'
    <3>1. stack'[k] = stack[k] /\ FrameInOrder(stack[k]) /\ i \notin ArrayOf(stack[k])
      BY <1>6, <1>10, <1>16, <2>1 DEF ExportInv, FramesInOrder, ArrayOf
    <3> QED BY <1>17, <3>1 DEF FrameInOrder
  <2>2. FrameInOrder(frame)'
    <3>1. ArrayOf(frame) = ArrayOf(Top)
      BY <1>8 DEF ArrayOf
    <3> QED BY <1>2, <1>5, <1>8, <1>17, <3>1 DEF FrameInOrder
  <2>3. nested # "none" => FrameInOrder(new)'
    BY <1>14, <1>22 DEF FrameInOrder
  <2>4. \A k \in DOMAIN stack' : \/ k \in DOMAIN stack /\ k # Len(stack)
                                 \/ stack'[k] = frame \/ (nested # "none" /\ stack'[k] = new)
    BY <1>10, <1>16
  <2>5. ASSUME NEW k \in DOMAIN stack' PROVE FrameInOrder(stack[k])'
    BY <2>1, <2>2, <2>3, <2>4 DEF FrameInOrder
  <2> QED BY <2>5 DEF FramesInOrder
<1>24. DocumentIsWhole'
  <2> SUFFICES ASSUME ~cut PROVE
         /\ \A k \in DOMAIN stack' : FrameIsWhole(stack[k])'
         /\ \A j \in Owed : ParentOf[j] # 0 =>
              \/ j \in Written' \/ ParentOf[j] \notin Written'
              \/ \E k \in DOMAIN stack' : stack'[k].of = ParentOf[j]
         /\ \A j \in Owed, n \in DOMAIN Sections :
              ParentOf[j] = 0 /\ TableOf[j] = Sections[n] =>
                j \in Written' \/ n > section \/ (n = section /\ exportState = "streaming")
    BY <1>1, <1>17 DEF DocumentIsWhole
  <2>1. /\ \A k \in DOMAIN stack : FrameIsWhole(stack[k])
        /\ \A j \in Owed : ParentOf[j] # 0 =>
              \/ j \in Written \/ ParentOf[j] \notin Written
              \/ \E k \in DOMAIN stack : stack[k].of = ParentOf[j]
        /\ \A j \in Owed, n \in DOMAIN Sections :
              ParentOf[j] = 0 /\ TableOf[j] = Sections[n] =>
                j \in Written \/ n > section \/ (n = section /\ exportState = "streaming")
    BY <1>1 DEF ExportInv, DocumentIsWhole
  <2>2. FrameIsWhole(frame)'
    <3>1. ArrayOf(frame) = ArrayOf(Top) /\ FrameIsWhole(Top)
      BY <1>2, <1>8, <2>1 DEF ArrayOf
    <3> QED BY <1>8, <1>17, <3>1 DEF FrameIsWhole
  <2>3. nested # "none" => FrameIsWhole(new)'
    <3>1. \A j \in ExportIds : ~(j <= 0)
      BY <1>2
    <3> QED BY <1>14, <3>1 DEF FrameIsWhole, ArrayOf
  <2>4. ASSUME NEW k \in DOMAIN stack' PROVE FrameIsWhole(stack[k])'
    <3>1. CASE k \in DOMAIN stack /\ k # Len(stack)
      <4>1. stack'[k] = stack[k] /\ FrameIsWhole(stack[k])
        BY <1>10, <1>16, <2>1, <3>1
      <4> QED BY <1>17, <4>1 DEF FrameIsWhole
    <3>2. CASE k = Len(stack)
      <4>1. stack'[k] = frame
        BY <1>2, <1>10, <1>16, <3>2
      <4> QED BY <2>2, <4>1 DEF FrameIsWhole
    <3>3. CASE k \notin DOMAIN stack
      <4>1. nested # "none" /\ stack'[k] = new
        BY <1>16, <3>3
      <4> QED BY <2>3, <4>1 DEF FrameIsWhole
    <3> QED BY <3>1, <3>2, <3>3
  <2>5. ASSUME NEW j \in Owed, ParentOf[j] # 0
        PROVE  \/ j \in Written' \/ ParentOf[j] \notin Written'
               \/ \E k \in DOMAIN stack' : stack'[k].of = ParentOf[j]
    <3>1. CASE ParentOf[j] = i
      <4>1. j \in ExportIds
        BY DEF ExportInv, ExportStateOK, Owed
      <4>2. nested = TableOf[j] /\ TableOf[j] \in Tables
        BY <1>5, <1>11, <2>5, <3>1, <4>1, ExportAssumption
      <4>3. nested # "none"
        BY <4>2, ExportAssumption
      <4> QED BY <1>14, <1>16, <3>1, <4>3
    <3>2. CASE ParentOf[j] # i
      BY <1>10, <1>16, <1>17, <2>1, <2>5, <3>2
    <3> QED BY <3>1, <3>2
  <2> QED BY <1>17, <2>1, <2>4, <2>5
<1> QED BY <1>19, <1>20, <1>21, <1>23, <1>24 DEF ExportInv

(* The array that is closed was read to its end. *)
LEMMA ClosedArray ==
  ASSUME ExportInv, CloseArray, ~cut, NEW j \in Owed, ParentOf[j] = Top.of,
         Top.of = 0 => TableOf[j] = Sections[section]
  PROVE  j \in Written
<1>1. exportState = "streaming" /\ Top.todo = {} /\ ~Top.more
  BY DEF CloseArray
<1>2. /\ Len(stack) \in DOMAIN stack /\ DOMAIN stack = 1..Len(stack) /\ Top = stack[Len(stack)]
      /\ Len(stack) \in Nat \ {0} /\ j \in ExportIds
  BY <1>1, TopFrame DEF ExportInv, ExportStateOK, Owed
<1>3. TableOf[j] = Top.table
  <2>1. CASE Top.of = 0
    <3>1. Len(stack) = 1
      BY <1>2, <2>1 DEF ExportInv, FramesAreNested
    <3> QED BY <1>2, <2>1, <3>1 DEF ExportInv, FramesAreNested
  <2>2. CASE Top.of # 0
    <3>1. Len(stack) # 1
      BY <1>2, <2>2 DEF ExportInv, FramesAreNested
    <3>2. /\ Top.of \in ArrayOf(stack[Len(stack) - 1])
          /\ Top.table = NestedIn[stack[Len(stack) - 1].table]
      BY <1>2, <3>1 DEF ExportInv, FramesAreNested
    <3>3. Top.table = NestedIn[TableOf[Top.of]]
      BY <3>2 DEF ArrayOf
    <3> QED BY <1>2, <2>2, <3>3, ExportAssumption
  <2> QED BY <2>1, <2>2
<1>4. FrameIsWhole(Top) /\ j \in ArrayOf(Top)
  BY <1>1, <1>2, <1>3 DEF ExportInv, DocumentIsWhole, ArrayOf
<1> QED BY <1>1, <1>4 DEF FrameIsWhole

LEMMA CloseArrayExport ==
  ASSUME ExportInv, CloseArray
  PROVE  ExportInv'
<1>1. /\ exportState = "streaming"
      /\ UNCHANGED <<exportRow, exportGone, written, atStart, cut>>
  BY DEF CloseArray
<1>2. /\ Len(stack) \in Nat \ {0} /\ DOMAIN stack = 1..Len(stack) /\ stack \in Seq(Frame)
      /\ Top = stack[Len(stack)] /\ 1 \in DOMAIN stack /\ section \in DOMAIN Sections
      /\ DOMAIN Sections = 1..Len(Sections) /\ Len(Sections) \in Nat
  BY <1>1, TopFrame, ExportAssumption DEF ExportInv, ExportStateOK
<1>3. section \in Nat \ {0} /\ section <= Len(Sections) /\ Len(Sections) \in Nat
  BY <1>2
<1>4. Written' = Written /\ Owed' = Owed
  BY <1>1 DEF Written, Owed
<1>5. PICK outer : outer = SubSeq(stack, 1, Len(stack) - 1)
  OBVIOUS
<1>6. /\ outer \in Seq(Frame) /\ Len(outer) = Len(stack) - 1 /\ DOMAIN outer = 1..(Len(stack) - 1)
      /\ \A k \in DOMAIN outer : k \in DOMAIN stack /\ outer[k] = stack[k]
      /\ outer = <<>> <=> Len(stack) = 1
  <2>1. 1 \in 1..Len(stack) + 1 /\ Len(stack) - 1 \in (1 - 1)..Len(stack)
    BY <1>2
  <2>2. /\ outer \in Seq(Frame) /\ Len(outer) = Len(stack) - 1
        /\ \A k \in 1..(Len(stack) - 1) : outer[k] = stack[k]
    BY <1>2, <1>5, <2>1
  <2>3. DOMAIN outer = 1..(Len(stack) - 1) /\ (outer = <<>> <=> Len(outer) = 0)
    BY <2>2
  <2> QED BY <1>2, <2>2, <2>3
<1>7. /\ outer = <<>> => Top.of = 0
      /\ outer # <<>> => Top.of # 0
  BY <1>2, <1>6 DEF ExportInv, FramesAreNested
<1>8. ~cut => /\ \A k \in DOMAIN stack : FrameIsWhole(stack[k])
              /\ \A j \in Owed : ParentOf[j] # 0 =>
                   \/ j \in Written \/ ParentOf[j] \notin Written
                   \/ \E k \in DOMAIN stack : stack[k].of = ParentOf[j]
              /\ \A j \in Owed, n \in DOMAIN Sections :
                   ParentOf[j] = 0 /\ TableOf[j] = Sections[n] =>
                     j \in Written \/ n > section \/ n = section
  BY <1>1 DEF ExportInv, DocumentIsWhole
<1>9. RowsHaveParents'
  BY <1>1 DEF ExportInv, RowsHaveParents
<1>10. CASE outer # <<>>
  <2>1. stack' = outer /\ UNCHANGED <<section, exportState>>
    BY <1>5, <1>10 DEF CloseArray
  <2>2. /\ stack' \in Seq(Frame) /\ stack' # <<>>
        /\ DOMAIN stack' = 1..(Len(stack) - 1)
        /\ \A k \in DOMAIN stack' : k \in DOMAIN stack /\ stack'[k] = stack[k]
    BY <1>6, <1>10, <2>1
  <2>3. ExportStateOK' /\ WrittenOnce'
    BY <1>1, <1>4, <2>1, <2>2 DEF ExportInv, ExportStateOK, WrittenOnce
  <2>4. FramesAreNested'
    <3>1. \A k \in DOMAIN stack' : k # 1 => k - 1 \in DOMAIN stack'
      BY <1>2, <2>2
    <3> QED BY <1>4, <2>1, <2>2, <3>1 DEF ExportInv, FramesAreNested, ArrayOf
  <2>5. FramesInOrder'
    BY <1>4, <2>2 DEF ExportInv, FramesInOrder, FrameInOrder
  <2>6. DocumentIsWhole'
    <3> SUFFICES ASSUME ~cut PROVE
           /\ \A k \in DOMAIN stack' : FrameIsWhole(stack[k])'
           /\ \A j \in Owed : ParentOf[j] # 0 =>
                \/ j \in Written \/ ParentOf[j] \notin Written
                \/ \E k \in DOMAIN stack' : stack'[k].of = ParentOf[j]
           /\ \A j \in Owed, n \in DOMAIN Sections :
                ParentOf[j] = 0 /\ TableOf[j] = Sections[n] =>
                  j \in Written \/ n > section \/ n = section
      BY <1>1, <1>4, <2>1 DEF DocumentIsWhole
    <3>1. \A k \in DOMAIN stack' : FrameIsWhole(stack[k])'
      BY <1>4, <1>8, <2>2 DEF FrameIsWhole
    <3>2. ASSUME NEW j \in Owed, ParentOf[j] # 0, j \notin Written, ParentOf[j] \in Written
          PROVE  \E k \in DOMAIN stack' : stack'[k].of = ParentOf[j]
      <4>1. PICK k \in DOMAIN stack : stack[k].of = ParentOf[j]
        BY <1>8, <3>2
      <4>2. k # Len(stack)
        BY <1>2, <1>7, <1>10, <3>2, <4>1, ClosedArray
      <4>3. k \in DOMAIN stack'
        BY <1>2, <2>2, <4>2
      <4> QED BY <2>2, <4>1, <4>3
    <3> QED BY <1>8, <3>1, <3>2
  <2> QED BY <1>9, <2>3, <2>4, <2>5, <2>6 DEF ExportInv
<1>11. CASE outer = <<>>
  <2>1. Len(stack) = 1 /\ stack[1].of = 0 /\ Top.of = 0
    BY <1>2, <1>6, <1>7, <1>11
  <2>2. ~cut => \A j \in Owed : ParentOf[j] # 0 => j \in Written \/ ParentOf[j] \notin Written
    BY <1>2, <1>8, <2>1
  <2>3. ~cut => \A j \in Owed, n \in DOMAIN Sections :
                   ParentOf[j] = 0 /\ TableOf[j] = Sections[n] => j \in Written \/ n > section
    BY <1>8, <2>1, ClosedArray
  <2>4. CASE section < Len(Sections)
    <3>1. /\ section' = section + 1 /\ stack' = <<NewFrame(Sections[section + 1], 0)>>
          /\ exportState' = exportState
      BY <1>3, <1>5, <1>11, <2>4 DEF CloseArray
    <3>2. section + 1 \in DOMAIN Sections /\ section + 1 \in 0..Len(Sections)
      BY <1>2, <1>3, <2>4
    <3>3. PICK frame : frame = NewFrame(Sections[section + 1], 0)
      OBVIOUS
    <3>4. /\ frame \in Frame /\ frame.table = Sections[section + 1] /\ frame.of = 0
          /\ frame.after = 0 /\ frame.todo = {} /\ frame.more
      <4>1. Sections[section + 1] \in Tables
        BY <3>2, ExportAssumption
      <4> QED BY <3>3, <4>1, NewFrames
    <3>5. stack' \in Seq(Frame) /\ DOMAIN stack' = {1} /\ stack'[1] = frame /\ stack' # <<>>
      BY <3>1, <3>3, <3>4
    <3>6. ExportStateOK'
      BY <1>1, <3>1, <3>2, <3>5 DEF ExportInv, ExportStateOK
    <3>7. WrittenOnce'
      <4>1. 1..section \subseteq 1..(section + 1)
        BY <1>3
      <4> QED BY <1>1, <1>4, <3>1, <4>1 DEF ExportInv, WrittenOnce
    <3>8. FramesAreNested'
      BY <3>1, <3>4, <3>5 DEF FramesAreNested
    <3>9. \A j \in Written : j \notin ArrayOf(frame)
      <4> SUFFICES ASSUME NEW j \in Written, TableOf[j] = Sections[section + 1], ParentOf[j] = 0
                   PROVE  FALSE
        BY <3>4 DEF ArrayOf
      <4>1. PICK n \in 1..section : Sections[n] = Sections[section + 1]
        BY DEF ExportInv, WrittenOnce
      <4>2. n \in DOMAIN Sections /\ n # section + 1
        BY <1>2, <1>3, <4>1
      <4> QED BY <3>2, <4>1, <4>2, ExportAssumption
    <3>10. FramesInOrder'
      <4>1. FrameInOrder(frame)'
        BY <1>4, <3>4, <3>9 DEF FrameInOrder
      <4> QED BY <3>5, <4>1 DEF FramesInOrder, FrameInOrder
    <3>11. FrameIsWhole(frame)'
      <4>1. \A j \in ExportIds : ~(j <= 0)
        BY ExportAssumption
      <4> QED BY <3>4, <4>1 DEF FrameIsWhole, ArrayOf
    <3>12. DocumentIsWhole'
      <4>1. \A k \in DOMAIN stack' : FrameIsWhole(stack[k])'
        BY <3>5, <3>11 DEF FrameIsWhole
      <4>2. \A n \in DOMAIN Sections : n > section => n > section + 1 \/ n = section + 1
        BY <1>2, <1>3
      <4> QED BY <1>1, <1>4, <2>2, <2>3, <3>1, <4>1, <4>2 DEF DocumentIsWhole
    <3> QED BY <1>9, <3>6, <3>7, <3>8, <3>10, <3>12 DEF ExportInv
  <2>5. CASE ~(section < Len(Sections))
    <3>1. section = Len(Sections)
      BY <1>3, <2>5
    <3>2. stack' = <<>> /\ exportState' = "complete" /\ section' = section
      BY <1>5, <1>11, <2>5 DEF CloseArray
    <3>3. DOMAIN stack' = {} /\ stack' \in Seq(Frame)
      BY <3>2
    <3>4. ExportStateOK'
      BY <1>1, <3>1, <3>2, <3>3 DEF ExportInv, ExportStateOK
    <3>5. FramesAreNested' /\ FramesInOrder' /\ WrittenOnce'
      BY <1>1, <1>4, <3>2, <3>3 DEF ExportInv, FramesAreNested, FramesInOrder, WrittenOnce
    <3>6. DocumentIsWhole'
      BY <1>1, <1>4, <2>2, <2>3, <3>2, <3>3 DEF DocumentIsWhole
    <3> QED BY <1>9, <3>4, <3>5, <3>6 DEF ExportInv
  <2> QED BY <2>4, <2>5
<1> QED BY <1>10, <1>11

LEMMA ExportFailsInv ==
  ASSUME ExportInv, ExportFails
  PROVE  ExportInv'
<1>1. /\ exportState' = "failed" /\ stack' = <<>>
      /\ UNCHANGED <<exportRow, exportGone, section, written, atStart, cut>>
  BY DEF ExportFails
<1>2. DOMAIN stack' = {} /\ stack' \in Seq(Frame) /\ Written' = Written
  BY <1>1 DEF Written
<1> QED BY <1>1, <1>2 DEF ExportInv, ExportStateOK, RowsHaveParents, FramesAreNested, FramesInOrder,
                         WrittenOnce, DocumentIsWhole

(***************************************************************************)
(* The stream keeps its inductive invariant: the rows owed to the reader   *)
(* up to the cursor of each open array, and all of each closed one, have   *)
(* been written.                                                           *)
(***************************************************************************)
THEOREM ExportInvariance == ExportSpec => []ExportInv
<1>1. ExportInit => ExportInv
  BY ExportInitInv
<1>2. ExportInv /\ [ExportNext]_exportVars => ExportInv'
  <2> SUFFICES ASSUME ExportInv, [ExportNext]_exportVars PROVE ExportInv'
    OBVIOUS
  <2>1. ASSUME NEW i \in ExportIds, InsertRow(i) PROVE ExportInv'
    BY <2>1, InsertRowExport
  <2>2. ASSUME NEW i \in ExportIds, DeleteRow(i) PROVE ExportInv'
    BY <2>2, RemoveRowsExport DEF DeleteRow
  <2>3. ASSUME NEW table, DeleteSection(table) PROVE ExportInv'
    BY <2>3, RemoveRowsExport DEF DeleteSection
  <2>4. CASE UNCHANGED exportVars
    BY <2>4 DEF exportVars, ExportInv, ExportStateOK, RowsHaveParents, FramesAreNested,
                FramesInOrder, FrameInOrder, WrittenOnce, DocumentIsWhole, FrameIsWhole,
                Written, Owed, ArrayOf
  <2> QED BY <2>1, <2>2, <2>3, <2>4, StartExportInv, FetchBatchExport, WriteRowExport,
             CloseArrayExport, ExportFailsInv DEF ExportNext
<1> QED BY <1>1, <1>2, PTL DEF ExportSpec

(***************************************************************************)
(* For any tables, rows and batch size: no row is written twice, and a     *)
(* document that ends with "complete": true holds every row that was there *)
(* when it was begun and still is, nested rows included, unless a cursor   *)
(* row was gone when its batch was read (exportRows, generateDataExport).  *)
(***************************************************************************)
THEOREM CompleteExportsAreWhole == ExportSpec => []CompleteIsWhole
<1>1. ExportInv => CompleteIsWhole
  <2> SUFFICES ASSUME ExportInv, exportState = "complete", ~cut, NEW i \in Owed
               PROVE  i \in Written
    BY DEF CompleteIsWhole, ExportInv, WrittenOnce, Owed, Written
  <2>1. /\ DOMAIN stack = {} /\ section = Len(Sections) /\ DOMAIN Sections = 1..Len(Sections)
        /\ Len(Sections) \in Nat
    BY ExportAssumption DEF ExportInv, ExportStateOK
  <2>2. \A j \in Owed : ParentOf[j] = 0 => j \in Written
    <3> SUFFICES ASSUME NEW j \in Owed, ParentOf[j] = 0 PROVE j \in Written
      OBVIOUS
    <3>1. j \in ExportIds
      BY DEF ExportInv, ExportStateOK, Owed
    <3>2. PICK n \in DOMAIN Sections : TableOf[j] = Sections[n]
      BY <3>1, ExportAssumption
    <3>3. ~(n > section)
      BY <2>1, <3>2
    <3> QED BY <3>2, <3>3 DEF ExportInv, DocumentIsWhole
  <2>3. \A j \in Owed : ParentOf[j] # 0 => j \in Written \/ ParentOf[j] \notin Written
    BY <2>1 DEF ExportInv, DocumentIsWhole
  <2>4. \A j \in Owed : j \in ExportIds /\ ParentOf[j] \in Owed \cup {0}
    BY DEF ExportInv, ExportStateOK, RowsHaveParents, Owed
  <2>5. CASE ParentOf[i] = 0
    BY <2>2, <2>5
  <2>6. CASE ParentOf[i] # 0 /\ ParentOf[ParentOf[i]] = 0
    BY <2>2, <2>3, <2>4, <2>6
  <2>7. CASE ParentOf[i] # 0 /\ ParentOf[ParentOf[i]] # 0
    <3>1. ParentOf[i] \in Owed /\ ParentOf[ParentOf[i]] \in Owed
      BY <2>4, <2>7
    <3>2. ParentOf[ParentOf[ParentOf[i]]] = 0
      BY <2>4, <3>1, ExportAssumption
    <3> QED BY <2>2, <2>3, <2>7, <3>1, <3>2
  <2> QED BY <2>5, <2>6, <2>7
<1> QED BY <1>1, ExportInvariance, PTL

-----------------------------------------------------------------------------
(* RateLimits: the window of a key that was not evicted.                    *)

LimitStateOK ==
  /\ limitNow \in Nat
  /\ attempts \in [LimitKeys -> SUBSET [at : Nat, nr : Nat]]
  /\ admitted \in [LimitKeys -> SUBSET [at : Nat, nr : Nat]]
  /\ \A k \in LimitKeys : IsFiniteSet(attempts[k])

(* No attempt is later than now, and those made now are numbered from 1:   *)
(* the next one differs from all of them.                                  *)
NumberedInTurn ==
  \A k \in LimitKeys : \A a \in attempts[k] :
    /\ a.at <= limitNow
    /\ a.at = limitNow => a.nr <= Cardinality({b \in attempts[k] : b.at = limitNow})

(* What the Map holds was let through; of a key that was not evicted in    *)
(* the window it holds all that was.                                       *)
MapTellsWindow ==
  \A k \in LimitKeys :
    /\ Recent(attempts[k]) \subseteq admitted[k]
    /\ k \notin forgotten => admitted[k] = Recent(attempts[k])

LimitInv == LimitStateOK /\ NumberedInTurn /\ MapTellsWindow /\ WindowHolds

(* Attempts of one key at one time are told apart, so that a set counts    *)
(* them as the list of times does.                                         *)
LEMMA NewestIsNew ==
  ASSUME LimitInv, NEW k \in LimitKeys
  PROVE  LET recent == Recent(attempts[k]) IN
         /\ Newest(recent) \in [at : Nat, nr : Nat] /\ Newest(recent).at = limitNow
         /\ Newest(recent) \notin attempts[k]
         /\ {b \in recent : b.at = limitNow} = {b \in attempts[k] : b.at = limitNow}
         /\ Newest(recent).nr = Cardinality({b \in attempts[k] : b.at = limitNow}) + 1
         /\ Cardinality({b \in attempts[k] : b.at = limitNow}) \in Nat
<1> DEFINE recent == Recent(attempts[k])
           made == {b \in attempts[k] : b.at = limitNow}
<1>1. {b \in recent : b.at = limitNow} = made
  BY LimitAssumption DEF LimitInv, LimitStateOK, Recent, InWindow
<1>2. IsFiniteSet(made) /\ Cardinality(made) \in Nat
  BY FS_Subset, FS_CardinalityType DEF LimitInv, LimitStateOK
<1>3. Newest(recent) = [at |-> limitNow, nr |-> Cardinality(made) + 1]
  BY <1>1 DEF Newest
<1>4. Newest(recent) \notin attempts[k]
  <2> SUFFICES ASSUME Newest(recent) \in attempts[k] PROVE FALSE
    OBVIOUS
  <2>1. Newest(recent).nr <= Cardinality(made)
    BY <1>3 DEF LimitInv, NumberedInTurn
  <2> QED BY <1>2, <1>3, <2>1
<1> QED BY <1>1, <1>2, <1>3, <1>4 DEF LimitInv, LimitStateOK

(* With room for it, the newest attempt keeps within the limit. *)
LEMMA OneMoreFits ==
  ASSUME LimitInv, NEW k \in LimitKeys, ~LimitReached(Recent(attempts[k])), NEW a
  PROVE  Cardinality(Recent(attempts[k]) \cup {a}) <= Limit
<1>1. IsFiniteSet(Recent(attempts[k])) /\ Cardinality(Recent(attempts[k])) \in Nat
  BY FS_Subset, FS_CardinalityType DEF LimitInv, LimitStateOK, Recent
<1>2. Cardinality(Recent(attempts[k]) \cup {a}) <= Cardinality(Recent(attempts[k])) + 1
  <2>1. \/ Cardinality(Recent(attempts[k]) \cup {a}) = Cardinality(Recent(attempts[k]))
        \/ Cardinality(Recent(attempts[k]) \cup {a}) = Cardinality(Recent(attempts[k])) + 1
    BY <1>1, FS_AddElement
  <2> QED BY <1>1, <2>1
<1>3. Cardinality(Recent(attempts[k]) \cup {a}) \in Nat
  BY <1>1, FS_AddElement, FS_CardinalityType
<1> QED BY <1>1, <1>2, <1>3, LimitAssumption DEF LimitReached

LEMMA AllowAttemptLimit ==
  ASSUME LimitInv, NEW k \in LimitKeys, AllowAttempt(k)
  PROVE  LimitInv'
<1> DEFINE recent == Recent(attempts[k])
           new == Newest(recent)
           lists == [attempts EXCEPT ![k] = recent \cup {new}]
           kept == Kept(OrderAfterSet(k), lists)
<1>1. /\ ~LimitReached(recent) /\ limitNow' = limitNow
      /\ attempts' = [j \in LimitKeys |->
                        IF ~Contains(kept, j) THEN {}
                        ELSE IF limiter = "social" THEN Swept(lists)[j] ELSE lists[j]]
      /\ admitted' = [admitted EXCEPT ![k] = @ \cup {new}]
      /\ forgotten' = forgotten \cup {j \in LimitKeys : ~Contains(kept, j) /\ admitted'[j] # {}}
  BY DEF AllowAttempt
<1>2. /\ new \in [at : Nat, nr : Nat] /\ new.at = limitNow
      /\ new \notin attempts[k]
      /\ {b \in recent : b.at = limitNow} = {b \in attempts[k] : b.at = limitNow}
      /\ new.nr = Cardinality({b \in attempts[k] : b.at = limitNow}) + 1
      /\ Cardinality({b \in attempts[k] : b.at = limitNow}) \in Nat
  BY NewestIsNew
<1> HIDE DEF new, kept
<1>3. \A j \in LimitKeys : /\ attempts'[j] \in {{}, Recent(lists[j]), lists[j]}
                           /\ attempts'[j] # {} => Contains(kept, j)
                           /\ Contains(kept, j) => attempts'[j] \in {Recent(lists[j]), lists[j]}
  BY <1>1 DEF Swept
<1>4. \A j \in LimitKeys : lists[j] = IF j = k THEN recent \cup {new} ELSE attempts[j]
  BY DEF LimitInv, LimitStateOK
<1>5. \A items : /\ Recent(items)' = Recent(items) /\ Recent(Recent(items)) = Recent(items)
                 /\ Recent(items) \subseteq items
  BY <1>1 DEF Recent, InWindow
<1>6. Recent(recent \cup {new}) = recent \cup {new}
  BY <1>2, LimitAssumption DEF LimitInv, LimitStateOK, Recent, InWindow
<1>7. \A j \in LimitKeys : Recent(lists[j]) = IF j = k THEN recent \cup {new} ELSE Recent(attempts[j])
  BY <1>4, <1>6
<1>8. \A j \in LimitKeys : lists[j] \in SUBSET [at : Nat, nr : Nat] /\ IsFiniteSet(lists[j])
  <2>1. IsFiniteSet(recent \cup {new})
    BY <1>5, FS_Subset, FS_AddElement DEF LimitInv, LimitStateOK
  <2> QED BY <1>2, <1>4, <1>5, <2>1 DEF LimitInv, LimitStateOK
<1>9. LimitStateOK'
  <2>1. \A j \in LimitKeys : attempts'[j] \subseteq lists[j]
    BY <1>3, <1>5
  <2>2. \A j \in LimitKeys : IsFiniteSet(attempts'[j])
    BY <1>8, <2>1, FS_Subset
  <2>3. attempts' \in [LimitKeys -> SUBSET [at : Nat, nr : Nat]]
    BY <1>1, <1>8, <2>1
  <2>4. admitted' \in [LimitKeys -> SUBSET [at : Nat, nr : Nat]]
    BY <1>1, <1>2 DEF LimitInv, LimitStateOK
  <2> QED BY <1>1, <2>2, <2>3, <2>4 DEF LimitInv, LimitStateOK
<1>10. NumberedInTurn'
  <2> DEFINE At(items) == {b \in items : b.at = limitNow}
  <2>1. \A j \in LimitKeys : \A a \in lists[j] :
           a.at <= limitNow /\ (a.at = limitNow => a.nr <= Cardinality(At(lists[j])))
    <3>1. Cardinality(At(recent \cup {new})) = new.nr
      <4>1. At(recent \cup {new}) = At(attempts[k]) \cup {new}
        BY <1>2
      <4>2. IsFiniteSet(At(attempts[k])) /\ new \notin At(attempts[k])
        BY <1>2, FS_Subset DEF LimitInv, LimitStateOK
      <4> QED BY <1>2, <4>1, <4>2, FS_AddElement
    <3>2. ASSUME NEW a \in recent \cup {new}
          PROVE  a.at <= limitNow /\ (a.at = limitNow => a.nr <= Cardinality(At(recent \cup {new})))
      <4>1. CASE a = new
        BY <1>2, <3>1, <4>1 DEF LimitInv, LimitStateOK
      <4>2. CASE a # new
        <5>1. a \in attempts[k] /\ a.nr \in Nat
          BY <1>5, <3>2, <4>2 DEF LimitInv, LimitStateOK
        <5>2. a.at <= limitNow /\ (a.at = limitNow => a.nr <= Cardinality(At(attempts[k])))
          BY <5>1 DEF LimitInv, NumberedInTurn
        <5> QED BY <1>2, <3>1, <5>1, <5>2
      <4> QED BY <4>1, <4>2
    <3> QED BY <1>4, <3>2 DEF LimitInv, NumberedInTurn
  <2>2. \A j \in LimitKeys : At(Recent(lists[j])) = At(lists[j])
    BY LimitAssumption DEF LimitInv, LimitStateOK, Recent, InWindow
  <2> QED
    <3> SUFFICES ASSUME NEW j \in LimitKeys, NEW a \in attempts'[j]
                 PROVE  a.at <= limitNow /\ (a.at = limitNow => a.nr <= Cardinality(At(attempts'[j])))
      BY <1>1 DEF NumberedInTurn
    <3>1. attempts'[j] \in {Recent(lists[j]), lists[j]}
      BY <1>3
    <3>2. a \in lists[j] /\ At(attempts'[j]) = At(lists[j])
      BY <1>5, <2>2, <3>1
    <3> QED BY <2>1, <3>2
<1>11. MapTellsWindow'
  <2> SUFFICES ASSUME NEW j \in LimitKeys
               PROVE  /\ Recent(attempts'[j]) \subseteq admitted'[j]
                      /\ j \notin forgotten' => admitted'[j] = Recent(attempts'[j])
    BY <1>1 DEF MapTellsWindow, Recent, InWindow
  <2>1. admitted'[j] = IF j = k THEN admitted[j] \cup {new} ELSE admitted[j]
    BY <1>1 DEF LimitInv, LimitStateOK
  <2>2. /\ Recent(lists[j]) \subseteq admitted'[j]
        /\ j \notin forgotten => admitted'[j] = Recent(lists[j])
    BY <1>7, <2>1 DEF LimitInv, MapTellsWindow
  <2>3. Recent({}) = {}
    BY DEF Recent
  <2>4. CASE Contains(kept, j)
    BY <1>1, <1>3, <1>5, <2>2, <2>4
  <2>5. CASE ~Contains(kept, j)
    BY <1>1, <1>3, <2>3, <2>5
  <2> QED BY <2>4, <2>5
<1>12. WindowHolds'
  <2> SUFFICES ASSUME NEW j \in LimitKeys, j \notin forgotten
               PROVE  Cardinality(admitted'[j]) <= Limit
    BY <1>1 DEF WindowHolds
  <2>1. CASE j = k
    <3>1. admitted'[j] = recent \cup {new}
      BY <1>1, <2>1 DEF LimitInv, LimitStateOK, MapTellsWindow
    <3> QED BY <1>1, <3>1, OneMoreFits
  <2>2. CASE j # k
    BY <1>1, <2>2 DEF LimitInv, LimitStateOK, WindowHolds
  <2> QED BY <2>1, <2>2
<1> QED BY <1>9, <1>10, <1>11, <1>12 DEF LimitInv

LEMMA LimitClockTicksInv ==
  ASSUME LimitInv, LimitClockTicks
  PROVE  LimitInv'
<1>1. /\ limitNow' = limitNow + 1 /\ attempts' = attempts
      /\ admitted' = [k \in LimitKeys |-> {a \in admitted[k] : limitNow + 1 - a.at < Window}]
      /\ forgotten' = {k \in forgotten : admitted'[k] # {}}
  BY DEF LimitClockTicks
<1> DEFINE Lasting(items) == {a \in items : limitNow + 1 - a.at < Window}
<1>2. \A k \in LimitKeys : admitted'[k] = Lasting(admitted[k])
  BY <1>1
<1>3. LimitStateOK'
  BY <1>1, <1>2 DEF LimitInv, LimitStateOK
<1>7. \A k \in LimitKeys : \A a \in attempts[k] : a.at \in Nat /\ a.at <= limitNow /\ limitNow \in Nat
  <2> SUFFICES ASSUME NEW k \in LimitKeys, NEW a \in attempts[k]
               PROVE  a.at \in Nat /\ a.at <= limitNow /\ limitNow \in Nat
    OBVIOUS
  <2>1. a \in [at : Nat, nr : Nat]
    BY DEF LimitInv, LimitStateOK
  <2> QED BY <2>1 DEF LimitInv, LimitStateOK, NumberedInTurn
<1>8. NumberedInTurn'
  <2> SUFFICES ASSUME NEW k \in LimitKeys, NEW a \in attempts[k]
               PROVE  a.at <= limitNow' /\ a.at # limitNow'
    BY <1>1 DEF NumberedInTurn
  <2> QED BY <1>1, <1>7
<1>4. \A k \in LimitKeys : Lasting(attempts[k]) = Lasting(Recent(attempts[k]))
  <2>1. ASSUME NEW k \in LimitKeys, NEW a \in attempts[k], limitNow + 1 - a.at < Window
        PROVE  limitNow - a.at < Window
    BY <1>7, <2>1, LimitAssumption
  <2> QED BY <2>1 DEF Recent, InWindow
<1>5. MapTellsWindow'
  <2>4. \A k \in LimitKeys : {a \in attempts'[k] : limitNow' - a.at < Window} = Lasting(attempts[k])
    <3>1. ASSUME NEW k \in LimitKeys, NEW a \in attempts[k]
          PROVE  limitNow' - a.at < Window <=> limitNow + 1 - a.at < Window
      <4>1. limitNow' = limitNow + 1
        BY <1>1
      <4> QED BY <1>7, <4>1, LimitAssumption
    <3> QED BY <1>1, <3>1
  <2> HIDE DEF Lasting
  <2> SUFFICES ASSUME NEW k \in LimitKeys
               PROVE  /\ Lasting(attempts[k]) \subseteq admitted'[k]
                      /\ k \notin forgotten' => admitted'[k] = Lasting(attempts[k])
    BY <2>4 DEF MapTellsWindow, Recent, InWindow
  <2> USE DEF Lasting
  <2>1. /\ Recent(attempts[k]) \subseteq admitted[k]
        /\ k \notin forgotten => admitted[k] = Recent(attempts[k])
    BY DEF LimitInv, MapTellsWindow
  <2>2. Lasting(attempts[k]) \subseteq admitted'[k]
    BY <1>2, <1>4, <2>1
  <2>3. k \notin forgotten => admitted'[k] = Lasting(attempts[k])
    BY <1>2, <1>4, <2>1
  <2> QED BY <1>1, <2>2, <2>3
<1>6. WindowHolds'
  <2> SUFFICES ASSUME NEW k \in LimitKeys, k \notin forgotten'
               PROVE  Cardinality(admitted'[k]) <= Limit
    BY DEF WindowHolds
  <2>1. CASE k \in forgotten
    <3>1. admitted'[k] = {}
      BY <1>1, <2>1
    <3> QED BY <3>1, FS_EmptySet, LimitAssumption
  <2>2. CASE k \notin forgotten
    <3>1. IsFiniteSet(admitted[k])
      BY <2>2, FS_Subset DEF LimitInv, LimitStateOK, MapTellsWindow, Recent
    <3>2. /\ Cardinality(admitted'[k]) <= Cardinality(admitted[k])
          /\ Cardinality(admitted'[k]) \in Nat /\ Cardinality(admitted[k]) \in Nat
      BY <1>2, <3>1, FS_Subset, FS_CardinalityType
    <3> QED BY <2>2, <3>2, LimitAssumption DEF LimitInv, WindowHolds
  <2> QED BY <2>1, <2>2
<1> QED BY <1>3, <1>5, <1>6, <1>8 DEF LimitInv

(***************************************************************************)
(* For any keys, window, limit and capacity and for each of the limiters:  *)
(* a key that was not evicted within the window is let through at most     *)
(* Limit times in it (allowAttempt and canActivate of the guards).         *)
(***************************************************************************)
THEOREM LimitsHoldInWindow == LimitSpec => []WindowHolds
<1>1. LimitInit => LimitInv
  BY FS_EmptySet, LimitAssumption
     DEF LimitInit, LimitInv, LimitStateOK, NumberedInTurn, MapTellsWindow, WindowHolds, Recent
<1>2. LimitInv /\ [LimitNext]_limitVars => LimitInv'
  <2> SUFFICES ASSUME LimitInv, [LimitNext]_limitVars PROVE LimitInv'
    OBVIOUS
  <2>1. CASE UNCHANGED limitVars
    BY <2>1 DEF limitVars, LimitInv, LimitStateOK, NumberedInTurn, MapTellsWindow, WindowHolds,
                Recent, InWindow
  <2> QED BY <2>1, AllowAttemptLimit, LimitClockTicksInv DEF LimitNext, RefuseAttempt
<1>3. LimitInv => WindowHolds
  BY DEF LimitInv
<1> QED BY <1>1, <1>2, <1>3, PTL DEF LimitSpec

-----------------------------------------------------------------------------
(* DeletionQueue: older requests pay for every pass that leaves out a       *)
(* request with a longer wait.                                              *)

(* What a request has paid: the life of its upload URLs, its failures and  *)
(* the wait it still has to serve, all in minutes.  A request that the     *)
(* pass is about to try is ahead by a wait.                                *)
FullPay == MaxBackoff * (UrlTtl + MaxExponent + 1)
PayOf(state, life, fails, left, ahead) ==
  IF state = "gone" THEN FullPay
  ELSE IF life > 0 THEN MaxBackoff * (UrlTtl - life)
  ELSE MaxBackoff * UrlTtl + MaxBackoff * fails + left + ahead
HeadStart(b) == IF b \in pass /\ wait[b] = 0 THEN MaxBackoff ELSE 0
Pay(b) == PayOf(leaving[b], urlLife[b], failures[b], wait[b], HeadStart(b))

(* A sum of numbers up to N, as a set of pairs: its cardinality is the sum. *)
Under(S, N, f) == {p \in S \X (1 .. N) : p[2] <= f[p[1]]}

(* What the older requests have paid together. *)
Older(a) == {b \in Leavers : b < a}
Pays == [b \in Leavers |-> Pay(b)]
Paid(a) == Under(Older(a), FullPay, Pays)

(* Requests come in the order of their numbers: no competitor is new. *)
RequestsInOrder ==
  \A a, b \in Leavers : leaving[a] # "live" /\ b < a => leaving[b] # "live"
LeftOutAreRequested == \A a \in Leavers : leftOut[a] > 0 => a \in Requested
PassIsOfRequests == \A a \in pass : leaving[a] # "live"
LeftOutIsPaid == \A a \in Leavers : leftOut[a] <= Cardinality(Paid(a))

QueueInv ==
  /\ QueueTypeOK /\ RequestsInOrder /\ LeftOutAreRequested /\ PassIsOfRequests
  /\ LeftOutIsPaid

(* The power that Backoff takes is a positive number: it counts subsets. *)
LEMMA PowersArePositive == \A n \in Nat : 2 ^ n \in Nat \ {0}
<1> SUFFICES ASSUME NEW n \in Nat PROVE 2 ^ n \in Nat \ {0}
  OBVIOUS
<1>1. IsFiniteSet(1 .. n) /\ Cardinality(1 .. n) = n
  BY FS_Interval
<1>2. IsFiniteSet(SUBSET (1 .. n)) /\ Cardinality(SUBSET (1 .. n)) = 2 ^ n
  BY <1>1, FS_SUBSET
<1>3. SUBSET (1 .. n) # {}
  OBVIOUS
<1> QED BY <1>2, <1>3, FS_CardinalityType, FS_EmptySet

(* A failure puts a request off, and after enough of them for the longest  *)
(* time.                                                                   *)
LEMMA BackoffRange ==
  ASSUME NEW n \in 0 .. MaxExponent
  PROVE  /\ Backoff(n) \in 1 .. MaxBackoff
         /\ n >= MaxExponent - 1 => Backoff(n) = MaxBackoff
<1> DEFINE attempt == IF n + 1 < MaxExponent THEN n + 1 ELSE MaxExponent
           minutes == 2 ^ (attempt - 1)
<1>1. attempt - 1 \in Nat /\ MaxBackoff \in Nat \ {0}
  BY QueueAssumption
<1>2. minutes \in Nat \ {0}
  BY <1>1, PowersArePositive
<1>3. n >= MaxExponent - 1 => attempt = MaxExponent
  BY QueueAssumption
<1>4. n >= MaxExponent - 1 => minutes >= MaxBackoff
  BY <1>3, QueueAssumption
<1>5. Backoff(n) = IF minutes < MaxBackoff THEN minutes ELSE MaxBackoff
  BY DEF Backoff
<1> HIDE DEF minutes
<1> QED BY <1>1, <1>2, <1>4, <1>5

-----------------------------------------------------------------------------
(* Sums                                                                     *)

LEMMA SumIsFinite ==
  ASSUME NEW S, IsFiniteSet(S), NEW N \in Nat, NEW f
  PROVE  /\ IsFiniteSet(Under(S, N, f)) /\ Cardinality(Under(S, N, f)) \in Nat
         /\ Cardinality(Under(S, N, f)) <= Cardinality(S) * N
<1>1. IsFiniteSet(1 .. N) /\ Cardinality(1 .. N) = N
  BY FS_Interval
<1>2. IsFiniteSet(S \X (1 .. N)) /\ Cardinality(S \X (1 .. N)) = Cardinality(S) * N
  BY <1>1, FS_Product
<1>3. Under(S, N, f) \in SUBSET (S \X (1 .. N))
  BY DEF Under
<1> QED BY <1>2, <1>3, FS_Subset, FS_CardinalityType

LEMMA SumIsMonotone ==
  ASSUME NEW S, IsFiniteSet(S), NEW N \in Nat, NEW f, NEW g,
         \A b \in S : f[b] \in Nat /\ g[b] \in Nat /\ f[b] <= g[b]
  PROVE  Cardinality(Under(S, N, f)) <= Cardinality(Under(S, N, g))
<1>1. Under(S, N, f) \subseteq Under(S, N, g)
  <2> SUFFICES ASSUME NEW p \in S \X (1 .. N), p[2] <= f[p[1]] PROVE p[2] <= g[p[1]]
    BY DEF Under
  <2>1. p[1] \in S /\ p[2] \in Nat
    OBVIOUS
  <2> QED BY <2>1
<1> QED BY <1>1, SumIsFinite, FS_Subset

(* If every number falls by one at most, and those of T rise by B but for  *)
(* one, the sum rises by what T brings and the others lose at most.        *)
LEMMA SumShifts ==
  ASSUME NEW S, IsFiniteSet(S), NEW N \in Nat, NEW B \in Nat, NEW T \in SUBSET S,
         NEW f, NEW g,
         \A b \in S : f[b] \in 0 .. N /\ g[b] \in 0 .. N /\ f[b] - 1 <= g[b],
         \A b \in T : f[b] - 1 + B <= g[b] /\ B <= g[b]
  PROVE  Cardinality(Under(S, N, f)) + Cardinality(T) * B
           <= Cardinality(Under(S, N, g)) + Cardinality(S)
<1> DEFINE low == [b \in S |-> IF f[b] = 0 THEN 0 ELSE f[b] - 1]
           L == Under(S, N, low)
           tops == {<<b, f[b]>> : b \in S}
           rise == [p \in T \X (1 .. B) |-> <<p[1], low[p[1]] + p[2]>>]
           E == {<<q[1], low[q[1]] + q[2]>> : q \in T \X (1 .. B)}
<1>1. \A b \in S : low[b] \in Nat /\ low[b] <= g[b] /\ low[b] <= f[b] /\ f[b] <= low[b] + 1
                   /\ g[b] <= N
  OBVIOUS
<1>2. \A b \in T : b \in S /\ low[b] + B <= g[b]
  OBVIOUS
<1> HIDE DEF low
<1>3. /\ IsFiniteSet(L) /\ Cardinality(L) \in Nat
      /\ IsFiniteSet(Under(S, N, f)) /\ Cardinality(Under(S, N, f)) \in Nat
      /\ IsFiniteSet(Under(S, N, g)) /\ Cardinality(Under(S, N, g)) \in Nat
      /\ Cardinality(S) \in Nat /\ IsFiniteSet(T) /\ Cardinality(T) \in Nat
  BY SumIsFinite, FS_Subset, FS_CardinalityType
<1>4. IsFiniteSet(tops) /\ Cardinality(tops) = Cardinality(S)
  <2> DEFINE h == [b \in S |-> <<b, f[b]>>]
  <2>2. /\ h \in [S -> tops] /\ \A e \in tops : \E b \in S : h[b] = e
        /\ \A b, c \in S : h[b] = h[c] => b = c
    OBVIOUS
  <2> HIDE DEF h, tops
  <2>1. h \in Bijection(S, tops)
    BY <2>2 DEF Bijection, Injection, Surjection, IsInjective
  <2> QED BY <2>1, FS_Bijection DEF ExistsBijection
<1>5. Cardinality(Under(S, N, f)) <= Cardinality(L) + Cardinality(S)
  <2>1. Under(S, N, f) \subseteq L \cup tops
    <3> SUFFICES ASSUME NEW p \in S \X (1 .. N), p[2] <= f[p[1]], p \notin tops
                 PROVE  p[2] <= low[p[1]]
      BY DEF Under
    <3>1. p[1] \in S /\ p[2] \in Nat /\ p = <<p[1], p[2]>>
      OBVIOUS
    <3>2. p[2] # f[p[1]]
      BY <3>1
    <3>3. f[p[1]] \in Nat /\ low[p[1]] \in Nat /\ f[p[1]] <= low[p[1]] + 1
      BY <1>1, <3>1
    <3> HIDE DEF tops
    <3> QED BY <3>1, <3>2, <3>3
  <2> HIDE DEF L, tops
  <2>2. IsFiniteSet(L \cup tops)
        /\ Cardinality(L \cup tops) = Cardinality(L) + Cardinality(tops) - Cardinality(L \cap tops)
    BY <1>3, <1>4, FS_Union
  <2>3. Cardinality(L \cap tops) \in Nat
    BY <1>3, FS_Intersection, FS_CardinalityType
  <2>4. Cardinality(Under(S, N, f)) <= Cardinality(L \cup tops)
    BY <2>1, <2>2, FS_Subset
  <2>5. Cardinality(L \cup tops) \in Nat
    BY <2>2, FS_CardinalityType
  <2> QED BY <1>3, <1>4, <2>2, <2>3, <2>4, <2>5
<1>6. IsFiniteSet(E) /\ Cardinality(E) = Cardinality(T) * B
  <2>1. IsFiniteSet(T \X (1 .. B)) /\ Cardinality(T \X (1 .. B)) = Cardinality(T) * B
    <3>1. IsFiniteSet(1 .. B) /\ Cardinality(1 .. B) = B
      BY FS_Interval
    <3> QED BY <1>3, <3>1, FS_Product
  <2>2. rise \in [T \X (1 .. B) -> E]
    OBVIOUS
  <2>3. \A e \in E : \E p \in T \X (1 .. B) : rise[p] = e
    OBVIOUS
  <2>4. \A p, q \in T \X (1 .. B) : rise[p] = rise[q] => p = q
    <3> SUFFICES ASSUME NEW p \in T \X (1 .. B), NEW q \in T \X (1 .. B), rise[p] = rise[q]
                 PROVE  p = q
      OBVIOUS
    <3>1. /\ p[1] \in T /\ p[2] \in Nat /\ p = <<p[1], p[2]>>
          /\ q[1] \in T /\ q[2] \in Nat /\ q = <<q[1], q[2]>>
      OBVIOUS
    <3>2. p[1] = q[1] /\ low[p[1]] + p[2] = low[q[1]] + q[2]
      OBVIOUS
    <3>3. p[2] = q[2]
      BY <1>1, <1>2, <3>1, <3>2
    <3> QED BY <3>1, <3>2, <3>3
  <2> HIDE DEF rise, E
  <2>5. rise \in Bijection(T \X (1 .. B), E)
    BY <2>2, <2>3, <2>4 DEF Bijection, Injection, Surjection, IsInjective
  <2> QED BY <2>1, <2>5, FS_Bijection DEF ExistsBijection
<1>7. L \cup E \subseteq Under(S, N, g) /\ L \cap E = {}
  <2>1. ASSUME NEW p \in L PROVE p \in Under(S, N, g)
    <3>1. p[1] \in S /\ p[2] \in Nat /\ p[2] <= low[p[1]] /\ p \in S \X (1 .. N)
      BY DEF Under
    <3>2. p[2] <= g[p[1]]
      BY <1>1, <3>1
    <3> QED BY <3>1, <3>2 DEF Under
  <2>2. ASSUME NEW p \in E PROVE p \in Under(S, N, g) /\ p \notin L
    <3>1. PICK q \in T \X (1 .. B) : p = <<q[1], low[q[1]] + q[2]>>
      BY <2>2
    <3>2. q[1] \in T /\ q[2] \in 1 .. B
      OBVIOUS
    <3>3. p[1] = q[1] /\ p[2] = low[q[1]] + q[2]
      BY <3>1
    <3>4. /\ p[1] \in S /\ p[2] \in 1 .. N /\ p[2] <= g[p[1]] /\ ~(p[2] <= low[p[1]])
      BY <1>1, <1>2, <3>2, <3>3
    <3> QED BY <3>1, <3>3, <3>4 DEF Under
  <2> QED BY <2>1, <2>2
<1> HIDE DEF L, E
<1>8. Cardinality(L) + Cardinality(E) <= Cardinality(Under(S, N, g))
  <2>1. IsFiniteSet(L \cup E)
        /\ Cardinality(L \cup E) = Cardinality(L) + Cardinality(E) - Cardinality(L \cap E)
    BY <1>3, <1>6, FS_Union
  <2>2. Cardinality(L \cap E) = 0
    BY <1>7, FS_EmptySet
  <2>3. Cardinality(L \cup E) <= Cardinality(Under(S, N, g))
    BY <1>3, <1>7, FS_Subset
  <2>4. Cardinality(E) \in Nat
    BY <1>6, FS_CardinalityType
  <2> QED BY <1>3, <2>1, <2>2, <2>3, <2>4
<1> DEFINE TB == Cardinality(T) * B
<1>9. TB = Cardinality(E) /\ TB \in Nat
  BY <1>3, <1>6, FS_CardinalityType
<1> HIDE DEF TB
<1> QED
  <2>1. Cardinality(Under(S, N, f)) + TB <= Cardinality(Under(S, N, g)) + Cardinality(S)
    BY <1>3, <1>5, <1>8, <1>9
  <2> QED BY <2>1 DEF TB

-----------------------------------------------------------------------------
(* Pay                                                                      *)

LEMMA QueueNumbers ==
  /\ MaxBackoff \in Nat \ {0} /\ MaxExponent \in Nat \ {0} /\ PassLimit \in Nat \ {0}
  /\ UrlTtl \in Nat /\ FullPay \in Nat /\ Patience \in Nat
  /\ IsFiniteSet(Leavers) /\ Leavers \subseteq Nat
  /\ \A a \in Leavers : IsFiniteSet(Older(a)) /\ Cardinality(Older(a)) \in Nat
                        /\ Cardinality(Older(a)) + 1 <= Cardinality(Leavers)
<1>1. /\ MaxBackoff \in Nat \ {0} /\ MaxExponent \in Nat \ {0} /\ PassLimit \in Nat \ {0}
      /\ UrlTtl \in Nat /\ Patience \in Nat /\ IsFiniteSet(Leavers) /\ Leavers \subseteq Nat
  BY QueueAssumption
<1>2. FullPay \in Nat
  <2>1. \A m, n \in Nat : m * n \in Nat
    OBVIOUS
  <2> QED BY <1>1, <2>1 DEF FullPay
<1>3. ASSUME NEW a \in Leavers
      PROVE  /\ IsFiniteSet(Older(a)) /\ Cardinality(Older(a)) \in Nat
             /\ Cardinality(Older(a)) + 1 <= Cardinality(Leavers)
  <2>1. Older(a) \subseteq Leavers \ {a}
    BY <1>1 DEF Older
  <2>2. IsFiniteSet(Leavers \ {a}) /\ Cardinality(Leavers \ {a}) = Cardinality(Leavers) - 1
    BY <1>1, FS_RemoveElement
  <2>3. IsFiniteSet(Older(a)) /\ Cardinality(Older(a)) <= Cardinality(Leavers \ {a})
    BY <2>1, <2>2, FS_Subset
  <2>4. Cardinality(Older(a)) \in Nat /\ Cardinality(Leavers) \in Nat
    BY <1>1, <2>3, FS_CardinalityType
  <2> QED BY <2>2, <2>3, <2>4
<1> QED BY <1>1, <1>2, <1>3

(* What a request that is not gone has paid, term by term. *)
LEMMA PayTerms ==
  ASSUME NEW state, NEW life \in 0 .. UrlTtl, NEW fails \in 0 .. MaxExponent,
         NEW left \in 0 .. MaxBackoff, NEW ahead \in {0, MaxBackoff},
         left + ahead <= MaxBackoff
  PROVE  LET pay == PayOf(state, life, fails, left, ahead) IN
         /\ pay \in 0 .. FullPay
         /\ state = "gone" => pay = FullPay
         /\ state # "gone" /\ life > 0 =>
              /\ pay = MaxBackoff * UrlTtl - MaxBackoff * life
              /\ pay <= MaxBackoff * UrlTtl - MaxBackoff
         /\ state # "gone" /\ life = 0 =>
              /\ pay = MaxBackoff * UrlTtl + MaxBackoff * fails + left + ahead
              /\ pay >= MaxBackoff * UrlTtl
         /\ MaxBackoff * UrlTtl \in Nat /\ MaxBackoff * fails \in Nat
         /\ MaxBackoff * life \in Nat
<1> DEFINE M == MaxBackoff
           pay == PayOf(state, life, fails, left, ahead)
<1>1. M \in Nat \ {0} /\ UrlTtl \in Nat /\ MaxExponent \in Nat
  BY QueueNumbers
<1>2. \A u \in Nat : \A v \in 0 .. u : /\ M * v \in Nat /\ M * u \in Nat /\ M * v <= M * u
                                       /\ M * (u - v) = M * u - M * v
                                       /\ v > 0 => M <= M * v
  BY <1>1
<1>3. FullPay = M * UrlTtl + M * MaxExponent + M
  BY <1>1 DEF FullPay
<1>4. /\ M * life \in Nat /\ M * UrlTtl \in Nat /\ M * life <= M * UrlTtl
      /\ M * (UrlTtl - life) = M * UrlTtl - M * life
      /\ M * fails \in Nat /\ M * MaxExponent \in Nat
      /\ M * fails <= M * MaxExponent
      /\ life > 0 => M <= M * life
  BY <1>1, <1>2
<1>5. CASE state = "gone"
  BY <1>1, <1>3, <1>4, <1>5 DEF PayOf
<1>6. CASE state # "gone" /\ life > 0
  BY <1>1, <1>3, <1>4, <1>6 DEF PayOf
<1>7. CASE state # "gone" /\ life = 0
  BY <1>1, <1>3, <1>4, <1>7 DEF PayOf
<1> QED BY <1>1, <1>4, <1>5, <1>6, <1>7

LEMMA PayRange ==
  ASSUME QueueTypeOK, NEW b \in Leavers
  PROVE  Pay(b) \in 0 .. FullPay
<1>1. /\ urlLife[b] \in 0 .. UrlTtl /\ failures[b] \in 0 .. MaxExponent
      /\ wait[b] \in 0 .. MaxBackoff /\ HeadStart(b) \in {0, MaxBackoff}
      /\ wait[b] + HeadStart(b) <= MaxBackoff
  BY QueueNumbers DEF QueueTypeOK, HeadStart
<1> QED BY <1>1, PayTerms DEF Pay

LEMMA PayRangeAfter ==
  ASSUME QueueTypeOK', NEW b \in Leavers
  PROVE  Pay(b)' \in 0 .. FullPay
<1>1. /\ urlLife'[b] \in 0 .. UrlTtl /\ failures'[b] \in 0 .. MaxExponent
      /\ wait'[b] \in 0 .. MaxBackoff /\ HeadStart(b)' \in {0, MaxBackoff}
      /\ wait'[b] + HeadStart(b)' <= MaxBackoff
  BY QueueNumbers DEF QueueTypeOK, HeadStart
<1>2. PayOf(leaving'[b], urlLife'[b], failures'[b], wait'[b], HeadStart(b)') \in 0 .. FullPay
  BY <1>1, PayTerms
<1> QED BY <1>2 DEF Pay, PayOf, FullPay

(* A step after which no older request has paid less keeps a's account. *)
LEMMA PayGrows ==
  ASSUME QueueTypeOK, QueueTypeOK', NEW a \in Leavers,
         \A b \in Older(a) : Pay(b) <= Pay(b)'
  PROVE  Cardinality(Paid(a)) <= Cardinality(Paid(a))'
<1>1. IsFiniteSet(Older(a)) /\ FullPay \in Nat
  BY QueueNumbers
<1>2. \A b \in Older(a) : b \in Leavers /\ Pay(b) \in Nat
  BY PayRange, QueueNumbers DEF Older
<1>3. \A b \in Older(a) : Pay(b)' \in Nat
  <2>1. \A b \in Leavers : Pay(b)' \in 0 .. FullPay
    BY PayRangeAfter
  <2> QED BY <2>1, <1>1 DEF Older
<1>4. \A b \in Older(a) : Pays[b] \in Nat /\ Pays'[b] \in Nat /\ Pays[b] <= Pays'[b]
  BY <1>2, <1>3 DEF Pays
<1>5. Cardinality(Under(Older(a), FullPay, Pays)) <= Cardinality(Under(Older(a), FullPay, Pays'))
  BY <1>1, <1>4, SumIsMonotone
<1> QED BY <1>5 DEF Paid, Under, Older, FullPay

-----------------------------------------------------------------------------
(* Steps                                                                    *)

LEMMA QueueTypesStay ==
  ASSUME QueueTypeOK, QueueNext
  PROVE  QueueTypeOK'
<1> USE QueueNumbers DEF QueueTypeOK, Requested
<1>1. \A n \in 0 .. MaxExponent : Backoff(n) \in 0 .. MaxBackoff /\ CountFailure(n) \in 0 .. MaxExponent
  BY BackoffRange DEF CountFailure
<1>2. ASSUME NEW a \in Leavers, RequestDeletion(a) PROVE QueueTypeOK'
  BY <1>2, QueueAssumption DEF RequestDeletion
<1>3. ASSUME NEW a \in Leavers, RepeatRequest(a) PROVE QueueTypeOK'
  BY <1>3 DEF RepeatRequest
<1>4. ASSUME NEW a \in Leavers, PublishTerminalEvents(a) PROVE QueueTypeOK'
  BY <1>4 DEF PublishTerminalEvents
<1>5. ASSUME NEW a \in Leavers, Attempted(a) \/ NotDeferred
      PROVE  /\ leaving' \in [Leavers -> {"live", "requested", "gone"}]
             /\ wait' \in [Leavers -> 0..MaxBackoff]
             /\ failures' \in [Leavers -> 0..MaxExponent]
             /\ leftOut' \in [Leavers -> 0..(Patience + 1)]
  <2>1. CASE AlreadyGone(a) \/ NotDeferred
    BY <2>1 DEF AlreadyGone, NotDeferred
  <2>2. CASE Deleted(a) \/ Recounted(a)
    BY <2>2 DEF Deleted, Recounted
  <2>3. CASE Pending(a)
    BY <2>3, QueueAssumption DEF Pending
  <2>4. CASE Failed(a)
    BY <1>1, <2>4 DEF Failed
  <2> QED BY <1>5, <2>1, <2>2, <2>3, <2>4 DEF Attempted
<1>6. ASSUME NEW a \in Leavers, HandlerAttempts(a) PROVE QueueTypeOK'
  BY <1>5, <1>6 DEF HandlerAttempts
<1>7. ASSUME NEW a \in Leavers, FinalizeNext(a) PROVE QueueTypeOK'
  BY <1>5, <1>7 DEF FinalizeNext
<1>8. CASE Minute
  <2>1. \A n \in Nat : Later(n) \in Nat /\ Later(n) <= n
    BY DEF Later
  <2>2. \A waits : OldestDue(waits) \subseteq Leavers
    BY DEF OldestDue
  <2>3. pass' \subseteq Leavers /\ leftOut' \in [Leavers -> 0..(Patience + 1)]
    <3>1. CASE leftOut' = [a \in Leavers |-> 0] /\ pass' = pass
      BY <3>1
    <3>2. CASE StartPass(wait')
      <4>1. \A a \in Leavers : (IF ~LeavesOut(wait', a) THEN 0
                               ELSE IF leftOut[a] <= Patience THEN leftOut[a] + 1 ELSE leftOut[a])
                              \in 0..(Patience + 1)
        OBVIOUS
      <4> QED BY <2>2, <3>2, <4>1 DEF StartPass
    <3> QED BY <1>8, <3>1, <3>2 DEF Minute, QueryFails
  <2>4. wait' \in [Leavers -> 0..MaxBackoff] /\ urlLife' \in [Leavers -> 0..UrlTtl]
    BY <1>8, <2>1 DEF Minute
  <2> QED BY <1>8, <2>3, <2>4 DEF Minute
<1>9. CASE QueueRestart
  BY <1>9 DEF QueueRestart, OldestDue
<1> QED BY <1>2, <1>3, <1>4, <1>6, <1>7, <1>8, <1>9 DEF QueueNext

(* Order of the requests, and who can be left out or in a pass. *)
LEMMA QueueOrderStays ==
  ASSUME QueueTypeOK, RequestsInOrder, LeftOutAreRequested, PassIsOfRequests, QueueNext
  PROVE  RequestsInOrder' /\ LeftOutAreRequested' /\ PassIsOfRequests'
<1> USE QueueNumbers DEF QueueTypeOK, Requested, RequestsInOrder, LeftOutAreRequested,
        PassIsOfRequests
<1>2. ASSUME NEW a \in Leavers, RequestDeletion(a)
      PROVE  RequestsInOrder' /\ LeftOutAreRequested' /\ PassIsOfRequests'
  BY <1>2 DEF RequestDeletion
<1>3. ASSUME NEW a \in Leavers, RepeatRequest(a)
      PROVE  RequestsInOrder' /\ LeftOutAreRequested' /\ PassIsOfRequests'
  BY <1>3 DEF RepeatRequest
<1>4. ASSUME NEW a \in Leavers, PublishTerminalEvents(a)
      PROVE  RequestsInOrder' /\ LeftOutAreRequested' /\ PassIsOfRequests'
  BY <1>4 DEF PublishTerminalEvents
<1>5. ASSUME NEW a \in Leavers, Attempted(a) \/ NotDeferred, pass' \subseteq pass
      PROVE  RequestsInOrder' /\ LeftOutAreRequested' /\ PassIsOfRequests'
  <2>1. CASE AlreadyGone(a) \/ NotDeferred
    BY <1>5, <2>1 DEF AlreadyGone, NotDeferred
  <2>2. CASE Deleted(a) /\ a \in Requested
    BY <1>5, <2>2 DEF Deleted
  <2>3. CASE Pending(a) \/ Recounted(a) \/ Failed(a)
    BY <1>5, <2>3 DEF Pending, Recounted, Failed
  <2> QED BY <1>5, <2>1, <2>2, <2>3 DEF Attempted
<1>6. ASSUME NEW a \in Leavers, HandlerAttempts(a) \/ FinalizeNext(a)
      PROVE  RequestsInOrder' /\ LeftOutAreRequested' /\ PassIsOfRequests'
  <2>1. (Attempted(a) \/ NotDeferred) /\ pass' \subseteq pass
    BY <1>6 DEF HandlerAttempts, FinalizeNext
  <2> QED BY <1>5, <2>1
<1>8. CASE Minute
  <2>1. leaving' = leaving /\ (pass' = pass \/ pass' \subseteq Requested)
    BY <1>8 DEF Minute, StartPass, QueryFails, OldestDue
  <2>2. \A a \in Leavers : leftOut'[a] > 0 => a \in Requested
    BY <1>8 DEF Minute, StartPass, QueryFails, LeavesOut
  <2> QED BY <2>1, <2>2
<1>9. CASE QueueRestart
  BY <1>9 DEF QueueRestart, OldestDue
<1> QED BY <1>2, <1>3, <1>4, <1>6, <1>8, <1>9 DEF QueueNext

(* An attempt never lowers what anybody has paid. *)
LEMMA AttemptPays ==
  ASSUME QueueTypeOK, QueueTypeOK', NEW a \in Requested,
         Deleted(a) \/ Pending(a) \/ Failed(a),
         urlLife' = urlLife, pass' = pass \/ pass' = pass \ {a}, NEW b \in Leavers
  PROVE  Pay(b) <= Pay(b)'
<1> DEFINE M == MaxBackoff
<1>1. /\ Pay(b) \in 0 .. FullPay /\ Pay(b)' \in 0 .. FullPay /\ FullPay \in Nat
  BY PayRange, PayRangeAfter, QueueNumbers
<1>2. a \in Leavers /\ leaving[a] = "requested"
  BY DEF Requested
<1>3. CASE b # a
  <2>1. /\ leaving'[b] = leaving[b] /\ failures'[b] = failures[b] /\ wait'[b] = wait[b]
        /\ (b \in pass' <=> b \in pass)
    BY <1>2, <1>3 DEF Deleted, Pending, Failed, QueueTypeOK
  <2>2. HeadStart(b)' = HeadStart(b)
    BY <2>1 DEF HeadStart
  <2>3. Pay(b)' = Pay(b)
    BY <2>1, <2>2 DEF Pay, PayOf, FullPay
  <2> QED BY <1>1, <2>3
<1>4. CASE b = a /\ Deleted(a)
  <2>1. leaving'[b] = "gone"
    BY <1>2, <1>4 DEF Deleted, QueueTypeOK
  <2>2. Pay(b)' = FullPay
    BY <2>1 DEF Pay, PayOf, FullPay
  <2> QED BY <1>1, <2>2
<1>5. CASE b = a /\ ~Deleted(a) /\ urlLife[a] > 0
  <2>1. leaving' = leaving
    BY <1>5 DEF Pending, Failed
  <2>2. Pay(b)' = Pay(b)
    BY <1>2, <1>5, <2>1 DEF Pay, PayOf, FullPay
  <2> QED BY <1>1, <2>2
<1>6. CASE b = a /\ ~Deleted(a) /\ ~(urlLife[a] > 0)
  <2>1. urlLife[a] = 0 /\ Failed(a)
    BY <1>2, <1>6, QueueNumbers DEF Pending, QueueTypeOK
  <2> DEFINE f == failures[a]
             w == wait[a]
  <2>2. /\ f \in 0 .. MaxExponent /\ w \in 0 .. M /\ M \in Nat \ {0} /\ MaxExponent \in Nat
        /\ HeadStart(a) = IF a \in pass /\ w = 0 THEN M ELSE 0
    BY <1>2, QueueNumbers DEF QueueTypeOK, HeadStart
  <2>3. /\ leaving'[a] = "requested" /\ failures'[a] = CountFailure(f) /\ wait'[a] = Backoff(f)
    BY <1>2, <2>1 DEF Failed, QueueTypeOK
  <2>4. Backoff(f) \in 1 .. M /\ (f = MaxExponent => Backoff(f) = M)
    BY <2>2, BackoffRange
  <2>5. HeadStart(a)' = 0
    BY <2>3, <2>4 DEF HeadStart
  <2>6. CountFailure(f) \in 0 .. MaxExponent /\ CountFailure(f) = IF f < MaxExponent THEN f + 1 ELSE f
    BY <2>2 DEF CountFailure
  <2>7. Pay(a) = M * UrlTtl + M * f + w + HeadStart(a)
    BY <1>2, <2>1 DEF Pay, PayOf
  <2>8. Pay(a)' = M * UrlTtl + M * CountFailure(f) + Backoff(f) + 0
    BY <2>1, <2>3, <2>5 DEF Pay, PayOf
  <2>9. M * CountFailure(f) = IF f < MaxExponent THEN M * f + M ELSE M * f
    BY <2>2, <2>6
  <2>10. M * UrlTtl \in Nat /\ M * f \in Nat
    BY <2>2, QueueNumbers
  <2> HIDE DEF f, w
  <2>11. CASE f < MaxExponent
    BY <1>6, <2>2, <2>4, <2>7, <2>8, <2>9, <2>10, <2>11
  <2>12. CASE f = MaxExponent
    BY <1>6, <2>2, <2>4, <2>7, <2>8, <2>9, <2>10, <2>12
  <2> QED BY <2>2, <2>11, <2>12
<1> QED BY <1>3, <1>4, <1>5, <1>6

(* A minute costs a request at most one; a due request that the new pass   *)
(* takes up is ahead of that by the longest wait.                          *)
LEMMA MinutePays ==
  ASSUME QueueTypeOK, QueueTypeOK', pass = {}, leaving' = leaving, failures' = failures,
         wait' = [c \in Leavers |-> Later(wait[c])],
         urlLife' = [c \in Leavers |-> Later(urlLife[c])], NEW b \in Leavers
  PROVE  /\ Pay(b) - 1 <= Pay(b)'
         /\ b \in Requested /\ wait'[b] = 0 /\ b \in pass' =>
              Pay(b) - 1 + MaxBackoff <= Pay(b)' /\ MaxBackoff <= Pay(b)'
<1> DEFINE M == MaxBackoff
<1>1. /\ Pay(b) \in 0 .. FullPay /\ Pay(b)' \in 0 .. FullPay /\ FullPay \in Nat
      /\ M \in Nat \ {0} /\ UrlTtl \in Nat /\ MaxExponent \in Nat
  BY PayRange, PayRangeAfter, QueueNumbers
<1>2. /\ wait[b] \in 0 .. M /\ wait'[b] = Later(wait[b])
      /\ urlLife[b] \in 0 .. UrlTtl /\ urlLife'[b] = Later(urlLife[b])
      /\ failures[b] \in 0 .. MaxExponent
  BY DEF QueueTypeOK
<1>3. CASE leaving[b] = "gone"
  <2>1. Pay(b) = FullPay /\ Pay(b)' = FullPay
    BY <1>3 DEF Pay, PayOf, FullPay
  <2> QED BY <1>1, <1>3, <2>1 DEF Requested
<1> DEFINE l == urlLife[b]
           w == wait[b]
<1>4. CASE leaving[b] # "gone" /\ l > 0
  <2>1. l \in Nat /\ Later(l) = l - 1 /\ l <= UrlTtl
    BY <1>1, <1>2, <1>4 DEF Later
  <2>2. Pay(b) = M * (UrlTtl - l)
    BY <1>4 DEF Pay, PayOf
  <2>3. M * (UrlTtl - l) + M = M * (UrlTtl - (l - 1))
    BY <1>1, <2>1
  <2>4. CASE l - 1 > 0
    <3>1. Pay(b)' = M * (UrlTtl - (l - 1))
      BY <1>2, <1>4, <2>1, <2>4 DEF Pay, PayOf
    <3> QED BY <1>1, <2>2, <2>3, <3>1
  <2>5. CASE l = 1
    <3>1. Pay(b)' = M * UrlTtl + M * failures[b] + wait'[b] + HeadStart(b)'
      BY <1>2, <1>4, <2>1, <2>5 DEF Pay, PayOf
    <3>2. M * failures[b] \in Nat /\ wait'[b] \in Nat /\ HeadStart(b)' \in Nat /\ M * UrlTtl \in Nat
      <4>1. wait'[b] \in Nat /\ HeadStart(b)' \in Nat
        BY <1>1, <1>2 DEF HeadStart, Later
      <4>2. M * failures[b] \in Nat /\ M * UrlTtl \in Nat
        BY <1>1, <1>2
      <4> QED BY <4>1, <4>2
    <3>3. M * (UrlTtl - (l - 1)) = M * UrlTtl
      BY <1>1, <2>5
    <3> QED BY <1>1, <2>2, <2>3, <3>1, <3>2, <3>3
  <2> QED BY <1>2, <1>4, <2>1, <2>4, <2>5
<1>5. CASE leaving[b] # "gone" /\ l = 0
  <2>1. Later(l) = 0 /\ w \in Nat /\ Later(w) = IF w = 0 THEN 0 ELSE w - 1
    BY <1>2, <1>5 DEF Later
  <2>2. Pay(b) = M * UrlTtl + M * failures[b] + w + 0
    BY <1>5 DEF Pay, PayOf, HeadStart
  <2>3. Pay(b)' = M * UrlTtl + M * failures[b] + Later(w) + HeadStart(b)'
    BY <1>2, <1>5, <2>1 DEF Pay, PayOf
  <2>4. HeadStart(b)' = IF b \in pass' /\ Later(w) = 0 THEN M ELSE 0
    BY <1>2 DEF HeadStart
  <2>5. M * failures[b] \in Nat /\ M * UrlTtl \in Nat
    BY <1>1, <1>2
  <2> QED BY <1>1, <1>2, <2>1, <2>2, <2>3, <2>4, <2>5
<1> QED BY <1>2, <1>3, <1>4, <1>5

(* A pass that leaves out a due request is full of older ones. *)
LEMMA OlderFillPass ==
  ASSUME NEW waits, NEW a \in Leavers, LeavesOut(waits, a)
  PROVE  \E T \in SUBSET Older(a) :
           /\ Cardinality(T) \in Nat /\ Cardinality(T) >= PassLimit
           /\ \A c \in T : c \in Requested /\ waits[c] = 0 /\ c \in OldestDue(waits)
<1> DEFINE ready == {c \in Requested : waits[c] = 0}
           before(c) == {b \in ready : b < c}
           late == {c \in ready : ~(Cardinality(before(c)) < PassLimit)}
<1>1. ready \subseteq Leavers /\ Leavers \subseteq Nat /\ PassLimit \in Nat
  BY QueueNumbers DEF Requested
<1>2. \A c \in Leavers : Cardinality(before(c)) \in Nat
  <2> SUFFICES ASSUME NEW c \in Leavers PROVE Cardinality(before(c)) \in Nat
    OBVIOUS
  <2>1. before(c) \in SUBSET Leavers
    BY <1>1
  <2> HIDE DEF before
  <2> QED BY <2>1, QueueNumbers, FS_Subset, FS_CardinalityType
<1>3. OldestDue(waits) = {c \in ready : Cardinality(before(c)) < PassLimit}
  BY DEF OldestDue
<1>4. a \in late
  BY <1>3 DEF LeavesOut
<1>5. late \subseteq Nat
  BY <1>1
<1>6. PICK d \in late : \A k \in late : d <= k
  <2> HIDE DEF late
  <2> QED BY <1>4, <1>5, SmallestOf
<1>10. d \in Leavers /\ d \in Nat /\ a \in Nat /\ d <= a
  BY <1>1, <1>4, <1>6
<1>7. before(d) \in SUBSET Older(a)
  <2> SUFFICES ASSUME NEW b \in before(d) PROVE b \in Older(a)
    OBVIOUS
  <2>1. b \in Leavers /\ b \in Nat /\ b < d
    BY <1>1
  <2> QED BY <1>10, <2>1 DEF Older
<1>8. Cardinality(before(d)) \in Nat /\ Cardinality(before(d)) >= PassLimit
  <2>1. ~(Cardinality(before(d)) < PassLimit)
    OBVIOUS
  <2> HIDE DEF before
  <2> QED BY <1>1, <1>2, <1>10, <2>1
<1>9. ASSUME NEW c \in before(d) PROVE c \in Requested /\ waits[c] = 0 /\ c \in OldestDue(waits)
  <2>1. c \in ready /\ c \in Nat /\ c < d
    BY <1>1
  <2>2. c \notin late
    <3> HIDE DEF late
    <3> QED BY <1>6, <1>10, <2>1
  <2> QED BY <1>3, <2>1, <2>2
<1> HIDE DEF before
<1> QED BY <1>7, <1>8, <1>9

(* Such a pass is paid for by them together. *)
LEMMA MinuteIsPaid ==
  ASSUME QueueTypeOK, QueueTypeOK', NEW a \in Leavers, pass = {}, leaving' = leaving,
         failures' = failures, wait' = [c \in Leavers |-> Later(wait[c])],
         urlLife' = [c \in Leavers |-> Later(urlLife[c])],
         pass' = OldestDue(wait'), LeavesOut(wait', a)
  PROVE  Cardinality(Paid(a)) + 1 <= Cardinality(Paid(a))'
<1> DEFINE S == Older(a)
<1>1. PICK T \in SUBSET S :
           /\ Cardinality(T) \in Nat /\ Cardinality(T) >= PassLimit
           /\ \A c \in T : c \in Requested /\ wait'[c] = 0 /\ c \in OldestDue(wait')
  BY OlderFillPass
<1>2. S \subseteq Leavers
  BY DEF Older
<1>3. \A b \in S : Pays[b] \in 0 .. FullPay /\ Pays'[b] \in 0 .. FullPay /\ Pays[b] - 1 <= Pays'[b]
  <2> SUFFICES ASSUME NEW b \in S
               PROVE  Pay(b) \in 0 .. FullPay /\ Pay(b)' \in 0 .. FullPay /\ Pay(b) - 1 <= Pay(b)'
    BY <1>2 DEF Pays
  <2> QED BY <1>2, PayRange, PayRangeAfter, MinutePays
<1>4. \A b \in T : Pays[b] - 1 + MaxBackoff <= Pays'[b] /\ MaxBackoff <= Pays'[b]
  <2> SUFFICES ASSUME NEW b \in T
               PROVE  Pay(b) - 1 + MaxBackoff <= Pay(b)' /\ MaxBackoff <= Pay(b)'
    BY <1>2 DEF Pays
  <2> QED BY <1>1, <1>2, MinutePays
<1>5. /\ IsFiniteSet(S) /\ FullPay \in Nat /\ MaxBackoff \in Nat \ {0} /\ PassLimit \in Nat
      /\ Cardinality(S) \in Nat /\ Cardinality(S) + 1 <= Cardinality(Leavers)
  BY QueueNumbers
<1> HIDE DEF S
<1>6. Cardinality(Under(S, FullPay, Pays)) + Cardinality(T) * MaxBackoff
        <= Cardinality(Under(S, FullPay, Pays')) + Cardinality(S)
  BY <1>1, <1>3, <1>4, <1>5, SumShifts
<1>7. /\ Cardinality(Under(S, FullPay, Pays)) \in Nat
      /\ Cardinality(Under(S, FullPay, Pays')) \in Nat
  BY <1>5, SumIsFinite
<1>8. Cardinality(S) + 1 <= Cardinality(T) * MaxBackoff /\ Cardinality(T) * MaxBackoff \in Nat
  <2>1. \A m, n, k \in Nat : m >= n => m * k >= n * k /\ m * k \in Nat /\ n * k \in Nat
    OBVIOUS
  <2>2. /\ Cardinality(T) * MaxBackoff >= PassLimit * MaxBackoff
        /\ Cardinality(T) * MaxBackoff \in Nat /\ PassLimit * MaxBackoff \in Nat
    BY <1>1, <1>5, <2>1
  <2>3. Cardinality(Leavers) <= PassLimit * MaxBackoff /\ Cardinality(Leavers) \in Nat
    BY QueueAssumption, FS_CardinalityType
  <2> QED BY <1>5, <2>2, <2>3
<1> DEFINE brought == Cardinality(T) * MaxBackoff
<1>9. Cardinality(Under(S, FullPay, Pays)) + 1 <= Cardinality(Under(S, FullPay, Pays'))
  <2>1. /\ Cardinality(Under(S, FullPay, Pays)) + brought
             <= Cardinality(Under(S, FullPay, Pays')) + Cardinality(S)
        /\ Cardinality(S) + 1 <= brought /\ brought \in Nat
    BY <1>6, <1>8
  <2> HIDE DEF brought
  <2> QED BY <1>5, <1>7, <2>1
<1> QED BY <1>9 DEF S, Paid, Under, Older, FullPay

LEMMA LeftOutStaysPaid ==
  ASSUME QueueInv, QueueNext
  PROVE  LeftOutIsPaid'
<1>1. QueueTypeOK /\ QueueTypeOK'
  BY QueueTypesStay DEF QueueInv
<1>2. \A a \in Leavers : /\ Cardinality(Paid(a)) \in Nat /\ leftOut[a] \in Nat
                         /\ leftOut[a] <= Cardinality(Paid(a))
                         /\ leftOut[a] > 0 => leaving[a] = "requested"
                         /\ leftOut'[a] \in Nat
  <2>1. \A a \in Leavers : Cardinality(Paid(a)) \in Nat
    BY QueueNumbers, SumIsFinite DEF Paid
  <2> QED BY <1>1, <2>1, QueueNumbers
          DEF QueueInv, LeftOutIsPaid, LeftOutAreRequested, Requested, QueueTypeOK
<1>3. \A a \in Leavers : Cardinality(Paid(a))' \in Nat
  <2> SUFFICES ASSUME NEW a \in Leavers PROVE Cardinality(Paid(a))' \in Nat
    OBVIOUS
  <2>1. Cardinality(Under(Older(a), FullPay, Pays')) \in Nat
    BY QueueNumbers, SumIsFinite
  <2> QED BY <2>1 DEF Paid, Under, Older, FullPay
<1>4. ASSUME leftOut' = [b \in Leavers |-> 0] PROVE LeftOutIsPaid'
  BY <1>3, <1>4 DEF LeftOutIsPaid
<1>5. ASSUME \A a \in Leavers : leftOut'[a] = 0 \/ (leftOut'[a] = leftOut[a] /\
               \A b \in Older(a) : leftOut[a] > 0 => Pay(b) <= Pay(b)')
      PROVE  LeftOutIsPaid'
  <2> SUFFICES ASSUME NEW a \in Leavers PROVE leftOut'[a] <= Cardinality(Paid(a))'
    BY DEF LeftOutIsPaid
  <2>1. CASE leftOut'[a] = 0
    BY <1>3, <2>1
  <2>2. CASE leftOut'[a] > 0
    <3>1. leftOut'[a] = leftOut[a] /\ \A b \in Older(a) : Pay(b) <= Pay(b)'
      BY <1>5, <2>2
    <3>2. Cardinality(Paid(a)) <= Cardinality(Paid(a))'
      BY <1>1, <3>1, PayGrows
    <3> QED BY <1>2, <1>3, <3>1, <3>2
  <2> QED BY <1>2, <2>1, <2>2
<1>6. \A a \in Leavers : Older(a) \subseteq Leavers
  BY DEF Older
<1>7. \A b \in Leavers : Pay(b) \in 0 .. FullPay /\ FullPay \in Nat
  BY <1>1, PayRange, QueueNumbers
<1>8. ASSUME NEW x \in Leavers, RequestDeletion(x) PROVE LeftOutIsPaid'
  <2> SUFFICES ASSUME NEW a \in Leavers, NEW b \in Older(a), leftOut[a] > 0
               PROVE  Pay(b) <= Pay(b)'
    BY <1>5, <1>8 DEF RequestDeletion
  <2>1. b # x
    BY <1>2, <1>8 DEF RequestDeletion, QueueInv, RequestsInOrder, Older
  <2>2. /\ leaving'[b] = leaving[b] /\ wait'[b] = wait[b] /\ failures'[b] = failures[b]
        /\ urlLife'[b] = urlLife[b] /\ pass' = pass
    BY <1>1, <1>6, <1>8, <2>1 DEF RequestDeletion, QueueTypeOK
  <2>3. Pay(b)' = Pay(b)
    BY <2>2 DEF Pay, PayOf, HeadStart, FullPay
  <2> QED BY <1>6, <1>7, <2>3
<1>9. ASSUME NEW x \in Leavers, RepeatRequest(x) PROVE LeftOutIsPaid'
  BY <1>4, <1>9 DEF RepeatRequest
<1>10. ASSUME NEW x \in Leavers, PublishTerminalEvents(x) PROVE LeftOutIsPaid'
  <2>1. \A b \in Leavers : Pay(b)' = Pay(b)
    BY <1>10 DEF PublishTerminalEvents, Pay, PayOf, HeadStart, FullPay
  <2>2. leftOut' = leftOut
    BY <1>10 DEF PublishTerminalEvents
  <2> QED BY <1>5, <1>6, <1>7, <2>1, <2>2
<1>11. ASSUME NEW x \in Leavers, Attempted(x) \/ NotDeferred, urlLife' = urlLife,
              pass' = pass \/ (pass' = pass \ {x} /\ x \in pass)
       PROVE  LeftOutIsPaid'
  <2>1. CASE NotDeferred \/ Recounted(x)
    BY <1>4, <2>1 DEF NotDeferred, Recounted
  <2>2. CASE AlreadyGone(x)
    <3>1. /\ leaving' = leaving /\ wait' = wait /\ failures' = failures /\ leftOut' = leftOut
          /\ leaving[x] # "requested"
      BY <2>2 DEF AlreadyGone, Requested
    <3>2. \A b \in Leavers : Pay(b)' = Pay(b)
      <4> SUFFICES ASSUME NEW b \in Leavers PROVE Pay(b)' = Pay(b)
        OBVIOUS
      <4>1. CASE b \in pass' <=> b \in pass
        BY <1>11, <3>1, <4>1 DEF Pay, PayOf, HeadStart, FullPay
      <4>2. CASE ~(b \in pass' <=> b \in pass)
        <5>1. leaving[b] = "gone"
          BY <1>1, <1>11, <3>1, <4>2 DEF QueueInv, PassIsOfRequests, QueueTypeOK
        <5> QED BY <3>1, <5>1 DEF Pay, PayOf, FullPay
      <4> QED BY <4>1, <4>2
    <3> QED BY <1>5, <1>6, <1>7, <3>1, <3>2
  <2>3. CASE x \in Requested /\ (Deleted(x) \/ Pending(x) \/ Failed(x))
    <3>1. \A b \in Leavers : Pay(b) <= Pay(b)'
      BY <1>1, <1>11, <2>3, AttemptPays
    <3>2. \A a \in Leavers : leftOut'[a] \in {0, leftOut[a]}
      BY <1>1, <2>3 DEF Deleted, Pending, Failed, QueueTypeOK
    <3> QED BY <1>5, <1>6, <3>1, <3>2
  <2> QED BY <1>11, <2>1, <2>2, <2>3 DEF Attempted
<1>12. ASSUME NEW x \in Leavers, HandlerAttempts(x) \/ FinalizeNext(x) PROVE LeftOutIsPaid'
  BY <1>11, <1>12 DEF HandlerAttempts, FinalizeNext
<1>13. CASE Minute
  <2>1. CASE leftOut' = [b \in Leavers |-> 0]
    BY <1>4, <2>1
  <2>2. CASE pass = {} /\ StartPass(wait')
    <3> SUFFICES ASSUME NEW a \in Leavers PROVE leftOut'[a] <= Cardinality(Paid(a))'
      BY DEF LeftOutIsPaid
    <3>1. leftOut'[a] = IF ~LeavesOut(wait', a) THEN 0
                        ELSE IF leftOut[a] <= Patience THEN leftOut[a] + 1 ELSE leftOut[a]
      BY <2>2 DEF StartPass
    <3>2. CASE ~LeavesOut(wait', a)
      BY <1>3, <3>1, <3>2
    <3>3. CASE LeavesOut(wait', a)
      <4>1. Cardinality(Paid(a)) + 1 <= Cardinality(Paid(a))'
        BY <1>1, <1>13, <2>2, <3>3, MinuteIsPaid DEF Minute, StartPass
      <4> QED BY <1>2, <1>3, <3>1, <3>3, <4>1
    <3> QED BY <3>2, <3>3
  <2> QED BY <1>13, <2>1, <2>2 DEF Minute, QueryFails
<1>14. CASE QueueRestart
  BY <1>4, <1>14 DEF QueueRestart
<1> QED BY <1>8, <1>9, <1>10, <1>12, <1>13, <1>14 DEF QueueNext

LEMMA QueueInvariance == QueueSpec => []QueueInv
<1>1. QueueInit => QueueInv
  <2> SUFFICES ASSUME QueueInit PROVE QueueInv
    OBVIOUS
  <2>1. QueueTypeOK
    BY QueueNumbers DEF QueueInit, QueueTypeOK
  <2>2. RequestsInOrder /\ LeftOutAreRequested /\ PassIsOfRequests
    BY DEF QueueInit, RequestsInOrder, LeftOutAreRequested, PassIsOfRequests
  <2>3. \A a \in Leavers : Cardinality(Paid(a)) \in Nat
    BY QueueNumbers, SumIsFinite DEF Paid
  <2>4. LeftOutIsPaid
    BY <2>3 DEF QueueInit, LeftOutIsPaid
  <2> QED BY <2>1, <2>2, <2>4 DEF QueueInv
<1>2. QueueInv /\ [QueueNext]_queueVars => QueueInv'
  <2>1. ASSUME QueueInv, QueueNext PROVE QueueInv'
    BY <2>1, QueueTypesStay, QueueOrderStays, LeftOutStaysPaid DEF QueueInv
  <2>2. ASSUME QueueInv, UNCHANGED queueVars PROVE QueueInv'
    BY <2>2 DEF queueVars, QueueInv, QueueTypeOK, RequestsInOrder, LeftOutAreRequested,
                PassIsOfRequests, LeftOutIsPaid, Requested, Paid, Under, Pays, Pay, PayOf,
                HeadStart, Older, FullPay
  <2> QED BY <2>1, <2>2
<1> QED BY <1>1, <1>2, PTL DEF QueueSpec

(***************************************************************************)
(* For any number of requests that the passes within the longest wait can  *)
(* take: a request that is due is left out by no more prompt passes than   *)
(* the minutes the older ones can be made to wait, however they fail, are  *)
(* put off or succeed (finalizePendingAccountDeletions,                    *)
(* deferAccountDeletion).                                                  *)
(***************************************************************************)
THEOREM DueRequestsAreTakenUp ==
  ASSUME (Cardinality(Leavers) - 1) * FullPay <= Patience
  PROVE  QueueSpec => []DueIsTakenUp
<1>1. QueueInv => DueIsTakenUp
  <2> SUFFICES ASSUME QueueInv, NEW a \in Leavers PROVE leftOut[a] <= Patience
    BY DEF DueIsTakenUp
  <2>1. /\ leftOut[a] \in Nat /\ leftOut[a] <= Cardinality(Paid(a)) /\ Patience \in Nat
    BY QueueNumbers DEF QueueInv, LeftOutIsPaid, QueueTypeOK
  <2>2. /\ Cardinality(Paid(a)) <= Cardinality(Older(a)) * FullPay
        /\ Cardinality(Paid(a)) \in Nat
    BY QueueNumbers, SumIsFinite DEF Paid
  <2>3. /\ Cardinality(Older(a)) \in Nat /\ FullPay \in Nat /\ Cardinality(Leavers) - 1 \in Nat
        /\ Cardinality(Older(a)) <= Cardinality(Leavers) - 1
    <3>1. Cardinality(Leavers) \in Nat
      BY QueueNumbers, FS_CardinalityType
    <3> QED BY <3>1, QueueNumbers
  <2>4. /\ Cardinality(Older(a)) * FullPay <= (Cardinality(Leavers) - 1) * FullPay
        /\ Cardinality(Older(a)) * FullPay \in Nat /\ (Cardinality(Leavers) - 1) * FullPay \in Nat
    <3>1. \A m, n, k \in Nat : m <= n => m * k <= n * k /\ m * k \in Nat /\ n * k \in Nat
      OBVIOUS
    <3> QED BY <2>3, <3>1
  <2> QED BY <2>1, <2>2, <2>4
<1> QED BY <1>1, QueueInvariance, PTL
=============================================================================
