----------------------------- MODULE AdminRoles -----------------------------
(***************************************************************************)
(* Who is a Superadmin.  Roles change in three ways that do not share one  *)
(* lock: the role CLI (AdminRoleService, one transaction under an advisory *)
(* lock), the setup CLI (initial-superadmin.cli.ts, whose decision is read *)
(* before its transaction) and, through the account status, the desk's     *)
(* suspend and restore requests, which pass two guards, each reading the   *)
(* database once, before the handler's own transaction starts.  The owner  *)
(* deletes his account through the portal in the same way.                 *)
(*                                                                         *)
(* Reasons, confirmations and audit wording are left out; the audit trail  *)
(* of an account is its last role entry.                                   *)
(***************************************************************************)
EXTENDS Naturals, FiniteSets

CONSTANTS People,        \* account names (email addresses)
          Founder,       \* the address the setup CLI is configured with
          NoActor,       \* the role CLI was given no --actor-uid
          MaxDesk        \* bound: desk and portal requests under way at once

ASSUME PeopleAssumption ==
  /\ IsFiniteSet(People)
  /\ Founder \in People /\ NoActor \notin People

VARIABLES account,       \* the User row behind each address, or NoRow
          trail,         \* its last PROMOTE_ADMIN / DEMOTE_ADMIN entry
          desk,          \* requests between their guards and their transaction
          demotion,      \* the demote transaction, between its reads and its count
          setup,         \* the setup CLI, between its read and its transaction
          reinstated     \* history: accounts setup promoted again without an entry

rolesVars == <<account, trail, desk, demotion, setup, reinstated>>

Role == {"USER", "SUPERADMIN"}
Status == {"ACTIVE", "SUSPENDED"}
Row == [role : Role, status : Status, leaving : BOOLEAN]
NoRow == [role |-> "none"]
NewRow == [role |-> "USER", status |-> "ACTIVE", leaving |-> FALSE]

DeskRequest == [op : {"suspend", "restore", "delete"}, by : People, of : People,
                guard : {"jwt", "admin"}]
Idle == [target |-> NoActor]

Exists(p) == account[p] # NoRow
Active(p) == Exists(p) /\ account[p].status = "ACTIVE"
Superadmin(p) == Exists(p) /\ account[p].role = "SUPERADMIN"
ActiveAdmins == {p \in People : Superadmin(p) /\ Active(p)}

RolesTypeOK ==
  /\ account \in [People -> Row \cup {NoRow}]
  /\ trail \in [People -> {"none", "PROMOTE", "DEMOTE"}]
  /\ desk \subseteq DeskRequest
  /\ demotion \in {Idle} \cup [target : People, by : People]
  /\ setup \in {"idle", "absent"} \cup Role
  /\ reinstated \subseteq People

RolesInit ==
  /\ account = [p \in People |-> NoRow]
  /\ trail = [p \in People |-> "none"]
  /\ desk = {}
  /\ demotion = Idle
  /\ setup = "idle"
  /\ reinstated = {}

Recorded(p, entry) == trail' = [trail EXCEPT ![p] = entry]

\* Registration (identity.service.ts register): a new row with a new id, so
\* the audit entries of a former row of the same address are not its own.
RegisterUser(p) ==
  /\ ~Exists(p)
  /\ account' = [account EXCEPT ![p] = NewRow]
  /\ trail' = [trail EXCEPT ![p] = "none"]
  /\ reinstated' = reinstated \ {p}
  /\ UNCHANGED <<desk, demotion, setup>>

-----------------------------------------------------------------------------
(* The role CLI.  Every role change of AdminRoleService holds the advisory  *)
(* lock, so no two of them overlap; the target's row is locked before the   *)
(* actor is read, the actor's row never is.                                 *)

RolesUnlocked == demotion = Idle

RequireActiveActor(a) == a \in ActiveAdmins

RequireActorOrBootstrap(a) ==
  IF a = NoActor THEN ActiveAdmins = {} ELSE RequireActiveActor(a)

Promote(a, p) ==
  /\ RolesUnlocked
  /\ Exists(p)
  /\ RequireActorOrBootstrap(a)
  /\ account[p].role # "SUPERADMIN"
  /\ account' = [account EXCEPT ![p].role = "SUPERADMIN"]
  /\ Recorded(p, "PROMOTE")
  /\ UNCHANGED <<desk, demotion, setup, reinstated>>

\* demote, up to its check of the actor.
DemoteChecksActor(a, p) ==
  /\ RolesUnlocked
  /\ Superadmin(p)
  /\ RequireActiveActor(a)
  /\ demotion' = [target |-> p, by |-> a]
  /\ UNCHANGED <<account, trail, desk, setup, reinstated>>

MayBeLast(p) == TRUE

\* The count of active Superadmins is read with every such row locked.
NotLastSuperadmin(p) == Active(p) => Cardinality(ActiveAdmins) > 1

DemoteCommits ==
  /\ ~RolesUnlocked
  /\ LET p == demotion.target IN
       IF NotLastSuperadmin(p)
       THEN /\ account' = [account EXCEPT ![p].role = "USER"]
            /\ Recorded(p, "DEMOTE")
       ELSE UNCHANGED <<account, trail>>     \* LAST_SUPERADMIN
  /\ demotion' = Idle
  /\ UNCHANGED <<desk, setup, reinstated>>

\* The role CLI: an operator's choice of command, target and --actor-uid.
RoleCli ==
  \/ \E p \in People, a \in People \cup {NoActor} : Promote(a, p)
  \/ \E a, p \in People : DemoteChecksActor(a, p)

-----------------------------------------------------------------------------
(* The setup CLI takes no advisory lock and decides on a read made before   *)
(* its transaction (and before it hashes a password).                       *)

SetupReads ==
  /\ setup = "idle"
  /\ \/ ~Exists(Founder) /\ setup' = "absent"
     \/ /\ Active(Founder) /\ ~account[Founder].leaving
        /\ setup' = account[Founder].role
  /\ UNCHANGED <<account, trail, desk, demotion, reinstated>>

SetupNeverRecords(reset) == FALSE

\* resetPassword adds an entry whatever the role was.
SetupRecords(reset) == setup # "SUPERADMIN" \/ reset

\* The row the demotion holds locked makes the update wait.
SetupPromotes(reset) ==
  /\ setup \in Role
  /\ demotion.target # Founder
  /\ IF Exists(Founder)
     THEN /\ account' = [account EXCEPT ![Founder].role = "SUPERADMIN"]
          /\ IF SetupRecords(reset)
             THEN Recorded(Founder, "PROMOTE")
             ELSE trail' = trail
          /\ reinstated' = IF setup = "SUPERADMIN" /\ ~reset /\ ~Superadmin(Founder)
                           THEN reinstated \cup {Founder} ELSE reinstated
     ELSE UNCHANGED <<account, trail, reinstated>>    \* the update fails
  /\ setup' = "idle"
  /\ UNCHANGED <<desk, demotion>>

\* A taken address makes the insert fail; a taken uid or friend code is
\* retried and does not show here.
SetupCreates ==
  /\ setup = "absent"
  /\ IF Exists(Founder)
     THEN UNCHANGED <<account, trail, reinstated>>
     ELSE /\ account' = [account EXCEPT ![Founder] = [NewRow EXCEPT !.role = "SUPERADMIN"]]
          /\ Recorded(Founder, "PROMOTE")
          /\ reinstated' = reinstated \ {Founder}
  /\ setup' = "idle"
  /\ UNCHANGED <<desk, demotion>>

-----------------------------------------------------------------------------
(* Requests of the desk and the portal.                                     *)

\* The JWT guard saw an active account.
Authenticate(op, p, q) ==
  /\ Cardinality(desk) < MaxDesk
  /\ Active(p) /\ Exists(q)
  /\ op = "delete" => p = q
  /\ desk' = desk \cup {[op |-> op, by |-> p, of |-> q, guard |-> "jwt"]}
  /\ UNCHANGED <<account, trail, demotion, setup, reinstated>>

\* SuperadminGuard reads the role again for every request, not the status.
SuperadminGuard(r) ==
  /\ r.guard = "jwt" /\ r.op # "delete"
  /\ desk' = (desk \ {r}) \cup
             (IF Superadmin(r.by) THEN {[r EXCEPT !.guard = "admin"]} ELSE {})
  /\ UNCHANGED <<account, trail, demotion, setup, reinstated>>

NotSelf(r) == r.by # r.of

NotLeaving(p) == ~account[p].leaving

SuspendAccount(r) ==
  /\ r.op = "suspend" /\ r.guard = "admin"
  /\ demotion.target # r.of
  /\ account' = IF NotSelf(r) /\ Exists(r.of)
                THEN [account EXCEPT ![r.of].status = "SUSPENDED"] ELSE account
  /\ desk' = desk \ {r}
  /\ UNCHANGED <<trail, demotion, setup, reinstated>>

RestoreAccount(r) ==
  /\ r.op = "restore" /\ r.guard = "admin"
  /\ demotion.target # r.of
  /\ account' = IF Exists(r.of) /\ NotLeaving(r.of)
                THEN [account EXCEPT ![r.of].status = "ACTIVE"] ELSE account
  /\ desk' = desk \ {r}
  /\ UNCHANGED <<trail, demotion, setup, reinstated>>

\* deleteAccount refuses a Superadmin under the row lock.
DeleteAccount(r) ==
  /\ r.op = "delete"
  /\ demotion.target # r.of
  /\ account' = IF Exists(r.of) /\ ~Superadmin(r.of)
                THEN [account EXCEPT ![r.of].status = "SUSPENDED",
                                     ![r.of].leaving = TRUE]
                ELSE account
  /\ desk' = desk \ {r}
  /\ UNCHANGED <<trail, demotion, setup, reinstated>>

\* The final deletion reads deletionRequestedAt only, whatever the role.
FinalizeDeletion(p) ==
  /\ Exists(p) /\ account[p].leaving
  /\ demotion.target # p
  /\ account' = [account EXCEPT ![p] = NoRow]
  /\ UNCHANGED <<trail, desk, demotion, setup, reinstated>>

RolesNext ==
  \/ \E p \in People : RegisterUser(p) \/ FinalizeDeletion(p)
  \/ RoleCli
  \/ DemoteCommits
  \/ SetupReads
  \/ \E reset \in BOOLEAN : SetupPromotes(reset)
  \/ SetupCreates
  \/ \E op \in {"suspend", "restore", "delete"}, p, q \in People : Authenticate(op, p, q)
  \/ \E r \in desk : \/ SuperadminGuard(r) \/ SuspendAccount(r)
                     \/ RestoreAccount(r) \/ DeleteAccount(r)

RolesSpec == RolesInit /\ [][RolesNext]_rolesVars

-----------------------------------------------------------------------------

\* A suspension ordered by somebody who was let in as a Superadmin and is
\* not an active one any more.
OrderedByFormerAdmin ==
  \E r \in desk : /\ r.op = "suspend" /\ r.guard = "admin"
                  /\ r.by \notin ActiveAdmins
                  /\ r \notin desk'

\* The network loses its last active Superadmin in one way only: two of them
\* suspend each other (or one is demoted) while both requests are already past
\* the guards.  Neither a demotion, whose count and update are separated from
\* its reading of the actor, nor a self-deletion, nor a finished deletion ever
\* takes the last one away, whatever runs in between (admin-role.service.ts
\* demote, admin-api.service.ts setAccountStatus, portal deleteAccount).
LastAdminFallsOnlyToStale ==
  [][ (ActiveAdmins # {} /\ ActiveAdmins' = {}) => OrderedByFormerAdmin ]_rolesVars

\* The audit trail tells who is a Superadmin: the last role entry of every
\* Superadmin is a promotion and no one else's is, except an account that the
\* setup CLI read as a Superadmin and promoted after a demotion in between,
\* which it does without an entry.
TrailTellsRole ==
  \A p \in People : Exists(p) /\ p \notin reinstated =>
    (Superadmin(p) <=> trail[p] = "PROMOTE")
=============================================================================
