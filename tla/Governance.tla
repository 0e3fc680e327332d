------------------------------ MODULE Governance ------------------------------
(***************************************************************************)
(* Who holds which role and whose account is active: promotion, demotion,  *)
(* deletion, reactivation and hard deletion of users, self-deactivation,   *)
(* and applications for a role.  Every call reads and checks first and     *)
(* writes in a later await, so calls that overlap act on stale checks.     *)
(***************************************************************************)
EXTENDS Integers, Sequences, FiniteSetsExt

CONSTANTS
  Users, NoUser, Governors, FirstRoles, MaxApplications,
  RoleMoves,  \* bound: the roles given and taken without an application
  Newcomers  \* the users without a profile at first, where sign-ups are looked at

VARIABLES
  scene,
  roles,         \* UserRole rows of a user
  account,       \* "active", "deactivated", or "gone" where there is no profile row
  applications,  \* AdminApplication rows: the role asked for and the status
  governing,     \* calls between their checks and their write
  projects       \* the owner of each project, NoUser if there is none of that name

Management == {"owner", "dev", "admin"}
RoleNames == Management \cup {"hunter", "user"}

\* RolesGuard: an owner may do what a dev may, and a dev what an admin may.
Implied(rs) == rs \cup (IF "owner" \in rs THEN {"dev", "admin"}
                        ELSE IF "dev" \in rs THEN {"admin"} ELSE {})
Permitted(a, needed) == account[a] = "active" /\ Implied(roles[a]) \cap needed # {}
NeededFor(role) == CASE role = "admin" -> {"owner", "dev"}
                     [] role = "hunter" -> {"owner", "admin"}
                     [] OTHER -> {"owner"}

Owners == {u \in Users : "owner" \in roles[u]}
ActiveOwners == {u \in Owners : account[u] = "active"}
OwnsProject(u) == \E n \in DOMAIN projects : projects[n] = u

NoRequest == [pc |-> "idle", user |-> NoUser, role |-> "user"]
MayBegin(c, part) ==
  /\ part \in scene /\ governing[c] = NoRequest
  /\ "overlap_roles" \in scene \/ \A o \in Governors : governing[o] = NoRequest
Begin(c, pc, u, role) ==
  /\ governing' = [governing EXCEPT ![c] = [pc |-> pc, user |-> u, role |-> role]]
  /\ UNCHANGED <<roles, account, applications>>
At(c, pc) == governing[c].pc = pc
End(c) == governing' = [governing EXCEPT ![c] = NoRequest]

\* promoteRole: nobody gives himself a management role.  That the account is
\* active is not checked.
BeginPromote(c, a, u, role) ==
  /\ MayBegin(c, "roles") /\ Permitted(a, NeededFor(role)) /\ account[u] # "gone"
  /\ ~(a = u /\ role \in Management)
  /\ account[u] = "active" \/ "promote_inactive" \in scene
  /\ Begin(c, "promote", u, role)

FinishPromote(c) ==
  LET u == governing[c].user IN
  /\ At(c, "promote")
  /\ roles' = IF account[u] = "gone" THEN roles
              ELSE [roles EXCEPT ![u] = @ \cup {governing[c].role}]
  /\ End(c) /\ UNCHANGED <<account, applications>>

\* demoteRole: who demotes himself keeps a management role, and the last owner
\* is not demoted; every owner counts, also a deactivated one.
KeepsManaging(a, u, role) == a = u => (roles[u] \ {role}) \cap Management # {}
NotLastOwner_Any(role) == TRUE
NotLastOwner(role) == role = "owner" => Cardinality(Owners) > 1

BeginDemote(c, a, u, role) ==
  /\ MayBegin(c, "roles") /\ Permitted(a, NeededFor(role))
  /\ role \in roles[u] /\ KeepsManaging(a, u, role) /\ NotLastOwner(role)
  /\ Begin(c, "demote", u, role)

FinishDemote(c) ==
  /\ At(c, "demote")
  /\ roles' = [roles EXCEPT ![governing[c].user] = @ \ {governing[c].role}]
  /\ End(c) /\ UNCHANGED <<account, applications>>

\* assertAdminCanManageTarget.
CanManage(a, u) ==
  /\ Permitted(a, {"owner", "admin"})
  /\ \/ "owner" \in roles[a]
     \/ /\ "dev" \in roles[a] => roles[u] \cap {"owner", "dev"} = {}
        /\ "admin" \in roles[a] => roles[u] \cap Management = {}
\* assertNotDeletingLastActiveOwner: only active owners count.
NotLastActiveOwner(u) ==
  u \in Owners => Cardinality(ActiveOwners) > 1 /\ u \in ActiveOwners

\* deleteUserByAdmin keeps the profile, deactivated and without any role.
BeginDelete(c, a, u) ==
  /\ MayBegin(c, "removal") /\ a # u /\ account[u] = "active"
  /\ CanManage(a, u) /\ NotLastActiveOwner(u) /\ ~OwnsProject(u)
  /\ Begin(c, "delete", u, "user")

FinishDelete(c) ==
  LET u == governing[c].user IN
  /\ At(c, "delete")
  /\ IF account[u] = "gone" THEN UNCHANGED <<roles, account>>
     ELSE /\ account' = [account EXCEPT ![u] = "deactivated"]
          /\ roles' = [roles EXCEPT ![u] = {}]
  /\ End(c) /\ UNCHANGED applications

BeginReactivate(c, a, u) ==
  /\ MayBegin(c, "removal") /\ Permitted(a, {"owner"}) /\ account[u] = "deactivated"
  /\ Begin(c, "reactivate", u, "user")

FinishReactivate(c) ==
  LET u == governing[c].user IN
  /\ At(c, "reactivate")
  /\ IF account[u] = "gone" THEN UNCHANGED <<roles, account>>
     ELSE /\ account' = [account EXCEPT ![u] = "active"]
          /\ roles' = [roles EXCEPT ![u] = @ \cup {"user"}]
  /\ End(c) /\ UNCHANGED applications

BeginHardDelete(c, a, u) ==
  /\ MayBegin(c, "removal") /\ Permitted(a, {"owner"}) /\ a # u /\ account[u] = "deactivated"
  /\ NotLastActiveOwner(u) /\ ~OwnsProject(u)
  /\ Begin(c, "hardDelete", u, "user")

\* The rows of a deleted profile go with it, except that the database refuses
\* to delete the owner of a project.
FinishHardDelete(c) ==
  LET u == governing[c].user IN
  /\ At(c, "hardDelete")
  /\ IF OwnsProject(u) THEN UNCHANGED <<roles, account, applications>>
     ELSE /\ account' = [account EXCEPT ![u] = "gone"]
          /\ roles' = [roles EXCEPT ![u] = {}]
          /\ applications' = [applications EXCEPT ![u] = <<>>]
  /\ End(c)

\* deactivateAccount keeps the roles, and does not look at who else is left.
SelfDeactivate(u) ==
  /\ "self_deactivate" \in scene
  /\ Permitted(u, {"owner", "admin"})
  /\ account' = [account EXCEPT ![u] = "deactivated"]
  /\ UNCHANGED <<roles, applications, governing>>

\* authenticateRequest makes a profile where there is none, and gives a user
\* without roles the plain one; it refuses a deactivated account.
SignIn(u) ==
  /\ "removal" \in scene /\ account[u] # "deactivated" /\ roles[u] = {}
  /\ account' = [account EXCEPT ![u] = "active"]
  /\ roles' = [roles EXCEPT ![u] = {"user"}]
  /\ UNCHANGED <<applications, governing>>

Pending(u) == {i \in 1..Len(applications[u]) : applications[u][i].status = "pending"}
NonePending(u) == Pending(u) = {}

BeginApply(c, u, role) ==
  /\ MayBegin(c, "applications") /\ account[u] = "active" /\ NonePending(u)
  /\ Begin(c, "apply", u, role)

FinishApply(c) ==
  LET u == governing[c].user IN
  /\ At(c, "apply")
  /\ applications' = IF account[u] = "gone" \/ Len(applications[u]) = MaxApplications
                     THEN applications
                     ELSE [applications EXCEPT ![u] =
                       Append(@, [role |-> governing[c].role, status |-> "pending"])]
  /\ End(c) /\ UNCHANGED <<roles, account>>

\* The review of an application, whatever its status, writes the verdict and
\* then promotes; an administrator who approves his own is refused only then.
ReviewApplication(c, a, u, i, verdict) ==
  LET role == applications[u][i].role IN
  /\ MayBegin(c, "applications") /\ Permitted(a, {"owner"})
  /\ applications' = [applications EXCEPT ![u][i].status = verdict]
  /\ governing' = IF verdict = "approved" /\ ~(a = u /\ role \in Management)
                  THEN [governing EXCEPT ![c] = [pc |-> "promote", user |-> u, role |-> role]]
                  ELSE governing
  /\ UNCHANGED <<roles, account>>

GovernanceError(c) ==
  /\ "role_error" \in scene /\ governing[c] # NoRequest
  /\ End(c) /\ UNCHANGED <<roles, account, applications>>

-------------------------------------------------------------------------------
GovernanceInit ==
  /\ account = [u \in Users |->
       IF "referrals" \in scene /\ u \in Newcomers THEN "gone" ELSE "active"]
  /\ roles = [u \in Users |-> IF account[u] = "gone" THEN {} ELSE FirstRoles[u]]
  /\ applications = [u \in Users |-> <<>>]
  /\ governing = [c \in Governors |-> NoRequest]

GovernanceStep ==
  \/ \E c \in Governors :
       \/ FinishPromote(c) \/ FinishDemote(c) \/ FinishDelete(c) \/ FinishReactivate(c)
       \/ FinishHardDelete(c) \/ FinishApply(c) \/ GovernanceError(c)
       \/ \E a, u \in Users :
            \/ \E role \in RoleMoves :
                 BeginPromote(c, a, u, role) \/ BeginDemote(c, a, u, role)
            \/ BeginDelete(c, a, u) \/ BeginReactivate(c, a, u) \/ BeginHardDelete(c, a, u)
            \/ \E i \in 1..Len(applications[u]), verdict \in {"approved", "rejected"} :
                 ReviewApplication(c, a, u, i, verdict)
       \/ \E u \in Users, role \in {"admin", "hunter"} : BeginApply(c, u, role)
  \/ \E u \in Users : SelfDeactivate(u) \/ SignIn(u)

GovernanceTypeOK ==
  /\ roles \in [Users -> SUBSET RoleNames]
  /\ account \in [Users -> {"active", "deactivated", "gone"}]
  /\ \A u \in Users : \A i \in 1..Len(applications[u]) :
       applications[u][i] \in [role : {"admin", "hunter"},
                               status : {"pending", "approved", "rejected"}]
  /\ governing \in [Governors -> [pc : {"idle", "promote", "demote", "delete", "reactivate",
                                       "hardDelete", "apply"},
                                  user : Users \cup {NoUser}, role : RoleNames]]
===============================================================================
