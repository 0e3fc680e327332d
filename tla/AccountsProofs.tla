---------------------------- MODULE AccountsProofs ----------------------------
(***************************************************************************)
(* Proofs about Accounts for every set of users and calls, every scene and *)
(* every length of a run: owners, second factors, projects, referrers,     *)
(* wallets, the books and limits of transfers, digests, and the sessions   *)
(* of the console.                                                         *)
(***************************************************************************)
EXTENDS Accounts, TotalsProofs

-------------------------------------------------------------------------------
(* Users.                                                                  *)

\* A user without a profile has no role, and without role changes no call is
\* about to give one.
PeopleInv ==
  /\ DOMAIN roles = Users /\ DOMAIN account = Users
  /\ DOMAIN governing = Governors
  /\ \A u \in Users : account[u] = "gone" => roles[u] = {}
  /\ \A c \in Governors :
       /\ governing[c] = [pc |-> governing[c].pc, user |-> governing[c].user,
                          role |-> governing[c].role]
       /\ governing[c].pc # "idle" => governing[c].user \in Users
       /\ Without({"roles", "applications"}) => governing[c].pc # "promote"

\* The steps of governance: who gains a management role gains it by a promotion.
LEMMA GovernanceSteps ==
  ASSUME PeopleInv, G!GovernanceStep, UNCHANGED scene
  PROVE  /\ PeopleInv'
         /\ Without({"roles", "applications"}) =>
              \A u \in Users : F!Eligible(u)' => F!Eligible(u)
<1> DEFINE NoGain == Without({"roles", "applications"}) =>
                       \A u \in Users : F!Eligible(u)' => F!Eligible(u)
<1> USE DEF G!NoRequest, G!End, G!At, F!GovernanceRoles
<1>1. ASSUME NEW c \in Governors, UNCHANGED <<roles, account>>,
             \/ G!End(c) \/ UNCHANGED governing
             \/ \E pc, role : \E u \in Users :
                  /\ governing' = [governing EXCEPT ![c] = [pc |-> pc, user |-> u, role |-> role]]
                  /\ pc = "promote" => ~Without({"roles", "applications"})
      PROVE  PeopleInv' /\ NoGain
  BY <1>1 DEF PeopleInv, Without, F!Eligible
<1>2. ASSUME NEW c \in Governors, G!FinishPromote(c)
      PROVE  PeopleInv' /\ NoGain
  <2>1. ~Without({"roles", "applications"})
    BY <1>2 DEF G!FinishPromote, PeopleInv
  <2>2. ~Without({"roles", "applications"})'
    BY <2>1 DEF Without
  <2> QED BY <1>2, <2>1, <2>2 DEF G!FinishPromote, PeopleInv
<1>3. ASSUME NEW c \in Governors,
             G!FinishDemote(c) \/ G!FinishDelete(c) \/ G!FinishReactivate(c) \/ G!FinishHardDelete(c)
      PROVE  PeopleInv' /\ NoGain
  <2>1. G!End(c)
    BY <1>3 DEF G!FinishDemote, G!FinishDelete, G!FinishReactivate, G!FinishHardDelete
  <2>2. governing[c].user \in Users
    BY <1>3 DEF G!FinishDemote, G!FinishDelete, G!FinishReactivate, G!FinishHardDelete, PeopleInv
  <2>3. /\ DOMAIN roles' = Users /\ DOMAIN account' = Users
        /\ \A u \in Users : account'[u] = "gone" => roles'[u] = {}
        /\ \A u \in Users : roles'[u] \subseteq roles[u] \cup {"user"}
    BY <1>3, <2>2 DEF G!FinishDemote, G!FinishDelete, G!FinishReactivate, G!FinishHardDelete, PeopleInv
  <2> QED BY <2>1, <2>3 DEF PeopleInv, Without, F!Eligible
<1>4. ASSUME NEW c \in Governors, G!FinishApply(c) \/ G!GovernanceError(c)
      PROVE  PeopleInv' /\ NoGain
  BY <1>1, <1>4 DEF G!FinishApply, G!GovernanceError
<1>5. ASSUME NEW c \in Governors, NEW a \in Users, NEW u \in Users, NEW role,
             \/ G!BeginPromote(c, a, u, role) \/ G!BeginDemote(c, a, u, role)
             \/ G!BeginDelete(c, a, u) \/ G!BeginReactivate(c, a, u)
             \/ G!BeginHardDelete(c, a, u) \/ G!BeginApply(c, u, role)
      PROVE  PeopleInv' /\ NoGain
  <2>1. PICK pc, r : G!Begin(c, pc, u, r) /\ (pc = "promote" => "roles" \in scene)
    BY <1>5 DEF G!BeginPromote, G!BeginDemote, G!BeginDelete, G!BeginReactivate,
                G!BeginHardDelete, G!BeginApply, G!MayBegin
  <2> QED BY <1>1, <2>1 DEF G!Begin, Without
<1>6. ASSUME NEW c \in Governors, NEW a \in Users, NEW u \in Users, NEW i, NEW verdict,
             G!ReviewApplication(c, a, u, i, verdict)
      PROVE  PeopleInv' /\ NoGain
  <2>1. "applications" \in scene /\ UNCHANGED <<roles, account>>
    BY <1>6 DEF G!ReviewApplication, G!MayBegin
  <2> QED BY <1>1, <1>6, <2>1 DEF G!ReviewApplication, Without
<1>7. ASSUME NEW u \in Users, G!SelfDeactivate(u) \/ G!SignIn(u)
      PROVE  PeopleInv' /\ NoGain
  <2>1. UNCHANGED governing
    BY <1>7 DEF G!SelfDeactivate, G!SignIn
  <2>2. /\ DOMAIN roles' = Users /\ DOMAIN account' = Users
        /\ \A v \in Users : account'[v] = "gone" => roles'[v] = {}
        /\ \A v \in Users : roles'[v] \subseteq roles[v] \cup {"user"}
    BY <1>7 DEF G!SelfDeactivate, G!SignIn, PeopleInv
  <2> QED BY <2>1, <2>2 DEF PeopleInv, Without, F!Eligible
<1> QED BY <1>2, <1>3, <1>4, <1>5, <1>6, <1>7 DEF G!GovernanceStep

\* A sign-up gives the plain role only.
LEMMA ReferralPeople ==
  ASSUME PeopleInv, R!ReferralStep, UNCHANGED <<scene, governing>>
  PROVE  /\ PeopleInv'
         /\ \A u \in Users : F!Eligible(u)' => F!Eligible(u)
         /\ \A u \in Users : account'[u] = "gone" => account[u] = "gone"
<1>1. CASE UNCHANGED <<roles, account>>
  BY <1>1 DEF PeopleInv, Without, F!Eligible
<1>2. ASSUME NEW u \in Users, NEW r, R!SignUp(u, r)
      PROVE  /\ PeopleInv'
             /\ \A v \in Users : F!Eligible(v)' => F!Eligible(v)
             /\ \A v \in Users : account'[v] = "gone" => account[v] = "gone"
  BY <1>2 DEF R!SignUp, PeopleInv, Without, F!Eligible, F!GovernanceRoles
<1> QED BY <1>1, <1>2
    DEF R!ReferralStep, R!FinishBind, R!BeginBind, R!WindowCloses

-------------------------------------------------------------------------------
(* Owners and applications.                                                *)

Applied == [role : {"admin", "hunter"}, status : {"pending", "approved", "rejected"}]
OnePending(u) == \A i, j \in G!Pending(u) : i = j
OwnersOnlyActive == Without({"self_deactivate", "promote_inactive"})

\* What a call has checked and still relies on, if calls do not overlap.
RequestHolds(c) ==
  LET g == governing[c] IN
  /\ g.pc \in {"delete", "hardDelete"} \/ (g.pc = "demote" /\ g.role = "owner") =>
       \E o \in G!Owners : o # g.user
  /\ g.pc = "promote" /\ g.role = "owner" /\ OwnersOnlyActive => account[g.user] = "active"
  /\ g.pc = "apply" => G!Pending(g.user) = {}

OwnersKept ==
  /\ \A c, o \in Governors : c = o \/ governing[c].pc = "idle" \/ governing[o].pc = "idle"
  /\ G!Owners # {}
  /\ OwnersOnlyActive => \A u \in G!Owners : account[u] = "active"
  /\ \A u \in Users : OnePending(u)
  /\ \A c \in Governors : RequestHolds(c)

OwnersInv ==
  /\ applications \in [Users -> Seq(Applied)]
  /\ \A c \in Governors : governing[c].pc = "apply" => governing[c].role \in {"admin", "hunter"}
  /\ Without({"overlap_roles"}) => OwnersKept

\* A set of more than one has somebody else.
LEMMA Another ==
  ASSUME NEW S \in SUBSET Users, NEW u, G!Cardinality(S) > 1
  PROVE  \E o \in S : o # u
<1>1. G!Cardinality(S) = Cardinality(S)
  BY Zenon DEF G!Cardinality, Cardinality
<1>2. IsFiniteSet({u}) /\ Cardinality({u}) = 1
  BY FS_Singleton
<1>3. IsFiniteSet(S)
  BY AccountsAssumption, FS_Subset
<1>4. Cardinality(S) \in Nat
  BY <1>3, FS_CardinalityType
<1>5. S \subseteq {u} => Cardinality(S) <= 1
  BY <1>2, FS_Subset
<1> QED BY <1>1, <1>4, <1>5

\* A call that begins, when no other is under way.
LEMMA OwnersBegin ==
  ASSUME PeopleInv, OwnersInv, UNCHANGED <<scene, roles, account, applications>>,
         NEW c \in Governors, NEW pc, NEW u, NEW role,
         governing' = [governing EXCEPT ![c] = [pc |-> pc, user |-> u, role |-> role]],
         Without({"overlap_roles"}) => \A o \in Governors : governing[o] = G!NoRequest,
         OwnersKept /\ (pc \in {"delete", "hardDelete"} \/ (pc = "demote" /\ role = "owner")) =>
           \E o \in G!Owners : o # u,
         pc = "promote" /\ role = "owner" /\ OwnersOnlyActive => account[u] = "active",
         pc = "apply" => G!Pending(u) = {} /\ role \in {"admin", "hunter"}
  PROVE  OwnersInv'
<1>1. /\ G!Owners' = G!Owners /\ OwnersOnlyActive' = OwnersOnlyActive
      /\ \A v : G!Pending(v)' = G!Pending(v)
  BY DEF G!Owners, G!Pending, OwnersOnlyActive, Without
<1>2. ASSUME Without({"overlap_roles"}) PROVE OwnersKept'
  <2>1. OwnersKept
    BY <1>2 DEF OwnersInv
  <2>2. governing'[c] = [pc |-> pc, user |-> u, role |-> role]
    BY DEF PeopleInv
  <2>3. \A o \in Governors : o # c => governing'[o].pc = "idle"
    BY <1>2 DEF PeopleInv, G!NoRequest
  <2>4. RequestHolds(c)'
    BY <1>1, <2>1, <2>2 DEF RequestHolds
  <2>5. \A o \in Governors : RequestHolds(o)'
    BY <2>3, <2>4 DEF RequestHolds
  <2>6. \A v \in Users : OnePending(v)'
    BY <1>1, <2>1 DEF OwnersKept, OnePending
  <2> QED BY <1>1, <2>1, <2>3, <2>5, <2>6 DEF OwnersKept
<1> QED BY <1>2 DEF OwnersInv, PeopleInv, Without

\* A call that ends, and what it has to have left behind.
LEMMA OwnersEnd ==
  ASSUME PeopleInv, OwnersInv, UNCHANGED scene, NEW c \in Governors, G!End(c),
         governing[c].pc # "idle",
         applications' \in [Users -> Seq(Applied)],
         OwnersKept => G!Owners' # {},
         OwnersKept /\ OwnersOnlyActive => \A u \in G!Owners' : account'[u] = "active",
         OwnersKept => \A u \in Users : OnePending(u)'
  PROVE  OwnersInv'
<1>1. ASSUME Without({"overlap_roles"}) PROVE OwnersKept'
  <2>1. OwnersKept
    BY <1>1 DEF OwnersInv
  <2>2. \A o \in Governors : governing'[o].pc = "idle"
    BY <2>1 DEF PeopleInv, OwnersKept, G!End, G!NoRequest
  <2>3. \A o \in Governors : RequestHolds(o)'
    BY <2>2 DEF RequestHolds
  <2>4. OwnersOnlyActive' = OwnersOnlyActive
    BY DEF OwnersOnlyActive, Without
  <2> QED BY <2>1, <2>2, <2>3, <2>4 DEF OwnersKept
<1> QED BY <1>1 DEF OwnersInv, PeopleInv, G!End, G!NoRequest, Without

\* Users who gain an active account, or lose one although nobody counts it.
LEMMA OwnersTurn ==
  ASSUME PeopleInv, OwnersInv, UNCHANGED <<scene, applications, governing>>,
         DOMAIN roles' = Users, DOMAIN account' = Users,
         \A u \in Users : ("owner" \in roles'[u]) = ("owner" \in roles[u]),
         OwnersOnlyActive => \A u \in Users : account[u] = "active" => account'[u] = "active"
  PROVE  OwnersInv'
<1>1. /\ G!Owners' = G!Owners /\ OwnersOnlyActive' = OwnersOnlyActive
      /\ \A v : G!Pending(v)' = G!Pending(v)
  BY DEF G!Owners, G!Pending, OwnersOnlyActive, Without
<1>2. ASSUME OwnersKept PROVE OwnersKept'
  <2>1. \A c \in Governors : governing[c].pc = "promote" => governing[c].user \in Users
    BY DEF PeopleInv
  <2>2. \A c \in Governors : RequestHolds(c)'
    BY <1>1, <1>2, <2>1 DEF OwnersKept, RequestHolds
  <2>3. \A v \in Users : OnePending(v)'
    BY <1>1, <1>2 DEF OwnersKept, OnePending
  <2>4. \A u \in G!Owners : u \in Users
    BY DEF G!Owners
  <2> QED BY <1>1, <1>2, <2>2, <2>3, <2>4 DEF OwnersKept
<1> QED BY <1>2 DEF OwnersInv, Without

\* Role changes and removals that begin or end, without overlaps: owners remain.
LEMMA OwnersRequests ==
  ASSUME PeopleInv, OwnersInv, UNCHANGED scene, NEW c \in Governors, NEW a \in Users, NEW u \in Users,
         NEW role,
         \/ G!BeginPromote(c, a, u, role) \/ G!BeginDemote(c, a, u, role)
         \/ G!BeginDelete(c, a, u) \/ G!BeginReactivate(c, a, u)
         \/ G!BeginHardDelete(c, a, u)
         \/ role \in {"admin", "hunter"} /\ G!BeginApply(c, u, role)
  PROVE  OwnersInv'
<1>1. \E part : G!MayBegin(c, part)
  BY DEF G!BeginPromote, G!BeginDemote, G!BeginDelete, G!BeginReactivate, G!BeginHardDelete,
         G!BeginApply
<1>2. Without({"overlap_roles"}) => \A o \in Governors : governing[o] = G!NoRequest
  BY <1>1 DEF G!MayBegin, Without
<1>3. \E pc \in {"promote", "demote", "delete", "reactivate", "hardDelete", "apply"} : \E r :
        /\ G!Begin(c, pc, u, r)
        /\ pc = "demote" => G!NotLastOwner(r)
        /\ pc \in {"delete", "hardDelete"} => G!NotLastActiveOwner(u)
        /\ pc = "promote" => account[u] = "active" \/ "promote_inactive" \in scene
        /\ pc = "apply" => G!NonePending(u) /\ r \in {"admin", "hunter"}
  BY DEF G!BeginPromote, G!BeginDemote, G!BeginDelete, G!BeginReactivate, G!BeginHardDelete,
         G!BeginApply
<1>4. PICK pc, r :
        /\ pc \in {"promote", "demote", "delete", "reactivate", "hardDelete", "apply"}
        /\ G!Begin(c, pc, u, r)
        /\ pc = "demote" => G!NotLastOwner(r)
        /\ pc \in {"delete", "hardDelete"} => G!NotLastActiveOwner(u)
        /\ pc = "promote" => account[u] = "active" \/ "promote_inactive" \in scene
        /\ pc = "apply" => G!NonePending(u) /\ r \in {"admin", "hunter"}
  BY <1>3
<1>5. pc = "demote" /\ r = "owner" => \E o \in G!Owners : o # u
  BY <1>4, Another DEF G!NotLastOwner, G!Owners
<1>6. ASSUME OwnersKept, pc \in {"delete", "hardDelete"} PROVE \E o \in G!Owners : o # u
  <2>1. CASE u \notin G!Owners
    BY <1>6, <2>1 DEF OwnersKept
  <2>2. CASE u \in G!Owners
    <3>1. G!Cardinality(G!ActiveOwners) > 1 /\ G!ActiveOwners \in SUBSET Users
      BY <1>4, <1>6, <2>2 DEF G!NotLastActiveOwner, G!ActiveOwners, G!Owners
    <3>2. \E o \in G!ActiveOwners : o # u
      BY <3>1, Another
    <3> QED BY <3>2 DEF G!ActiveOwners
  <2> QED BY <2>1, <2>2
<1>7. pc = "promote" /\ OwnersOnlyActive => account[u] = "active"
  BY <1>4 DEF OwnersOnlyActive, Without
<1>8. pc = "apply" => G!Pending(u) = {} /\ r \in {"admin", "hunter"}
  BY <1>4 DEF G!NonePending
<1>9. /\ governing' = [governing EXCEPT ![c] = [pc |-> pc, user |-> u, role |-> r]]
      /\ UNCHANGED <<roles, account, applications>>
  BY <1>4 DEF G!Begin
<1> QED BY <1>2, <1>5, <1>6, <1>7, <1>8, <1>9, OwnersBegin

\* Writes of promotions, demotions, deletions and reactivations: owners remain.
LEMMA OwnersFinish ==
  ASSUME PeopleInv, OwnersInv, UNCHANGED scene, NEW c \in Governors,
         \/ G!FinishPromote(c) \/ G!FinishDemote(c) \/ G!FinishDelete(c)
         \/ G!FinishReactivate(c) \/ G!FinishHardDelete(c)
  PROVE  OwnersInv'
<1> DEFINE u == governing[c].user
           g == governing[c]
<1>1. G!End(c) /\ g.pc \in {"promote", "demote", "delete", "reactivate", "hardDelete"}
  BY DEF G!FinishPromote, G!FinishDemote, G!FinishDelete, G!FinishReactivate,
         G!FinishHardDelete, G!At
<1>2. u \in Users
  BY <1>1 DEF PeopleInv
<1>3. applications' \in [Users -> Seq(Applied)] /\ \A v \in Users :
        applications'[v] = applications[v] \/ applications'[v] = <<>>
  <2>1. UNCHANGED applications \/ applications' = [applications EXCEPT ![u] = <<>>]
    BY DEF G!FinishPromote, G!FinishDemote, G!FinishDelete, G!FinishReactivate, G!FinishHardDelete
  <2>2. applications \in [Users -> Seq(Applied)] /\ <<>> \in Seq(Applied)
    BY DEF OwnersInv
  <2> HIDE DEF Applied
  <2> QED BY <1>2, <2>1, <2>2
<1>4. OwnersKept => \A v \in Users : OnePending(v)'
  BY <1>3 DEF OwnersKept, OnePending, G!Pending
<1>5. OwnersKept => RequestHolds(c)
  BY DEF OwnersKept
<1>6. ASSUME OwnersKept
      PROVE  /\ G!Owners' # {}
             /\ OwnersOnlyActive => \A v \in G!Owners' : account'[v] = "active"
  <2>1. G!Owners # {} /\ (OwnersOnlyActive => \A v \in G!Owners : account[v] = "active")
    BY <1>6 DEF OwnersKept
  <2>2. CASE G!FinishPromote(c)
    <3>1. /\ UNCHANGED account /\ \A v \in Users : v # u => roles'[v] = roles[v]
          /\ roles'[u] \in {roles[u], roles[u] \cup {g.role}}
      BY <1>2, <2>2 DEF G!FinishPromote, PeopleInv
    <3>2. g.role = "owner" /\ OwnersOnlyActive => account[u] = "active"
      BY <1>5, <1>6, <2>2 DEF RequestHolds, G!FinishPromote, G!At
    <3> QED BY <1>2, <2>1, <3>1, <3>2 DEF G!Owners
  <2>3. CASE G!FinishDemote(c)
    <3>1. UNCHANGED account /\ roles' = [roles EXCEPT ![u] = @ \ {g.role}]
      BY <2>3 DEF G!FinishDemote
    <3>2. g.role = "owner" => \E o \in G!Owners : o # u
      BY <1>5, <1>6, <2>3 DEF RequestHolds, G!FinishDemote, G!At
    <3> QED BY <1>2, <2>1, <3>1, <3>2 DEF G!Owners, PeopleInv
  <2>4. CASE G!FinishDelete(c) \/ G!FinishHardDelete(c)
    <3>1. \/ UNCHANGED <<roles, account>>
          \/ /\ roles' = [roles EXCEPT ![u] = {}]
             /\ \E s : account' = [account EXCEPT ![u] = s]
      BY <2>4 DEF G!FinishDelete, G!FinishHardDelete
    <3>2. \E o \in G!Owners : o # u
      BY <1>5, <1>6, <2>4 DEF RequestHolds, G!FinishDelete, G!FinishHardDelete, G!At
    <3> QED BY <1>2, <2>1, <3>1, <3>2 DEF G!Owners, PeopleInv
  <2>5. CASE G!FinishReactivate(c)
    <3>1. \/ UNCHANGED <<roles, account>>
          \/ /\ roles' = [roles EXCEPT ![u] = @ \cup {"user"}]
             /\ account' = [account EXCEPT ![u] = "active"]
      BY <2>5 DEF G!FinishReactivate
    <3> QED BY <1>2, <2>1, <3>1 DEF G!Owners, PeopleInv
  <2> QED BY <2>2, <2>3, <2>4, <2>5
<1> QED BY <1>1, <1>3, <1>4, <1>6, OwnersEnd


\* Applications that are filed: at most one waits.
LEMMA OwnersApply ==
  ASSUME PeopleInv, OwnersInv, UNCHANGED scene, NEW c \in Governors, G!FinishApply(c)
  PROVE  OwnersInv'
<1> DEFINE u == governing[c].user
           a == [role |-> governing[c].role, status |-> "pending"]
<1>1. /\ G!End(c) /\ governing[c].pc = "apply" /\ UNCHANGED <<roles, account>>
      /\ UNCHANGED applications \/ applications' = [applications EXCEPT ![u] = Append(@, a)]
  BY DEF G!FinishApply, G!At
<1>2. /\ u \in Users /\ a \in Applied /\ a.status = "pending"
      /\ applications \in [Users -> Seq(Applied)]
  BY <1>1 DEF PeopleInv, OwnersInv, Applied
<1> HIDE DEF a
<1>3. \/ UNCHANGED applications
      \/ /\ applications' = [applications EXCEPT ![u] = Append(applications[u], a)]
         /\ Len(applications[u]) \in Nat
         /\ Len(applications'[u]) = Len(applications[u]) + 1
         /\ \A i \in 1..Len(applications[u]) : applications'[u][i] = applications[u][i]
  <2> HIDE DEF Applied, u
  <2> QED BY <1>1, <1>2
<1>4. applications' \in [Users -> Seq(Applied)]
  <2> HIDE DEF Applied, u
  <2>1. Append(applications[u], a) \in Seq(Applied)
    BY <1>2
  <2> QED BY <1>2, <1>3, <2>1
<1>5. OwnersKept => \A v \in Users : OnePending(v)'
  <2>1. CASE UNCHANGED applications
    BY <2>1 DEF OwnersKept, OnePending, G!Pending
  <2>2. ASSUME applications' # applications, OwnersKept, NEW v \in Users, v = u
        PROVE  OnePending(v)'
    <3>1. G!Pending(v) = {}
      BY <1>1, <2>2 DEF OwnersKept, RequestHolds
    <3>2. \A i \in 1..Len(applications[v]) : applications[v][i].status # "pending"
      BY <3>1 DEF G!Pending
    <3>3. /\ Len(applications[v]) \in Nat /\ Len(applications'[v]) = Len(applications[v]) + 1
          /\ \A i \in 1..Len(applications[v]) : applications'[v][i] = applications[v][i]
      BY <1>3, <2>2
    <3>4. \A i \in G!Pending(v)' : i = Len(applications[v]) + 1
      BY <3>2, <3>3 DEF G!Pending
    <3> QED BY <3>4 DEF OnePending
  <2>3. ASSUME applications' # applications, OwnersKept, NEW v \in Users, v # u PROVE OnePending(v)'
    <3>1. applications'[v] = applications[v]
      BY <1>2, <1>3, <2>3
    <3> QED BY <3>1, <2>3 DEF OwnersKept, OnePending, G!Pending
  <2> QED BY <2>1, <2>2, <2>3
<1>6. OwnersKept => /\ G!Owners' # {}
                    /\ OwnersOnlyActive => \A v \in G!Owners' : account'[v] = "active"
  BY <1>1 DEF OwnersKept, G!Owners
<1> QED BY <1>1, <1>4, <1>5, <1>6, OwnersEnd

\* Applications that are reviewed: none begins to wait again.
LEMMA OwnersReview ==
  ASSUME PeopleInv, OwnersInv, UNCHANGED scene, NEW c \in Governors, NEW a \in Users, NEW u \in Users,
         NEW i \in 1..Len(applications[u]), NEW verdict \in {"approved", "rejected"},
         G!ReviewApplication(c, a, u, i, verdict)
  PROVE  OwnersInv'
<1> DEFINE row == [applications[u][i] EXCEPT !.status = verdict]
<1>1. /\ UNCHANGED <<roles, account>>
      /\ applications' = [applications EXCEPT ![u] = [applications[u] EXCEPT ![i] = row]]
      /\ Without({"overlap_roles"}) => \A o \in Governors : governing[o] = G!NoRequest
      /\ \/ UNCHANGED governing
         \/ governing' = [governing EXCEPT ![c] =
              [pc |-> "promote", user |-> u, role |-> applications[u][i].role]]
  BY DEF G!ReviewApplication, G!MayBegin, Without
<1>2. applications[u] \in Seq(Applied) /\ applications[u][i] \in Applied
  <2> HIDE DEF Applied
  <2> QED BY DEF OwnersInv
<1>3. row \in Applied /\ row.status = verdict /\ applications[u][i].role # "owner"
  BY <1>2 DEF Applied
<1> HIDE DEF row
<1>4. /\ [applications[u] EXCEPT ![i] = row] \in Seq(Applied)
      /\ Len([applications[u] EXCEPT ![i] = row]) = Len(applications[u])
  <2> HIDE DEF Applied
  <2> QED BY <1>2, <1>3
<1>5. applications' \in [Users -> Seq(Applied)]
  BY <1>1, <1>4 DEF OwnersInv
<1>6. \A v \in Users : G!Pending(v)' \subseteq G!Pending(v)
  <2>1. \A v \in Users : v # u => applications'[v] = applications[v]
    BY <1>1 DEF OwnersInv
  <2>2. /\ Len(applications'[u]) = Len(applications[u])
        /\ \A j \in 1..Len(applications[u]) :
             applications'[u][j] = IF j = i THEN row ELSE applications[u][j]
    BY <1>1, <1>2, <1>4 DEF OwnersInv
  <2> QED BY <1>3, <2>1, <2>2 DEF G!Pending
<1>7. ASSUME Without({"overlap_roles"}) PROVE OwnersKept'
  <2>1. OwnersKept
    BY <1>7 DEF OwnersInv
  <2>2. /\ \A o \in Governors : o # c => governing'[o].pc = "idle"
        /\ governing'[c].pc = "idle" \/ (governing'[c].pc = "promote" /\ governing'[c].role # "owner")
    BY <1>1, <1>3, <1>7 DEF PeopleInv, G!NoRequest
  <2>3. \A o \in Governors : RequestHolds(o)'
    BY <2>2 DEF RequestHolds
  <2>4. G!Owners' = G!Owners /\ OwnersOnlyActive' = OwnersOnlyActive
    BY <1>1 DEF G!Owners, OwnersOnlyActive, Without
  <2>5. \A v \in Users : OnePending(v)'
    BY <1>6, <2>1 DEF OwnersKept, OnePending
  <2> QED BY <1>1, <2>1, <2>2, <2>3, <2>4, <2>5 DEF OwnersKept
<1>8. \A o \in Governors : governing'[o].pc = "apply" => governing'[o].role \in {"admin", "hunter"}
  BY <1>1 DEF OwnersInv, PeopleInv
<1> QED BY <1>5, <1>7, <1>8 DEF OwnersInv, Without

\* Every step of governance keeps the owners.
LEMMA OwnersSteps ==
  ASSUME PeopleInv, OwnersInv, UNCHANGED scene, G!GovernanceStep
  PROVE  OwnersInv'
<1>1. ASSUME NEW c \in Governors, G!GovernanceError(c)
      PROVE  OwnersInv'
  <2>1. G!End(c) /\ governing[c] # G!NoRequest /\ UNCHANGED <<roles, account, applications>>
    BY <1>1 DEF G!GovernanceError
  <2>2. CASE governing[c].pc # "idle"
    BY <2>1, <2>2, OwnersEnd DEF OwnersInv, OwnersKept, OnePending, G!Owners, G!Pending
  <2>3. CASE governing[c].pc = "idle"
    <3>1. \A o \in Governors : governing'[o] = governing[o] \/ governing'[o].pc = "idle"
      BY <2>1 DEF G!End, G!NoRequest, PeopleInv
    <3>2. /\ G!Owners' = G!Owners /\ OwnersOnlyActive' = OwnersOnlyActive
          /\ \A v : G!Pending(v)' = G!Pending(v)
      BY <2>1 DEF G!Owners, G!Pending, OwnersOnlyActive, Without
    <3>3. ASSUME OwnersKept PROVE OwnersKept'
      <4>1. \A o \in Governors : RequestHolds(o)'
        BY <2>1, <3>1, <3>2, <3>3 DEF OwnersKept, RequestHolds
      <4> QED BY <2>1, <3>1, <3>2, <3>3, <4>1 DEF OwnersKept, OnePending
    <3> QED BY <2>1, <3>1, <3>3 DEF OwnersInv, Without
  <2> QED BY <2>2, <2>3
<1>2. ASSUME NEW u \in Users, G!SelfDeactivate(u) \/ G!SignIn(u)
      PROVE  OwnersInv'
  <2>1. CASE G!SelfDeactivate(u)
    BY <2>1, OwnersTurn DEF G!SelfDeactivate, PeopleInv, OwnersOnlyActive, Without
  <2>2. CASE G!SignIn(u)
    BY <2>2, OwnersTurn DEF G!SignIn, PeopleInv
  <2> QED BY <1>2, <2>1, <2>2
<1> QED BY <1>1, <1>2, OwnersFinish, OwnersApply, OwnersRequests, OwnersReview DEF G!GovernanceStep

\* Steps of the other parts leave roles and applications alone.
LEMMA OwnersStutter ==
  ASSUME OwnersInv, UNCHANGED <<scene, people, governanceVars>>
  PROVE  OwnersInv'
<1>1. /\ G!Owners' = G!Owners /\ OwnersOnlyActive' = OwnersOnlyActive
      /\ \A v : G!Pending(v)' = G!Pending(v)
  BY DEF G!Owners, G!Pending, OwnersOnlyActive, Without, people, governanceVars
<1>2. \A c \in Governors : RequestHolds(c)' = RequestHolds(c)
  BY <1>1 DEF RequestHolds, people, governanceVars
<1> QED BY <1>1, <1>2 DEF OwnersInv, OwnersKept, OnePending, Without, people, governanceVars

\* A sign-up makes no owner.
LEMMA OwnersReferral ==
  ASSUME PeopleInv, OwnersInv, R!ReferralStep, UNCHANGED <<scene, governanceVars>>
  PROVE  OwnersInv'
<1>1. /\ DOMAIN roles' = Users /\ DOMAIN account' = Users
      /\ \A u \in Users : ("owner" \in roles'[u]) = ("owner" \in roles[u])
      /\ \A u \in Users : account[u] = "active" => account'[u] = "active"
  <2>1. CASE UNCHANGED <<roles, account>>
    BY <2>1 DEF PeopleInv
  <2>2. ASSUME NEW u \in Users, NEW r, R!SignUp(u, r)
        PROVE  /\ DOMAIN roles' = Users /\ DOMAIN account' = Users
               /\ \A v \in Users : ("owner" \in roles'[v]) = ("owner" \in roles[v])
               /\ \A v \in Users : account[v] = "active" => account'[v] = "active"
    BY <2>2 DEF R!SignUp, PeopleInv
  <2> QED BY <2>1, <2>2 DEF R!ReferralStep, R!FinishBind, R!BeginBind, R!WindowCloses
<1> QED BY <1>1, OwnersTurn DEF governanceVars

-------------------------------------------------------------------------------
(* Referrers.                                                              *)

\* A referrer is another user, with a profile; and if bindings do not overlap,
\* the one call in flight still holds what it has checked.
ReferInv ==
  /\ referrer \in [Users -> Users \cup {NoUser}]
  /\ DOMAIN bindings = Users /\ DOMAIN binding = Binders
  /\ \A v \in Users : referrer[v] # NoUser => account[referrer[v]] # "gone" /\ referrer[v] # v
  /\ \A b \in Binders : binding[b] # R!NoBinding =>
       binding[b].user \in Users /\ binding[b].by \in Users /\ binding[b].by # binding[b].user
  /\ Without({"overlap_binds"}) =>
       /\ \A u \in Users : bindings[u] = IF referrer[u] = NoUser THEN 0 ELSE 1
       /\ \A u \in Users : referrer[u] # NoUser => referrer[referrer[u]] # u
       /\ \A b \in Binders : binding[b] # R!NoBinding =>
            /\ referrer[binding[b].user] = NoUser
            /\ referrer[binding[b].by] # binding[b].user
            /\ \A o \in Binders : o # b => binding[o] = R!NoBinding

\* A deleted profile is nobody's referrer any more, and may sign up again.
LEMMA ReferCascade ==
  ASSUME ReferInv, R!ReferralsCascade, UNCHANGED scene
  PROVE  ReferInv'
<1>1. referrer' \in [Users -> Users \cup {NoUser}]
  BY DEF R!ReferralsCascade, ReferInv
<1>2. \A v \in Users : referrer'[v] = NoUser
                       \/ (referrer'[v] = referrer[v] /\ account'[referrer[v]] # "gone")
  BY DEF R!ReferralsCascade, ReferInv
<1>3. UNCHANGED binding /\ DOMAIN bindings' = Users
  BY DEF R!ReferralsCascade
<1>4. \A v \in Users : bindings'[v] = IF referrer'[v] = NoUser THEN 0 ELSE bindings[v]
  BY DEF R!ReferralsCascade
<1>5. \A v \in Users : referrer'[v] # NoUser => referrer'[v] \in Users
  BY <1>1
<1> QED BY <1>1, <1>2, <1>3, <1>4, <1>5, AccountsAssumption DEF ReferInv, Without, R!NoBinding

\* Sign-ups and bindings: nobody refers himself, and no two each other.
LEMMA ReferSteps ==
  ASSUME ReferInv, R!ReferralStep, UNCHANGED scene, DOMAIN account = Users
  PROVE  ReferInv'
<1> USE AccountsAssumption
<1>1. ASSUME NEW b \in Binders, R!FinishBind(b)
      PROVE  ReferInv'
  <2> DEFINE u == binding[b].user
             r == binding[b].by
  <2>1. binding[b] # R!NoBinding /\ u \in Users /\ r \in Users /\ r # u
    BY <1>1 DEF R!FinishBind, ReferInv
  <2>2. binding' = [binding EXCEPT ![b] = R!NoBinding] /\ UNCHANGED account
    BY <1>1 DEF R!FinishBind
  <2>3. CASE account[u] = "gone" \/ account[r] = "gone"
    <3>1. UNCHANGED <<referrer, bindings>>
      BY <1>1, <2>3 DEF R!FinishBind
    <3> QED BY <2>1, <2>2, <3>1 DEF ReferInv, Without
  <2>4. CASE account[u] # "gone" /\ account[r] # "gone"
    <3>1. /\ referrer' = [referrer EXCEPT ![u] = r]
          /\ bindings' = [bindings EXCEPT ![u] = @ + 1]
      BY <1>1, <2>4 DEF R!FinishBind
    <3> QED BY <2>1, <2>2, <2>4, <3>1 DEF ReferInv, Without
  <2> QED BY <2>3, <2>4
<1>2. ASSUME NEW b \in Binders, NEW u \in Users, NEW r \in Users, NEW byAdmin \in BOOLEAN,
             R!BeginBind(b, u, r, byAdmin)
      PROVE  ReferInv'
  <2>1. /\ binding' = [binding EXCEPT ![b] = [user |-> u, by |-> r]]
        /\ UNCHANGED <<account, referrer, bindings>>
        /\ referrer[u] = NoUser /\ r # u /\ referrer[r] # u
    BY <1>2 DEF R!BeginBind, R!Bindable, R!NoLoop
  <2>2. Without({"overlap_binds"}) => \A o \in Binders : binding[o] = R!NoBinding
    BY <1>2 DEF R!BeginBind, R!Unhurried, Without
  <2> QED BY <2>1, <2>2 DEF ReferInv, Without
<1>3. ASSUME NEW u \in Users, NEW r \in Users \cup {NoUser}, R!SignUp(u, r)
      PROVE  ReferInv'
  <2>1. /\ account[u] = "gone" /\ (r # NoUser => r # u /\ account[r] # "gone")
        /\ account' = [account EXCEPT ![u] = "active"]
        /\ referrer' = [referrer EXCEPT ![u] = r]
        /\ bindings' = [bindings EXCEPT ![u] = IF r = NoUser THEN 0 ELSE 1]
        /\ UNCHANGED binding
    BY <1>3 DEF R!SignUp
  <2>2. Without({"overlap_binds"}) => \A o \in Binders : binding[o] = R!NoBinding
    BY <1>3 DEF R!SignUp, R!Unhurried, Without
  <2>3. \A v \in Users : referrer[v] # u
    BY <2>1 DEF ReferInv
  <2> QED BY <2>1, <2>2, <2>3 DEF ReferInv, Without
<1>4. ASSUME NEW u \in Users, R!WindowCloses(u)
      PROVE  ReferInv'
  BY <1>4 DEF R!WindowCloses, ReferInv, Without
<1> QED BY <1>1, <1>2, <1>3, <1>4 DEF R!ReferralStep

-------------------------------------------------------------------------------
(* The second factor.                                                      *)

Factored(f) == DOMAIN f = {"pc", "goal", "user", "factor", "secret", "value"}

\* Secrets are numbered as they are issued, so one that is offered is new.
FactorTypes ==
  /\ issued \in Nat
  /\ credential \in [Users -> 0..issued] /\ challenge \in [Users -> 0..issued]
  /\ DOMAIN codes = Users /\ DOMAIN sessions = Users /\ DOMAIN factoring = FactorCalls
  /\ \A c \in FactorCalls :
       /\ Factored(factoring[c]) /\ factoring[c].secret \in 0..issued
       /\ factoring[c].factor.kind = "totp" => factoring[c].factor.secret \in 0..issued
       /\ factoring[c] # F!NoFactorCall => factoring[c].user \in Users

OfferedIsNew == \A u \in Users : credential[u] # 0 => challenge[u] # credential[u]

InForce(u) == {credential[u]} \ {0}
AllHave == \A u \in Users : F!Eligible(u) => credential[u] # 0
NoneGiven == Without({"roles", "applications"})

\* What a call has checked and still relies on.
StillHolds(c) ==
  LET f == factoring[c] IN
  /\ f.pc = "verify" => f.secret \in InForce(f.user) /\ f.goal \in {"login", "regenerate", "disable"}
  /\ f.pc = "write" /\ f.goal \in {"login", "regenerate"} => f.secret \in InForce(f.user)
  /\ f.pc = "write" /\ f.goal = "confirm" => f.secret # 0
  /\ f.goal = "disable" => ~required
  /\ f.goal = "policy" /\ f.value /\ NoneGiven => AllHave

RowsInForce ==
  \A u \in Users : /\ sessions[u] \subseteq InForce(u)
                   /\ \A k \in codes[u] : k.of \in InForce(u)

Unhindered ==
  /\ \A c, o \in FactorCalls : c = o \/ factoring[c] = F!NoFactorCall
                                     \/ factoring[o] = F!NoFactorCall
  /\ RowsInForce
  /\ \A c \in FactorCalls : StillHolds(c)
  /\ required /\ NoneGiven => AllHave

FactorInv ==
  /\ FactorTypes /\ OfferedIsNew
  /\ Without({"overlap_factors"}) => Unhindered

\* A step that leaves the rows alone and gives nobody a management role.
LEMMA FactorStutter ==
  ASSUME FactorInv, UNCHANGED <<scene, factorVars>>,
         NoneGiven => \A u \in Users : F!Eligible(u)' => F!Eligible(u)
  PROVE  FactorInv'
<1>1. FactorTypes' /\ OfferedIsNew'
  BY DEF FactorInv, FactorTypes, OfferedIsNew, factorVars, Factored, F!NoFactorCall, F!NoFactor
<1>2. NoneGiven' = NoneGiven /\ (NoneGiven /\ AllHave => AllHave')
  BY DEF NoneGiven, Without, AllHave, factorVars
<1>3. ASSUME Without({"overlap_factors"}) PROVE Unhindered'
  <2>1. Unhindered
    BY <1>3 DEF FactorInv
  <2>2. RowsInForce'
    BY <2>1 DEF Unhindered, RowsInForce, InForce, factorVars
  <2>3. \A c \in FactorCalls : StillHolds(c)'
    BY <2>1, <1>2 DEF Unhindered, StillHolds, InForce, factorVars
  <2> QED BY <2>1, <2>2, <2>3, <1>2 DEF Unhindered, factorVars, F!NoFactorCall, F!NoFactor
<1> QED BY <1>1, <1>3 DEF FactorInv, Without

\* A profile that is deleted takes its rows and its calls with it.
LEMMA FactorCascade ==
  ASSUME FactorInv, PeopleInv', F!FactorsCascade, UNCHANGED scene,
         NoneGiven => \A u \in Users : F!Eligible(u)' => F!Eligible(u)
  PROVE  FactorInv'
<1> DEFINE gone(u) == account'[u] = "gone"
<1>1. /\ issued' = issued /\ required' = required
      /\ credential' = [u \in Users |-> IF gone(u) THEN 0 ELSE credential[u]]
      /\ challenge' = [u \in Users |-> IF gone(u) THEN 0 ELSE challenge[u]]
      /\ codes' = [u \in Users |-> IF gone(u) THEN {} ELSE codes[u]]
      /\ sessions' = [u \in Users |-> IF gone(u) THEN {} ELSE sessions[u]]
      /\ DOMAIN factoring' = FactorCalls
      /\ \A c \in FactorCalls :
           \/ factoring'[c] = F!NoFactorCall
           \/ factoring'[c] = factoring[c] /\ ~(factoring[c].user \in Users /\ gone(factoring[c].user))
  BY DEF F!FactorsCascade
<1>2. \A u \in Users : gone(u) => ~F!Eligible(u)'
  BY DEF PeopleInv, F!Eligible
<1> HIDE DEF gone
<1>3. FactorTypes' /\ OfferedIsNew'
  BY <1>1 DEF FactorInv, FactorTypes, OfferedIsNew, Factored, F!NoFactorCall, F!NoFactor
<1>4. NoneGiven' = NoneGiven /\ (NoneGiven /\ AllHave => AllHave')
  BY <1>1, <1>2 DEF NoneGiven, Without, AllHave
<1>5. ASSUME Without({"overlap_factors"}) PROVE Unhindered'
  <2>1. Unhindered
    BY <1>5 DEF FactorInv
  <2>2. RowsInForce'
    BY <2>1, <1>1 DEF Unhindered, RowsInForce, InForce
  <2>3. ASSUME NEW c \in FactorCalls PROVE StillHolds(c)'
    <3>1. CASE factoring'[c] = F!NoFactorCall
      BY <3>1 DEF StillHolds, F!NoFactorCall
    <3>2. CASE factoring'[c] # F!NoFactorCall
      <4>1. /\ factoring'[c] = factoring[c] /\ factoring[c].user \in Users
            /\ ~gone(factoring[c].user)
        BY <3>2, <1>1 DEF FactorInv, FactorTypes
      <4>2. credential'[factoring[c].user] = credential[factoring[c].user]
        BY <4>1, <1>1
      <4> QED BY <4>1, <4>2, <2>1, <1>1, <1>4 DEF Unhindered, StillHolds, InForce
    <3> QED BY <3>1, <3>2
  <2> QED BY <2>1, <2>2, <2>3, <1>1, <1>4 DEF Unhindered, F!NoFactorCall, F!NoFactor
<1> QED BY <1>3, <1>5 DEF FactorInv, Without

\* What every step of the second factor owes.
FactorOwes ==
  /\ FactorTypes' /\ OfferedIsNew'
  /\ Without({"overlap_factors"}) => Unhindered'

\* A call that starts relies on nothing it has not just checked.
LEMMA FactorEnters ==
  ASSUME FactorInv, UNCHANGED <<scene, people>>, NEW c \in FactorCalls, NEW call,
         F!Enter(c, call), Factored(call), call.user \in Users, call.secret \in 0..issued,
         call.factor.kind = "totp" => call.factor.secret \in 0..issued,
         call.pc = "verify" => /\ call.secret \in InForce(call.user)
                               /\ call.goal \in {"login", "regenerate", "disable"},
         call.pc = "write" => call.goal \notin {"login", "regenerate"},
         call.pc = "write" /\ call.goal = "confirm" => call.secret # 0,
         call.goal = "disable" => ~required,
         call.goal = "policy" /\ call.value => AllHave
  PROVE  FactorOwes
<1>1. /\ factoring' = [factoring EXCEPT ![c] = call]
      /\ UNCHANGED <<issued, credential, challenge, codes, sessions, required>>
      /\ Without({"overlap_factors"}) => \A o \in FactorCalls : factoring[o] = F!NoFactorCall
  BY DEF F!Enter, F!factorRows, Without
<1>2. FactorTypes' /\ OfferedIsNew'
  BY <1>1 DEF FactorInv, FactorTypes, OfferedIsNew
<1>3. NoneGiven' = NoneGiven /\ AllHave' = AllHave
  BY <1>1 DEF NoneGiven, Without, AllHave, people, F!Eligible
<1>4. ASSUME Without({"overlap_factors"}) PROVE Unhindered'
  <2>1. Unhindered
    BY <1>4 DEF FactorInv
  <2>2. RowsInForce'
    BY <2>1, <1>1 DEF Unhindered, RowsInForce, InForce
  <2>3. \A o \in FactorCalls : factoring'[o] = IF o = c THEN call ELSE F!NoFactorCall
    BY <1>1, <1>4 DEF FactorInv, FactorTypes
  <2>4. ASSUME NEW o \in FactorCalls PROVE StillHolds(o)'
    <3>1. CASE o = c
      BY <3>1, <2>3, <1>1, <1>3 DEF StillHolds, InForce
    <3>2. CASE o # c
      BY <3>2, <2>3, <1>1 DEF StillHolds, F!NoFactorCall
    <3> QED BY <3>1, <3>2
  <2> QED BY <2>1, <2>2, <2>3, <2>4, <1>1, <1>3 DEF Unhindered
<1> QED BY <1>2, <1>4 DEF FactorOwes

\* Calls on a second factor that begin: what they read is in force.
LEMMA FactorBegins ==
  ASSUME FactorInv, UNCHANGED <<scene, people>>, NEW c \in FactorCalls, NEW u \in Users,
         \/ F!BeginEnrollment(c, u) \/ F!BeginConfirm(c, u)
         \/ \E goal \in {"login", "regenerate", "disable"}, factor \in F!Presented(u) :
              F!BeginWithFactor(c, u, goal, factor)
         \/ \E value \in BOOLEAN : F!BeginPolicy(c, u, value)
  PROVE  FactorOwes
<1> DEFINE IsCall(f, pc, goal, factor, secret, value) ==
             /\ Factored(f) /\ f.pc = pc /\ f.goal = goal /\ f.user = u
             /\ f.factor = factor /\ f.secret = secret /\ f.value = value
<1>0. /\ F!NoFactor.kind # "totp" /\ 0 \in 0..issued /\ challenge[u] \in 0..issued
      /\ credential[u] \in 0..issued
  BY DEF F!NoFactor, FactorInv, FactorTypes
<1>1. CASE F!BeginEnrollment(c, u)
  <2>1. PICK call :
          F!Enter(c, call) /\ IsCall(call, "write", "enroll", F!NoFactor, 0, FALSE)
    <3>1. IsCall([F!NoFactorCall EXCEPT !.pc = "write", !.goal = "enroll", !.user = u],
                 "write", "enroll", F!NoFactor, 0, FALSE)
      BY DEF F!NoFactorCall, Factored
    <3> HIDE DEF IsCall
    <3> QED BY <1>1, <3>1 DEF F!BeginEnrollment
  <2> QED BY <1>0, <2>1, FactorEnters
<1>2. CASE F!BeginConfirm(c, u)
  <2>1. PICK call :
          F!Enter(c, call) /\ IsCall(call, "write", "confirm", F!NoFactor, challenge[u], FALSE)
    <3>1. IsCall([F!NoFactorCall EXCEPT !.pc = "write", !.goal = "confirm", !.user = u,
                                         !.secret = challenge[u]],
                 "write", "confirm", F!NoFactor, challenge[u], FALSE)
      BY DEF F!NoFactorCall, Factored
    <3> HIDE DEF IsCall
    <3> QED BY <1>2, <3>1 DEF F!BeginConfirm
  <2>2. challenge[u] # 0
    BY <1>2 DEF F!BeginConfirm
  <2> QED BY <1>0, <2>1, <2>2, FactorEnters
<1>3. ASSUME NEW goal \in {"login", "regenerate", "disable"}, NEW factor \in F!Presented(u),
             F!BeginWithFactor(c, u, goal, factor)
      PROVE  FactorOwes
  <2>1. factor.kind = "totp" => factor.secret \in 0..issued
    BY DEF F!Presented, F!Totp, F!Recovery, FactorInv, FactorTypes
  <2>2. PICK call :
          F!Enter(c, call) /\ IsCall(call, "verify", goal, factor, credential[u], FALSE)
    <3>1. IsCall([F!NoFactorCall EXCEPT !.pc = "verify", !.goal = goal, !.user = u,
                                         !.factor = factor, !.secret = credential[u]],
                 "verify", goal, factor, credential[u], FALSE)
      BY DEF F!NoFactorCall, Factored
    <3> HIDE DEF IsCall
    <3> QED BY <1>3, <3>1 DEF F!BeginWithFactor
  <2>3. credential[u] \in InForce(u) /\ (goal = "disable" => ~required)
    BY <1>3 DEF F!BeginWithFactor, InForce
  <2> HIDE DEF InForce
  <2> QED BY <1>0, <2>1, <2>2, <2>3, FactorEnters
<1>4. ASSUME NEW value \in BOOLEAN, F!BeginPolicy(c, u, value)
      PROVE  FactorOwes
  <2>1. value => AllHave
    BY <1>4 DEF F!BeginPolicy, AllHave
  <2>2. PICK call :
          F!Enter(c, call) /\ IsCall(call, "write", "policy", F!NoFactor, 0, value)
    <3>1. IsCall([F!NoFactorCall EXCEPT !.pc = "write", !.goal = "policy", !.user = u,
                                         !.value = value],
                 "write", "policy", F!NoFactor, 0, value)
      BY DEF F!NoFactorCall, Factored
    <3> HIDE DEF IsCall
    <3> QED BY <1>4, <3>1 DEF F!BeginPolicy
  <2> QED BY <1>0, <2>1, <2>2, FactorEnters
<1> QED BY <1>1, <1>2, <1>3, <1>4

\* A call that ends, and what it has to have left behind.
LEMMA FactorLeaves ==
  ASSUME FactorInv, UNCHANGED <<scene, people>>, NEW c \in FactorCalls,
         F!Leave(c), factoring[c] # F!NoFactorCall, FactorTypes', OfferedIsNew',
         Unhindered => RowsInForce',
         Unhindered => (required' /\ NoneGiven => AllHave')
  PROVE  FactorOwes
<1>1. factoring' = [factoring EXCEPT ![c] = F!NoFactorCall]
  BY DEF F!Leave
<1>2. NoneGiven' = NoneGiven
  BY DEF NoneGiven, Without
<1>3. ASSUME Without({"overlap_factors"}) PROVE Unhindered'
  <2>1. Unhindered
    BY <1>3 DEF FactorInv
  <2>2. \A o \in FactorCalls : factoring'[o] = F!NoFactorCall
    BY <1>1, <2>1 DEF Unhindered, FactorInv, FactorTypes
  <2>3. \A o \in FactorCalls : StillHolds(o)'
    BY <2>2 DEF StillHolds, F!NoFactorCall
  <2> QED BY <2>1, <2>2, <2>3, <1>2 DEF Unhindered
<1> QED BY <1>3 DEF FactorOwes

\* Calls on a second factor that write and end: rows follow the factor in force.
LEMMA FactorEnds ==
  ASSUME FactorInv, UNCHANGED <<scene, people>>, NEW c \in FactorCalls,
         \/ F!OfferSecret(c) \/ F!Confirm(c) \/ F!OpenSession(c)
         \/ F!RenewCodes(c) \/ F!Disable(c) \/ F!SetPolicy(c)
  PROVE  FactorOwes
<1> DEFINE u == factoring[c].user
           s == factoring[c].secret
<1>1. F!Leave(c) /\ factoring[c] # F!NoFactorCall /\ factoring[c].pc = "write"
  <2>1. F!NoFactorCall.pc = "idle"
    BY DEF F!NoFactorCall
  <2>2. \E goal : F!Doing(c, "write", goal) /\ F!Leave(c)
    BY DEF F!OfferSecret, F!Confirm, F!OpenSession, F!RenewCodes, F!Disable, F!SetPolicy
  <2> QED BY <2>1, <2>2 DEF F!Doing
<1>2. u \in Users /\ s \in 0..issued /\ (Unhindered => StillHolds(c))
  BY <1>1 DEF FactorInv, FactorTypes, Unhindered
<1>3. /\ DOMAIN factoring' = FactorCalls
      /\ \A o \in FactorCalls : factoring'[o] = factoring[o] \/ factoring'[o] = F!NoFactorCall
  BY <1>1 DEF F!Leave, FactorInv, FactorTypes
<1>4. SUFFICES /\ issued' \in Nat /\ issued <= issued'
               /\ credential' \in [Users -> 0..issued'] /\ challenge' \in [Users -> 0..issued']
               /\ DOMAIN codes' = Users /\ DOMAIN sessions' = Users
               /\ OfferedIsNew'
               /\ Unhindered => RowsInForce'
               /\ Unhindered => (required' /\ NoneGiven => AllHave')
  <2>1. FactorTypes'
    BY <1>3, <1>4 DEF FactorTypes, FactorInv, Factored, F!NoFactorCall, F!NoFactor
  <2> QED BY <1>1, <1>4, <2>1, FactorLeaves
<1> USE DEF FactorInv, FactorTypes
<1>5. CASE F!OfferSecret(c)
  <2>1. /\ issued' = issued + 1 /\ challenge' = [challenge EXCEPT ![u] = issued']
        /\ UNCHANGED <<credential, codes, sessions, required>>
    BY <1>5 DEF F!OfferSecret
  <2> QED BY <1>2, <2>1
          DEF OfferedIsNew, Unhindered, RowsInForce, InForce, AllHave, F!Eligible, people
<1>6. CASE F!Confirm(c)
  <2>1. UNCHANGED <<issued, required>> /\ (Unhindered => s # 0)
    BY <1>1, <1>2, <1>6 DEF F!Confirm, F!Doing, StillHolds
  <2>2. CASE challenge[u] = 0
    BY <1>6, <2>1, <2>2
       DEF F!Confirm, OfferedIsNew, Unhindered, RowsInForce, InForce, AllHave, F!Eligible, people
  <2>3. CASE challenge[u] # 0
    <3>1. /\ credential' = [credential EXCEPT ![u] = s]
          /\ challenge' = [challenge EXCEPT ![u] = 0]
          /\ codes' = [codes EXCEPT ![u] = F!Batch(s, FALSE)]
          /\ sessions' = [sessions EXCEPT ![u] = {s}]
      BY <1>6, <2>3 DEF F!Confirm, F!AfterConfirm
    <3>2. Unhindered => RowsInForce'
      BY <1>2, <2>1, <3>1 DEF Unhindered, RowsInForce, InForce, F!Batch
    <3>3. Unhindered => (required' /\ NoneGiven => AllHave')
      BY <1>2, <2>1, <3>1 DEF Unhindered, AllHave, F!Eligible, people
    <3> QED BY <1>2, <2>1, <3>1, <3>2, <3>3 DEF OfferedIsNew
  <2> QED BY <2>2, <2>3
<1>7. CASE F!OpenSession(c)
  <2>1. /\ sessions' = [sessions EXCEPT ![u] = @ \cup {s}]
        /\ UNCHANGED <<issued, credential, challenge, codes, required>>
    BY <1>7 DEF F!OpenSession
  <2>2. Unhindered => s \in InForce(u)
    BY <1>1, <1>2, <1>7 DEF F!OpenSession, F!Doing, StillHolds
  <2> QED BY <1>2, <2>1, <2>2
          DEF OfferedIsNew, Unhindered, RowsInForce, InForce, AllHave, F!Eligible, people
<1>8. CASE F!RenewCodes(c)
  <2>1. /\ codes' = [codes EXCEPT ![u] = F!Batch(s, TRUE)]
        /\ UNCHANGED <<issued, credential, challenge, sessions, required>>
    BY <1>8 DEF F!RenewCodes
  <2>2. Unhindered => s \in InForce(u)
    BY <1>1, <1>2, <1>8 DEF F!RenewCodes, F!Doing, StillHolds
  <2> QED BY <1>2, <2>1, <2>2
          DEF OfferedIsNew, Unhindered, RowsInForce, InForce, AllHave, F!Eligible, people, F!Batch
<1>9. CASE F!Disable(c)
  <2>1. UNCHANGED <<issued, required>> /\ (Unhindered => ~required)
    BY <1>1, <1>2, <1>9 DEF F!Disable, F!Doing, StillHolds
  <2>2. CASE credential[u] = 0
    BY <1>9, <2>1, <2>2 DEF F!Disable, OfferedIsNew, Unhindered, RowsInForce, InForce
  <2>3. CASE credential[u] # 0
    <3>1. /\ credential' = [credential EXCEPT ![u] = 0]
          /\ challenge' = [challenge EXCEPT ![u] = 0]
          /\ codes' = [codes EXCEPT ![u] = {}]
          /\ sessions' = [sessions EXCEPT ![u] = {}]
      BY <1>9, <2>3 DEF F!Disable, F!AfterDisable
    <3> QED BY <1>2, <2>1, <3>1 DEF OfferedIsNew, Unhindered, RowsInForce, InForce
  <2> QED BY <2>2, <2>3
<1>10. CASE F!SetPolicy(c)
  <2>1. /\ required' = factoring[c].value
        /\ UNCHANGED <<issued, credential, challenge, codes, sessions>>
    BY <1>10 DEF F!SetPolicy
  <2>2. Unhindered => (factoring[c].value /\ NoneGiven => AllHave)
    BY <1>2, <1>10 DEF F!SetPolicy, F!Doing, StillHolds
  <2> QED BY <1>2, <2>1, <2>2
          DEF OfferedIsNew, Unhindered, RowsInForce, InForce, AllHave, F!Eligible, people
<1> QED BY <1>5, <1>6, <1>7, <1>8, <1>9, <1>10

\* A login that is verified gives a session of the factor in force.
LEMMA FactorVerifies ==
  ASSUME FactorInv, UNCHANGED <<scene, people>>, NEW c \in FactorCalls, F!Verify(c)
  PROVE  FactorOwes
<1> DEFINE u == factoring[c].user
           f == factoring[c].factor
           s == IF f.kind = "totp" THEN f.secret ELSE credential[u]
<1>1. /\ factoring[c] # F!NoFactorCall /\ factoring[c].pc = "verify" /\ u \in Users
      /\ UNCHANGED <<issued, credential, challenge, sessions, required>>
  BY DEF F!Verify, F!NoFactorCall, FactorInv, FactorTypes
<1>2. \/ UNCHANGED codes
      \/ \E gone : codes' = [codes EXCEPT ![u] = @ \ gone]
  BY DEF F!Verify
<1>3. NoneGiven' = NoneGiven /\ AllHave' = AllHave
  BY <1>1 DEF NoneGiven, Without, AllHave, people, F!Eligible
<1>4. OfferedIsNew' /\ DOMAIN codes' = Users
  BY <1>1, <1>2 DEF FactorInv, FactorTypes, OfferedIsNew
<1>5. Unhindered => RowsInForce'
  BY <1>1, <1>2 DEF Unhindered, RowsInForce, InForce, FactorInv, FactorTypes
<1>6. CASE ~F!Accepted(c)
  <2>1. F!Leave(c)
    BY <1>6 DEF F!Verify
  <2>2. FactorTypes'
    <3>1. /\ DOMAIN factoring' = FactorCalls
          /\ \A o \in FactorCalls : factoring'[o] = factoring[o] \/ factoring'[o] = F!NoFactorCall
      BY <2>1 DEF F!Leave, FactorInv, FactorTypes
    <3> QED BY <1>1, <1>4, <3>1 DEF FactorInv, FactorTypes, Factored, F!NoFactorCall, F!NoFactor
  <2> QED BY <1>1, <1>3, <1>4, <1>5, <2>1, <2>2, FactorLeaves DEF Unhindered
<1>7. CASE F!Accepted(c)
  <2>1. factoring' = [factoring EXCEPT ![c].pc = "write", ![c].factor = F!NoFactor,
                                       ![c].secret = s]
    BY <1>7 DEF F!Verify
  <2>2. s \in 0..issued
    BY <1>1 DEF FactorInv, FactorTypes
  <2>3. Unhindered => s \in InForce(u) /\ factoring[c].goal \in {"login", "regenerate", "disable"}
                      /\ (factoring[c].goal = "disable" => ~required)
    BY <1>1, <1>7 DEF F!Accepted, Unhindered, StillHolds, InForce, FactorInv, FactorTypes
  <2>4. /\ DOMAIN factoring' = FactorCalls
        /\ \A o \in FactorCalls : o # c => factoring'[o] = factoring[o]
        /\ Factored(factoring'[c]) /\ factoring'[c].pc = "write"
        /\ factoring'[c].factor = F!NoFactor /\ factoring'[c].secret = s
        /\ factoring'[c].user = u /\ factoring'[c].goal = factoring[c].goal
    BY <2>1 DEF FactorInv, FactorTypes, Factored
  <2>5. FactorTypes'
    BY <1>1, <1>4, <2>2, <2>4 DEF FactorInv, FactorTypes, F!NoFactor
  <2>6. ASSUME Unhindered PROVE Unhindered'
    <3>1. ASSUME NEW o \in FactorCalls PROVE StillHolds(o)'
      <4>1. CASE o = c
        BY <4>1, <2>3, <2>4, <2>6, <1>1 DEF StillHolds, InForce
      <4>2. CASE o # c
        BY <4>2, <2>4, <2>6, <1>1, <1>3 DEF StillHolds, InForce, Unhindered
      <4> QED BY <4>1, <4>2
    <3> QED BY <1>1, <1>3, <1>5, <2>4, <2>6, <3>1 DEF Unhindered
  <2> QED BY <1>4, <2>5, <2>6 DEF FactorOwes, FactorInv
<1> QED BY <1>6, <1>7

\* Every step on second factors.
LEMMA FactorSteps ==
  ASSUME FactorInv, F!FactorStep, UNCHANGED <<scene, people>>
  PROVE  FactorInv'
<1>1. SUFFICES FactorOwes
  BY <1>1 DEF FactorOwes, FactorInv, Without
<1>2. ASSUME NEW u \in Users,
             F!ExpiredChallenge(u) \/ \E s \in sessions[u] : F!SessionExpires(u, s)
      PROVE  FactorOwes
  <2>1. /\ UNCHANGED <<issued, credential, codes, required, factoring>>
        /\ \/ challenge' = [challenge EXCEPT ![u] = 0] /\ UNCHANGED sessions
           \/ \E s : sessions' = [sessions EXCEPT ![u] = @ \ {s}] /\ UNCHANGED challenge
    BY <1>2 DEF F!ExpiredChallenge, F!SessionExpires
  <2>2. FactorTypes' /\ OfferedIsNew'
    BY <2>1 DEF FactorInv, FactorTypes, OfferedIsNew, Factored, F!NoFactorCall, F!NoFactor
  <2>3. NoneGiven' = NoneGiven /\ AllHave' = AllHave
    BY <2>1 DEF NoneGiven, Without, AllHave, people, F!Eligible
  <2>4. ASSUME Unhindered PROVE Unhindered'
    <3>1. RowsInForce'
      BY <2>1, <2>4 DEF Unhindered, RowsInForce, InForce, FactorInv, FactorTypes
    <3>2. \A c \in FactorCalls : StillHolds(c)'
      BY <2>1, <2>3, <2>4 DEF Unhindered, StillHolds, InForce
    <3> QED BY <2>1, <2>3, <2>4, <3>1, <3>2 DEF Unhindered, F!NoFactorCall, F!NoFactor
  <2> QED BY <2>2, <2>4 DEF FactorOwes, FactorInv
<1> QED BY <1>2, FactorEnds, FactorVerifies, FactorBegins DEF F!FactorStep

-------------------------------------------------------------------------------
(* Wallets, and the transfers that use them.                               *)

WalletFields == {"status", "address", "byAdmin", "recent"}
EnsureFields == {"pc", "user", "address"}
Kept(u, address) == address \in {0, 1} /\ (address = 1 => custody[u] = 1)

\* Two rows are made for one user, the custodian's and ours, by calls that
\* overlap: what a call carries is what the custodian holds.
WalletTypes ==
  /\ DOMAIN wallet = Users /\ DOMAIN ensuring = WalletCalls /\ barred \in [Users -> BOOLEAN]
  /\ custody \in [Users -> {0, 1}] /\ platform \in Nat
  /\ \A u \in Users :
       /\ DOMAIN wallet[u] = WalletFields
       /\ Kept(u, wallet[u].address)
       /\ wallet[u].status = "ready" => wallet[u].address = 1
  /\ \A c \in WalletCalls : LET e == ensuring[c] IN
       /\ DOMAIN e = EnsureFields
       /\ e.pc \notin {"idle", "platform"} => e.user \in Users /\ Kept(e.user, e.address)
       /\ e.pc = "wake" /\ e.address = 1 => wallet[e.user].address = 1
       /\ e.pc = "store" => e.address = 1

\* A wallet an administrator disabled, while nothing interferes.
KeptDisabled ==
  /\ walletOn = TRUE
  /\ \A u \in Users :
       /\ wallet[u].status = "disabled" => wallet[u].byAdmin
       /\ barred[u] = TRUE => /\ wallet[u].status = "disabled"
                              /\ \A c \in WalletCalls : ensuring[c].user # u

OnePlatform ==
  /\ platform <= 1
  /\ \A c \in WalletCalls : ensuring[c].pc = "platform" =>
       platform = 0 /\ \A o \in WalletCalls : o # c => ensuring[o].pc # "platform"

WalletInv ==
  /\ WalletTypes
  /\ Without({"late_provision", "feature_switched"}) => KeptDisabled
  /\ Without({"overlap_platform"}) => OnePlatform

\* Steps of the other parts leave wallets alone.
LEMMA WalletStutter ==
  ASSUME WalletInv, UNCHANGED <<scene, walletVars>>
  PROVE  WalletInv'
BY DEF WalletInv, WalletTypes, KeptDisabled, OnePlatform, Kept, Without, walletVars

\* A call writes over a row of which it knows only the address.
LEMMA WalletSteps ==
  ASSUME WalletInv, W!ProvisioningStep, UNCHANGED scene
  PROVE  WalletInv'
<1> USE AccountsAssumption DEF WalletFields, EnsureFields
<1>1. ASSUME NEW c \in WalletCalls, NEW u \in Holders, W!Look(c, u)
      PROVE  WalletInv'
  <2> DEFINE w == wallet[u]
             found == IF w.status # "none" THEN w
                      ELSE [w EXCEPT !.status = IF walletOn THEN "provisioning" ELSE "disabled"]
  <2>0. /\ W!AfterLook(found) \in {"idle", "wake", "mark"}
        /\ ~walletOn \/ (found.status = "disabled" /\ found.byAdmin) => W!AfterLook(found) = "idle"
    BY DEF W!AfterLook
  <2>1. /\ ensuring[c] = W!NoEnsure /\ wallet' = [wallet EXCEPT ![u] = found]
        /\ UNCHANGED <<walletOn, custody, barred, platform>>
        /\ IF W!AfterLook(found) = "idle" THEN UNCHANGED ensuring
           ELSE \E pc \in {"wake", "mark"} :
                  ensuring' = [ensuring EXCEPT ![c] = [pc |-> pc, user |-> u, address |-> w.address]]
    BY <1>1, <2>0 DEF W!Look, W!Beginning
  <2>2. ~walletOn \/ (found.status = "disabled" /\ found.byAdmin) => UNCHANGED ensuring
    BY <2>0, <2>1
  <2>3. /\ u \in Users /\ DOMAIN found = WalletFields
        /\ found.address = w.address /\ found.byAdmin = w.byAdmin
        /\ w.status # "none" => found.status = w.status
        /\ w.status = "none" => found.status = IF walletOn THEN "provisioning" ELSE "disabled"
    BY DEF WalletInv, WalletTypes
  <2> HIDE DEF found
  <2>4. WalletTypes'
    BY <2>1, <2>3 DEF WalletInv, WalletTypes, Kept
  <2>5. ASSUME KeptDisabled PROVE KeptDisabled'
    <3>1. barred[u] = TRUE => UNCHANGED ensuring
      BY <2>2, <2>3, <2>5 DEF KeptDisabled
    <3> QED BY <2>1, <2>3, <2>5, <3>1 DEF KeptDisabled, WalletInv, WalletTypes
  <2>6. ASSUME OnePlatform PROVE OnePlatform'
    BY <2>1, <2>6 DEF OnePlatform, WalletInv, WalletTypes
  <2> QED BY <2>4, <2>5, <2>6 DEF WalletInv, Without
<1>2. ASSUME NEW c \in WalletCalls,
             W!Wake(c) \/ W!Mark(c) \/ W!AskCustodian(c) \/ W!Store(c) \/ W!Fail(c)
      PROVE  WalletInv'
  <2> DEFINE u == ensuring[c].user
  <2>1. /\ ensuring[c].pc \in {"wake", "mark", "custody", "store", "fail"}
        /\ UNCHANGED <<walletOn, barred, platform>>
    BY <1>2 DEF W!Wake, W!Mark, W!AskCustodian, W!Store, W!Fail
  <2>2. u \in Users /\ Kept(u, ensuring[c].address)
    BY <2>1 DEF WalletInv, WalletTypes
  <2>3. \/ ensuring' = [ensuring EXCEPT ![c] = W!NoEnsure]
        \/ \E pc \in {"mark", "custody", "fail"} : ensuring' = [ensuring EXCEPT ![c].pc = pc]
        \/ /\ ensuring' = [ensuring EXCEPT ![c].pc = "store", ![c].address = custody'[u]]
           /\ custody' = [custody EXCEPT ![u] = W!Held(u)]
    BY <1>2 DEF W!Wake, W!Mark, W!AskCustodian, W!Store, W!Fail, W!Finish, W!Proceed
  <2>4. UNCHANGED custody \/ custody' = [custody EXCEPT ![u] = W!Held(u)]
    BY <1>2 DEF W!Wake, W!Mark, W!AskCustodian, W!Store, W!Fail
  <2>5. W!Held(u) = 1
    BY <2>2 DEF W!Held, WalletInv, WalletTypes
  <2>6. /\ DOMAIN wallet' = Users
        /\ \A v \in Users : v # u => wallet'[v] = wallet[v]
        /\ DOMAIN wallet'[u] = WalletFields
        /\ wallet'[u].address \in {wallet[u].address, ensuring[c].address}
        /\ wallet[u].address = 1 => wallet'[u].address = 1
        /\ wallet'[u].status = "ready" => wallet'[u].address = 1
        /\ wallet'[u].status = "disabled" => UNCHANGED wallet
    <3>1. CASE W!Wake(c)
      BY <2>2, <3>1
         DEF W!Wake, W!SetStatus, W!StatusFor, WalletInv, WalletTypes, Kept
    <3>2. CASE W!Mark(c)
      BY <2>2, <3>2 DEF W!Mark, WalletInv, WalletTypes
    <3>3. CASE W!AskCustodian(c)
      BY <2>2, <3>3 DEF W!AskCustodian, WalletInv, WalletTypes
    <3>4. CASE W!Store(c)
      BY <2>2, <3>4 DEF W!Store, WalletInv, WalletTypes
    <3>5. CASE W!Fail(c)
      BY <2>2, <3>5 DEF W!Fail, WalletInv, WalletTypes
    <3> QED BY <1>2, <3>1, <3>2, <3>3, <3>4, <3>5
  <2>7. custody' \in [Users -> {0, 1}] /\ \A v \in Users : custody[v] = 1 => custody'[v] = 1
    BY <2>4, <2>5, <2>2 DEF WalletInv, WalletTypes
  <2>8. /\ DOMAIN ensuring' = WalletCalls
        /\ \A o \in WalletCalls : o # c => ensuring'[o] = ensuring[o]
        /\ \/ ensuring'[c] = W!NoEnsure
           \/ /\ DOMAIN ensuring'[c] = EnsureFields /\ ensuring'[c].user = u
              /\ ensuring'[c].pc \in {"mark", "custody", "fail"}
              /\ ensuring'[c].address = ensuring[c].address
           \/ /\ DOMAIN ensuring'[c] = EnsureFields /\ ensuring'[c].user = u
              /\ ensuring'[c].pc = "store" /\ ensuring'[c].address = 1 /\ custody'[u] = 1
    <3>1. CASE ensuring' = [ensuring EXCEPT ![c] = W!NoEnsure]
      BY <3>1 DEF WalletInv, WalletTypes
    <3>2. ASSUME NEW pc \in {"mark", "custody", "fail"}, ensuring' = [ensuring EXCEPT ![c].pc = pc]
          PROVE  <2>8!1
      BY <3>2 DEF WalletInv, WalletTypes
    <3> QED BY <2>3, <2>5, <3>1, <3>2, <2>2 DEF WalletInv, WalletTypes
  <2>9. WalletTypes'
    <3>1. ASSUME NEW v \in Users
          PROVE  /\ DOMAIN wallet'[v] = WalletFields
                 /\ Kept(v, wallet[v].address)'
                 /\ wallet'[v].status = "ready" => wallet'[v].address = 1
      <4>1. CASE v = u
        BY <4>1, <2>2, <2>6, <2>7 DEF WalletInv, WalletTypes, Kept
      <4>2. CASE v # u
        BY <4>2, <2>6, <2>7 DEF WalletInv, WalletTypes, Kept
      <4> QED BY <4>1, <4>2
    <3>2. ASSUME NEW o \in WalletCalls
          PROVE  /\ DOMAIN ensuring'[o] = EnsureFields
                 /\ ensuring'[o].pc \notin {"idle", "platform"} =>
                      ensuring'[o].user \in Users /\ Kept(ensuring[o].user, ensuring[o].address)'
                 /\ ensuring'[o].pc = "wake" /\ ensuring'[o].address = 1 =>
                      wallet'[ensuring'[o].user].address = 1
                 /\ ensuring'[o].pc = "store" => ensuring'[o].address = 1
      <4>1. CASE o # c
        BY <4>1, <2>6, <2>7, <2>8 DEF WalletInv, WalletTypes, Kept
      <4>2. CASE o = c
        BY <4>2, <2>2, <2>7, <2>8 DEF WalletInv, WalletTypes, Kept, W!NoEnsure
      <4> QED BY <4>1, <4>2
    <3> QED BY <2>1, <2>6, <2>7, <2>8, <3>1, <3>2 DEF WalletInv, WalletTypes
  <2>10. ASSUME KeptDisabled PROVE KeptDisabled'
    <3>1. barred[u] # TRUE
      BY <2>2, <2>10 DEF KeptDisabled
    <3>2. \A v \in Users : wallet'[v].status = "disabled" => wallet'[v] = wallet[v]
      BY <2>6
    <3>3. \A v \in Users, o \in WalletCalls : v # u /\ ensuring[o].user # v => ensuring'[o].user # v
      BY <2>8, AccountsAssumption DEF W!NoEnsure
    <3> QED BY <2>1, <2>6, <2>10, <3>1, <3>2, <3>3 DEF KeptDisabled
  <2>11. ASSUME OnePlatform PROVE OnePlatform'
    BY <2>1, <2>8, <2>11 DEF OnePlatform, W!NoEnsure
  <2> QED BY <2>9, <2>10, <2>11 DEF WalletInv, Without
<1>3. ASSUME NEW c \in WalletCalls, W!FindPlatform(c) \/ W!CreatePlatform(c)
      PROVE  WalletInv'
  <2>1. /\ UNCHANGED <<walletOn, wallet, custody, barred>>
        /\ \/ /\ ensuring[c] = W!NoEnsure /\ platform = 0 /\ UNCHANGED platform
              /\ ensuring' = [ensuring EXCEPT ![c].pc = "platform"]
              /\ Without({"overlap_platform"}) => \A o \in WalletCalls : ensuring[o] = W!NoEnsure
           \/ /\ ensuring[c].pc = "platform" /\ platform' = platform + 1
              /\ ensuring' = [ensuring EXCEPT ![c] = W!NoEnsure]
    BY <1>3 DEF W!FindPlatform, W!CreatePlatform, W!Proceed, W!Finish, Without
  <2>2. /\ DOMAIN ensuring' = WalletCalls /\ platform' \in Nat
        /\ \A o \in WalletCalls : o # c => ensuring'[o] = ensuring[o]
        /\ DOMAIN ensuring'[c] = EnsureFields /\ ensuring'[c].pc \in {"idle", "platform"}
        /\ ensuring'[c].user \in {ensuring[c].user, NoUser}
    BY <2>1 DEF WalletInv, WalletTypes, W!NoEnsure
  <2>3. WalletTypes'
    BY <2>1, <2>2 DEF WalletInv, WalletTypes, Kept
  <2>4. ASSUME KeptDisabled PROVE KeptDisabled'
    BY <2>1, <2>2, <2>4 DEF KeptDisabled
  <2>5. ASSUME OnePlatform, Without({"overlap_platform"}) PROVE OnePlatform'
    BY <2>1, <2>2, <2>5 DEF OnePlatform, W!NoEnsure, WalletInv, WalletTypes
  <2> QED BY <2>3, <2>4, <2>5 DEF WalletInv, Without
<1>4. ASSUME NEW u \in Holders, W!MinutePasses(u) \/ W!DisableWallet(u) \/ W!EnableWallet(u)
      PROVE  WalletInv'
  <2>1. UNCHANGED <<walletOn, custody, ensuring, platform>> /\ u \in Users
    BY <1>4 DEF W!MinutePasses, W!DisableWallet, W!EnableWallet
  <2>6. barred' \in [Users -> BOOLEAN]
    BY <1>4, <2>1 DEF W!MinutePasses, W!DisableWallet, W!EnableWallet, WalletInv, WalletTypes
  <2>2. /\ DOMAIN wallet' = Users
        /\ \A v \in Users : v # u => wallet'[v] = wallet[v] /\ barred'[v] = barred[v]
        /\ DOMAIN wallet'[u] = WalletFields /\ wallet'[u].address = wallet[u].address
        /\ wallet'[u].status = "ready" => wallet'[u].address = 1
    BY <1>4, <2>1 DEF W!MinutePasses, W!DisableWallet, W!EnableWallet, W!SetStatus, W!StatusFor,
                      WalletInv, WalletTypes, Kept
  <2>3. WalletTypes'
    BY <2>1, <2>2, <2>6 DEF WalletInv, WalletTypes, Kept
  <2>4. ASSUME KeptDisabled, Without({"late_provision", "feature_switched"}) PROVE KeptDisabled'
    <3>1. /\ wallet'[u].status = "disabled" => wallet'[u].byAdmin
          /\ barred'[u] = TRUE => /\ wallet'[u].status = "disabled"
                                  /\ \A c \in WalletCalls : ensuring[c].user # u
      <4>1. CASE W!MinutePasses(u)
        BY <2>1, <2>4, <4>1 DEF W!MinutePasses, KeptDisabled, WalletInv, WalletTypes
      <4>2. CASE W!DisableWallet(u)
        BY <2>1, <2>4, <4>2
           DEF W!DisableWallet, W!Undisturbed, KeptDisabled, WalletInv, WalletTypes, Without
      <4>3. CASE W!EnableWallet(u)
        BY <2>1, <2>4, <4>3
           DEF W!EnableWallet, W!SetStatus, W!StatusFor, KeptDisabled, WalletInv, WalletTypes
      <4> QED BY <1>4, <4>1, <4>2, <4>3
    <3> QED BY <2>1, <2>2, <2>4, <3>1 DEF KeptDisabled
  <2>5. ASSUME OnePlatform PROVE OnePlatform'
    BY <2>1, <2>5 DEF OnePlatform
  <2> QED BY <2>3, <2>4, <2>5 DEF WalletInv, Without
<1>5. ASSUME W!SwitchFeature PROVE WalletInv'
  BY <1>5 DEF W!SwitchFeature, WalletInv, WalletTypes, OnePlatform, Kept, Without
<1> QED BY <1>1, <1>2, <1>3, <1>4, <1>5 DEF W!ProvisioningStep

\* A transfer that begins finds neither of its wallets disabled by an
\* administrator, and one that commits takes over what it found.
Limits == {LimitOf[t] : t \in DOMAIN LimitOf}
Flights == [from : Users, to : Users, key : Keys, amount : Amounts, limit : Limits, barred : BOOLEAN]
EntryRows == [from : Users, to : Users, key : Keys, amount : Amounts, limit : Limits,
              barred : BOOLEAN, day : Nat]

TransferInv ==
  /\ entries \in Seq(EntryRows) /\ today \in Nat /\ DOMAIN transferring = TransferCalls
  /\ \A c \in TransferCalls : transferring[c] \in Flights \/ transferring[c] = T!NoTransfer
  /\ Without({"late_provision", "feature_switched"}) =>
       /\ \A c \in TransferCalls : ~transferring[c].barred
       /\ \A i \in 1..Len(entries) : ~entries[i].barred

\* Steps of the other parts leave transfers alone.
LEMMA TransferStutter ==
  ASSUME TransferInv, UNCHANGED <<scene, transferVars>>
  PROVE  TransferInv'
BY DEF TransferInv, Without, transferVars, T!NoTransfer

\* No transfer that begins after a wallet was disabled is recorded.
LEMMA TransferSteps ==
  ASSUME TransferInv, WalletInv, T!TransferStep, UNCHANGED scene
  PROVE  TransferInv'
<1>1. ASSUME NEW c \in TransferCalls, NEW u \in Payers, NEW v \in Payers, NEW amount \in Amounts,
             NEW key \in Keys, T!BeginTransfer(c, u, v, amount, key)
      PROVE  TransferInv'
  <2> DEFINE flight == [from |-> u, to |-> v, key |-> key, amount |-> amount,
                        limit |-> T!Limit(u), barred |-> barred[u] \/ barred[v]]
  <2>1. /\ transferring' = [transferring EXCEPT ![c] = flight] /\ UNCHANGED <<entries, today>>
        /\ wallet[u].status # "disabled" /\ wallet[v].status # "disabled"
    BY <1>1 DEF T!BeginTransfer, T!transferRows, T!Usable
  <2>2. T!Limit(u) \in Limits /\ barred[u] \in BOOLEAN /\ barred[v] \in BOOLEAN
    BY AccountsAssumption DEF T!Limit, Limits, WalletInv, WalletTypes
  <2>3. flight \in Flights
    BY <2>2, AccountsAssumption DEF Flights
  <2>4. Without({"late_provision", "feature_switched"}) => ~flight.barred
    BY <2>1, <2>2, AccountsAssumption DEF WalletInv, KeptDisabled
  <2> HIDE DEF flight
  <2> QED BY <2>1, <2>3, <2>4 DEF TransferInv, Without
<1>2. ASSUME NEW c \in TransferCalls, T!CommitTransfer(c)
      PROVE  TransferInv'
  <2> DEFINE t == transferring[c]
             e == [from |-> t.from, to |-> t.to, key |-> t.key, amount |-> t.amount,
                   limit |-> t.limit, barred |-> t.barred, day |-> today]
  <2>1. /\ t # T!NoTransfer /\ UNCHANGED today
        /\ transferring' = [transferring EXCEPT ![c] = T!NoTransfer]
        /\ UNCHANGED entries \/ entries' = Append(entries, e)
    BY <1>2 DEF T!CommitTransfer
  <2>2. e \in EntryRows /\ (Without({"late_provision", "feature_switched"}) => ~e.barred)
    BY <2>1 DEF TransferInv, EntryRows, Flights
  <2>3. ~T!NoTransfer.barred
    BY DEF T!NoTransfer
  <2> HIDE DEF e
  <2>4. entries' \in Seq(EntryRows)
    <3>1. entries \in Seq(EntryRows)
      BY DEF TransferInv
    <3> HIDE DEF EntryRows
    <3> QED BY <2>1, <2>2, <3>1
  <2>5. Without({"late_provision", "feature_switched"}) => \A i \in 1..Len(entries') : ~entries'[i].barred
    <3>1. CASE UNCHANGED entries
      BY <3>1 DEF TransferInv
    <3>2. CASE entries' = Append(entries, e)
      <4>1. /\ Len(entries) \in Nat /\ Len(entries') = Len(entries) + 1
            /\ \A i \in 1..Len(entries) : entries'[i] = entries[i]
            /\ entries'[Len(entries) + 1] = e
        BY <2>2, <3>2 DEF TransferInv
      <4> QED BY <4>1, <2>2 DEF TransferInv
    <3> QED BY <2>1, <3>1, <3>2
  <2> QED BY <2>1, <2>3, <2>4, <2>5 DEF TransferInv, Without
<1>3. CASE UNCHANGED <<entries, transferring>> /\ (UNCHANGED today \/ today' = today + 1)
  BY <1>3 DEF TransferInv, Without
<1> QED BY <1>1, <1>2, <1>3
    DEF T!TransferStep, T!NextDay, T!SubmitKyc, T!ReviewKyc

-------------------------------------------------------------------------------
(* Projects and proposals.                                                 *)

Proposed == [by : Users, name : Names, status : {"pending", "approved", "rejected", "gone"}]
Answers == {"none", "pending", "accepted", "rejected"}
Row(i) == <<proposals[i].name, proposals[i].by>>
MadeFrom(i) == origin[proposals[i].name] = i

\* A decision names a proposal, and from its second write on a project that was
\* made from it.
DecisionHolds(c) ==
  LET d == deciding[c] IN
  /\ d.pc \in {"idle", "create", "assign", "mark", "join"}
  /\ d.pc = "idle" => d = P!NoDecision
  /\ d.pc \in {"create", "assign", "mark"} =>
       d.index \in 1..Len(proposals) /\ d.verdict \in {"approved", "rejected"}
  /\ d.pc \in {"create", "assign"} => d.verdict = "approved"
  /\ d.pc = "assign" \/ (d.pc = "mark" /\ d.verdict = "approved") => MadeFrom(d.index)
  /\ d.pc = "join" => d.user \in Users /\ d.name \in Names

ProjectTypes ==
  /\ proposals \in Seq(Proposed) /\ DOMAIN deciding = Deciders
  /\ projects \in [Names -> Users \cup {NoUser}] /\ origin \in [Names -> Nat]
  /\ invites \in [Names -> [Users -> Answers]]

\* A project made from a proposal has its name, and no project is unmade.
ProjectRows ==
  /\ \A n \in Names : projects[n] # NoUser => account[projects[n]] # "gone"
  /\ \A n \in Names : origin[n] # 0 =>
       /\ projects[n] # NoUser
       /\ origin[n] \in 1..Len(proposals) /\ proposals[origin[n]].name = n
  /\ \A i \in 1..Len(proposals) : proposals[i].status = "approved" => MadeFrom(i)
  /\ \A n \in Names, u \in Users : account[u] = "gone" => invites[n][u] # "accepted"
  /\ \A c \in Deciders : DecisionHolds(c)

Approving(c, i) ==
  /\ deciding[c].index = i /\ deciding[c].verdict = "approved"
  /\ deciding[c].pc \in {"assign", "mark"}
Settled(i) == proposals[i].status = "gone" \/ (proposals[i].status = "approved" /\ Row(i) \in hunting)
Becoming(c, n, u) == deciding[c].pc = "join" /\ deciding[c].user = u /\ deciding[c].name = n

\* Without overlaps and errors, what a decision has begun is finished or in hand.
InHand ==
  /\ \A c, o \in Deciders : c = o \/ deciding[c].pc = "idle" \/ deciding[o].pc = "idle"
  /\ \A n \in Names : origin[n] # 0 =>
       Settled(origin[n]) \/ \E c \in Deciders : Approving(c, origin[n])
  /\ \A c \in Deciders : deciding[c].pc = "mark" =>
       IF deciding[c].verdict = "approved"
       THEN Row(deciding[c].index) \in hunting \/ proposals[deciding[c].index].status = "gone"
       ELSE ~MadeFrom(deciding[c].index)
  /\ \A n \in Names, u \in Users : invites[n][u] = "accepted" =>
       <<n, u>> \in hunting \/ \E c \in Deciders : Becoming(c, n, u)

ProjectInv ==
  /\ ProjectTypes /\ ProjectRows
  /\ Without({"overlap_decisions", "decision_error"}) => InHand

\* Steps that leave projects alone and delete no profile.
LEMMA ProjectStutter ==
  ASSUME ProjectInv, UNCHANGED <<scene, proposalVars>>,
         \A u \in Users : account'[u] = "gone" => account[u] = "gone"
  PROVE  ProjectInv'
<1>1. \A c \in Deciders : DecisionHolds(c)' = DecisionHolds(c)
  BY DEF DecisionHolds, MadeFrom, proposalVars, P!NoDecision
<1>2. ProjectTypes' /\ ProjectRows'
  BY <1>1 DEF ProjectInv, ProjectTypes, ProjectRows, MadeFrom, proposalVars
<1>3. InHand => InHand'
  BY DEF InHand, Settled, Approving, Becoming, Row, MadeFrom, proposalVars
<1> QED BY <1>2, <1>3 DEF ProjectInv, Without

\* The owner of a project keeps his profile.
LEMMA OwnersStay ==
  ASSUME PeopleInv, ProjectInv, G!GovernanceStep
  PROVE  \A n \in Names : projects[n] # NoUser => account'[projects[n]] # "gone"
<1> DEFINE Stay == \A n \in Names : projects[n] # NoUser => account'[projects[n]] # "gone"
<1>0. \A n \in Names : projects[n] # NoUser => projects[n] \in Users /\ account[projects[n]] # "gone"
  BY DEF ProjectInv, ProjectTypes, ProjectRows
<1>1. UNCHANGED account => Stay
  BY <1>0
<1>2. ASSUME NEW u, NEW s, s # "gone", account' = [account EXCEPT ![u] = s] PROVE Stay
  BY <1>0, <1>2 DEF PeopleInv
<1>3. ASSUME NEW c \in Governors, G!FinishHardDelete(c) PROVE Stay
  <2>1. CASE G!OwnsProject(governing[c].user)
    BY <1>1, <1>3, <2>1 DEF G!FinishHardDelete
  <2>2. CASE ~G!OwnsProject(governing[c].user)
    <3>1. \A n \in Names : projects[n] # governing[c].user
      BY <2>2 DEF G!OwnsProject, ProjectInv, ProjectTypes
    <3>2. account' = [account EXCEPT ![governing[c].user] = "gone"]
      BY <1>3, <2>2 DEF G!FinishHardDelete
    <3> QED BY <1>0, <3>1, <3>2 DEF PeopleInv
  <2> QED BY <2>1, <2>2
<1>4. ASSUME NEW c \in Governors,
             \/ G!FinishPromote(c) \/ G!FinishDemote(c) \/ G!FinishDelete(c)
             \/ G!FinishReactivate(c) \/ G!FinishApply(c) \/ G!GovernanceError(c)
      PROVE  Stay
  <2>1. UNCHANGED account \/ \E u : \E s \in {"active", "deactivated"} :
          account' = [account EXCEPT ![u] = s]
    BY <1>4 DEF G!FinishPromote, G!FinishDemote, G!FinishDelete, G!FinishReactivate,
                G!FinishApply, G!GovernanceError
  <2> QED BY <1>1, <1>2, <2>1
<1>5. ASSUME NEW c \in Governors, NEW a \in Users, NEW u \in Users, NEW role, NEW i, NEW verdict,
             \/ G!BeginPromote(c, a, u, role) \/ G!BeginDemote(c, a, u, role)
             \/ G!BeginDelete(c, a, u) \/ G!BeginReactivate(c, a, u)
             \/ G!BeginHardDelete(c, a, u) \/ G!BeginApply(c, u, role)
             \/ G!ReviewApplication(c, a, u, i, verdict)
      PROVE  Stay
  <2>1. UNCHANGED account
    BY <1>5 DEF G!BeginPromote, G!BeginDemote, G!BeginDelete, G!BeginReactivate,
                G!BeginHardDelete, G!BeginApply, G!ReviewApplication, G!Begin
  <2> QED BY <1>1, <2>1
<1>6. ASSUME NEW u \in Users, G!SelfDeactivate(u) \/ G!SignIn(u) PROVE Stay
  <2>1. \E s \in {"active", "deactivated"} : account' = [account EXCEPT ![u] = s]
    BY <1>6 DEF G!SelfDeactivate, G!SignIn
  <2> QED BY <1>2, <2>1
<1> HIDE DEF Stay
<1>7. Stay
  BY <1>3, <1>4, <1>5, <1>6 DEF G!GovernanceStep
<1> QED BY <1>7 DEF Stay

\* The rows of a deleted profile go, and with them its proposals and invitations.
LEMMA ProjectCascade ==
  ASSUME ProjectInv, P!ProposalsCascade, UNCHANGED scene,
         \A n \in Names : projects[n] # NoUser => account'[projects[n]] # "gone"
  PROVE  ProjectInv'
<1> DEFINE gone(u) == account'[u] = "gone"
<1>1. /\ UNCHANGED <<projects, origin, deciding>>
      /\ \A n, u : <<n, u>> \in hunting /\ ~gone(u) => <<n, u>> \in hunting'
      /\ invites' = [n \in Names |-> [u \in Users |-> IF gone(u) THEN "none" ELSE invites[n][u]]]
      /\ proposals' = [i \in 1..Len(proposals) |->
           IF gone(proposals[i].by) THEN [proposals[i] EXCEPT !.status = "gone"] ELSE proposals[i]]
  BY DEF P!ProposalsCascade
<1> HIDE DEF gone
<1>2. \A i \in 1..Len(proposals) : proposals[i] \in Proposed
  <2> HIDE DEF Proposed
  <2> QED BY DEF ProjectInv, ProjectTypes
<1>3. \A i \in 1..Len(proposals) :
        /\ proposals'[i] \in Proposed
        /\ proposals'[i].name = proposals[i].name /\ proposals'[i].by = proposals[i].by
        /\ gone(proposals[i].by) => proposals'[i].status = "gone"
        /\ ~gone(proposals[i].by) => proposals'[i].status = proposals[i].status
  BY <1>1, <1>2 DEF Proposed
<1>4. proposals' \in Seq(Proposed) /\ Len(proposals') = Len(proposals) /\ Len(proposals) \in Nat
  <2>1. Len(proposals) \in Nat
    BY DEF ProjectInv, ProjectTypes
  <2> HIDE DEF Proposed
  <2> QED BY <1>1, <1>3, <2>1
<1>5. ProjectTypes'
  BY <1>1, <1>4 DEF ProjectInv, ProjectTypes, Answers
<1>6. \A i \in 1..Len(proposals) : MadeFrom(i)' = MadeFrom(i) /\ Row(i)' = Row(i)
  BY <1>1, <1>3 DEF MadeFrom, Row
<1>7. \A c \in Deciders : DecisionHolds(c)'
  BY <1>1, <1>4, <1>6 DEF ProjectInv, ProjectRows, DecisionHolds, P!NoDecision
<1>8. ProjectRows'
  <2>1. \A n \in Names, u \in Users : account'[u] = "gone" => invites'[n][u] = "none"
    BY <1>1 DEF gone
  <2> QED BY <1>1, <1>3, <1>4, <1>6, <1>7, <2>1 DEF ProjectInv, ProjectRows
<1>9. ASSUME InHand PROVE InHand'
  <2>1. ASSUME NEW i \in 1..Len(proposals)
        PROVE  (Settled(i) => Settled(i)')
               /\ (Row(i) \in hunting => Row(i)' \in hunting' \/ proposals'[i].status = "gone")
    BY <1>1, <1>3, <1>6, <2>1 DEF Settled, Row
  <2>2. \A n \in Names : origin[n] # 0 =>
          Settled(origin[n])' \/ \E c \in Deciders : Approving(c, origin[n])'
    BY <1>1, <1>9, <2>1 DEF InHand, ProjectInv, ProjectRows, Approving
  <2>3. \A c \in Deciders : deciding[c].pc = "mark" => deciding[c].index \in 1..Len(proposals)
    BY DEF ProjectInv, ProjectRows, DecisionHolds
  <2>4. \A i \in 1..Len(proposals) : proposals[i].status = "gone" => proposals'[i].status = "gone"
    BY <1>3
  <2>5. \A n \in Names, u \in Users : invites'[n][u] = "accepted" =>
          invites[n][u] = "accepted" /\ ~gone(u)
    BY <1>1
  <2>6. \A n \in Names, u \in Users : invites'[n][u] = "accepted" =>
          <<n, u>> \in hunting' \/ \E c \in Deciders : Becoming(c, n, u)'
    BY <1>1, <1>9, <2>5 DEF InHand, Becoming
  <2>7. \A c \in Deciders : deciding[c].pc = "mark" =>
          IF deciding[c].verdict = "approved"
          THEN Row(deciding[c].index)' \in hunting' \/ proposals'[deciding[c].index].status = "gone"
          ELSE ~MadeFrom(deciding[c].index)'
    BY <1>1, <1>6, <1>9, <2>1, <2>3, <2>4 DEF InHand
  <2> QED BY <1>1, <1>9, <2>2, <2>6, <2>7 DEF InHand
<1> QED BY <1>5, <1>8, <1>9 DEF ProjectInv, Without

\* Steps of no decision: the rows only grow, or an invitation is renewed.
LEMMA ProjectUndecided ==
  ASSUME ProjectInv, UNCHANGED <<scene, people>>, NEW u \in Users, NEW name \in Names, NEW h \in Users,
         \/ P!CreateDirectly(u, name) \/ P!Propose(u, name)
         \/ P!AssignHunter(u, name, h) \/ P!InviteHunter(u, name, h)
  PROVE  ProjectInv'
<1>1. CASE P!CreateDirectly(u, name)
  <2>1. /\ projects[name] = NoUser /\ account[u] = "active"
        /\ projects' = [projects EXCEPT ![name] = u] /\ origin' = [origin EXCEPT ![name] = 0]
        /\ UNCHANGED <<hunting, invites, proposals, deciding>>
    BY <1>1 DEF P!CreateDirectly, P!AddProject, P!Exists, P!Allowed
  <2>2. origin[name] = 0
    BY <2>1 DEF ProjectInv, ProjectRows
  <2>3. origin' = origin
    BY <2>1, <2>2 DEF ProjectInv, ProjectTypes
  <2>4. ProjectTypes'
    BY <2>1, <2>3 DEF ProjectInv, ProjectTypes
  <2>5. \A c \in Deciders : DecisionHolds(c)'
    BY <2>1, <2>3 DEF ProjectInv, ProjectRows, DecisionHolds, MadeFrom, P!NoDecision
  <2>6. ProjectRows'
    BY <2>1, <2>3, <2>5, AccountsAssumption
       DEF ProjectInv, ProjectTypes, ProjectRows, MadeFrom, people
  <2>7. InHand => InHand'
    BY <2>1, <2>3 DEF InHand, Settled, Approving, Becoming, Row, MadeFrom
  <2> QED BY <2>4, <2>6, <2>7 DEF ProjectInv, Without
<1>2. CASE P!Propose(u, name)
  <2> DEFINE p == [by |-> u, name |-> name, status |-> "pending"]
  <2>1. /\ proposals' = Append(proposals, p)
        /\ UNCHANGED <<projects, origin, hunting, invites, deciding>>
    BY <1>2 DEF P!Propose
  <2>2. p \in Proposed /\ p.status = "pending" /\ proposals \in Seq(Proposed)
    BY DEF Proposed, ProjectInv, ProjectTypes
  <2>3. /\ proposals' \in Seq(Proposed) /\ Len(proposals) \in Nat
        /\ Len(proposals') = Len(proposals) + 1 /\ proposals'[Len(proposals) + 1] = p
        /\ \A i \in 1..Len(proposals) : proposals'[i] = proposals[i]
    <3> HIDE DEF p, Proposed
    <3> QED BY <2>1, <2>2
  <2> HIDE DEF p
  <2>4. ProjectTypes'
    BY <2>1, <2>3 DEF ProjectInv, ProjectTypes
  <2>5. \A i \in 1..Len(proposals) : MadeFrom(i)' = MadeFrom(i) /\ Row(i)' = Row(i)
    BY <2>1, <2>3 DEF MadeFrom, Row
  <2>6. \A i \in 1..Len(proposals') : i \in 1..Len(proposals) \/ i = Len(proposals) + 1
    BY <2>3
  <2>7. \A i \in 1..Len(proposals) : i \in 1..Len(proposals')
    BY <2>3
  <2>8. \A c \in Deciders : DecisionHolds(c)'
    BY <2>1, <2>5, <2>7 DEF ProjectInv, ProjectRows, DecisionHolds, P!NoDecision
  <2>9. ProjectRows'
    BY <2>1, <2>2, <2>3, <2>5, <2>6, <2>7, <2>8 DEF ProjectInv, ProjectRows, people
  <2>10. ASSUME InHand PROVE InHand'
    <3>1. \A n \in Names : origin[n] # 0 => origin[n] \in 1..Len(proposals)
      BY DEF ProjectInv, ProjectRows
    <3>2. \A c \in Deciders : deciding[c].pc = "mark" => deciding[c].index \in 1..Len(proposals)
      BY DEF ProjectInv, ProjectRows, DecisionHolds
    <3> QED BY <2>1, <2>3, <2>5, <2>10, <3>1, <3>2 DEF InHand, Settled, Approving, Becoming
  <2> QED BY <2>4, <2>9, <2>10 DEF ProjectInv, Without
<1>3. CASE P!AssignHunter(u, name, h) \/ P!InviteHunter(u, name, h)
  <2>1. /\ UNCHANGED <<projects, origin, proposals, deciding>>
        /\ \A row \in hunting : row \in hunting'
        /\ UNCHANGED invites \/ invites' = [invites EXCEPT ![name][h] = "pending"]
    BY <1>3 DEF P!AssignHunter, P!InviteHunter
  <2>2. /\ invites' \in [Names -> [Users -> Answers]]
        /\ \A n \in Names, v \in Users : invites'[n][v] = "accepted" => invites[n][v] = "accepted"
    <3>1. CASE UNCHANGED invites
      BY <3>1 DEF ProjectInv, ProjectTypes
    <3>2. CASE invites' = [invites EXCEPT ![name][h] = "pending"]
      BY <3>2 DEF ProjectInv, ProjectTypes, Answers
    <3> QED BY <2>1, <3>1, <3>2
  <2>3. \A c \in Deciders : DecisionHolds(c)'
    BY <2>1 DEF ProjectInv, ProjectRows, DecisionHolds, MadeFrom, P!NoDecision
  <2>4. ProjectTypes'
    BY <2>1, <2>2 DEF ProjectInv, ProjectTypes
  <2>5. ProjectRows'
    <3>1. \A i \in 1..Len(proposals) : MadeFrom(i)' = MadeFrom(i)
      BY <2>1 DEF MadeFrom
    <3>2. \A n \in Names, v \in Users : account[v] = "gone" => invites'[n][v] # "accepted"
      BY <2>2 DEF ProjectInv, ProjectRows
    <3> QED BY <2>1, <2>3, <3>1, <3>2 DEF ProjectInv, ProjectRows, people
  <2>6. InHand => InHand'
    BY <2>1, <2>2 DEF InHand, Settled, Approving, Becoming, Row, MadeFrom
  <2> QED BY <2>4, <2>5, <2>6 DEF ProjectInv, Without
<1> QED BY <1>1, <1>2, <1>3

\* Calls that begin.
LEMMA ProjectBegins ==
  ASSUME ProjectInv, UNCHANGED <<scene, people>>, NEW c \in Deciders, NEW u \in Users,
         \/ \E i \in 1..Len(proposals), verdict \in {"approved", "rejected"} :
              P!BeginDecision(c, u, i, verdict)
         \/ \E name \in Names, answer \in {"accepted", "rejected"} : P!Respond(c, u, name, answer)
  PROVE  ProjectInv'
<1>0. DOMAIN P!NoDecision = {"pc", "index", "verdict", "user", "name"} /\ P!NoDecision.pc = "idle"
  BY DEF P!NoDecision
<1>1. ASSUME NEW i \in 1..Len(proposals), NEW verdict \in {"approved", "rejected"},
             P!BeginDecision(c, u, i, verdict)
      PROVE  ProjectInv'
  <2> DEFINE d == [P!NoDecision EXCEPT !.pc = IF verdict = "approved" THEN "create" ELSE "mark",
                                       !.index = i, !.verdict = verdict]
  <2>1. /\ deciding' = [deciding EXCEPT ![c] = d] /\ proposals[i].status = "pending"
        /\ UNCHANGED <<projects, origin, hunting, invites, proposals>>
    BY <1>1 DEF P!BeginDecision, P!catalogue, P!Decidable
  <2>2. Without({"overlap_decisions", "decision_error"}) =>
          \A o \in Deciders : deciding[o] = P!NoDecision
    BY <1>1 DEF P!BeginDecision, P!MayDecide, Without
  <2>3. d.index = i /\ d.verdict = verdict /\ d.pc = IF verdict = "approved" THEN "create" ELSE "mark"
    BY <1>0
  <2> HIDE DEF d
  <2>4. /\ DOMAIN deciding' = Deciders /\ deciding'[c] = d
        /\ \A o \in Deciders : o # c => deciding'[o] = deciding[o]
    BY <2>1 DEF ProjectInv, ProjectTypes
  <2>5. DecisionHolds(c)'
    BY <2>1, <2>3, <2>4 DEF DecisionHolds
  <2>6. ASSUME NEW o \in Deciders, o # c PROVE DecisionHolds(o)'
    BY <2>1, <2>4, <2>6 DEF ProjectInv, ProjectRows, DecisionHolds, MadeFrom, P!NoDecision
  <2>7. ProjectTypes' /\ ProjectRows'
    BY <2>1, <2>4, <2>5, <2>6 DEF ProjectInv, ProjectTypes, ProjectRows, MadeFrom, people
  <2>8. ASSUME InHand, \A o \in Deciders : deciding[o] = P!NoDecision PROVE InHand'
    <3>1. \A o \in Deciders : deciding[o].pc = "idle"
      BY <1>0, <2>8
    <3>2. \A n \in Names : origin[n] # 0 => Settled(origin[n]) /\ proposals[origin[n]].name = n
      BY <2>8, <3>1 DEF InHand, Approving, ProjectInv, ProjectRows
    <3>3. ~MadeFrom(i)
      <4>1. proposals[i].name \in Names
        <5>1. proposals[i] \in Proposed
          <6> HIDE DEF Proposed
          <6> QED BY DEF ProjectInv, ProjectTypes
        <5> QED BY <5>1 DEF Proposed
      <4>2. i # 0
        OBVIOUS
      <4> QED BY <2>1, <3>2, <4>1, <4>2 DEF Settled, MadeFrom
    <3>4. \A n \in Names : origin'[n] # 0 => Settled(origin[n])'
      BY <2>1, <3>2 DEF Settled, Row
    <3>5. \A n \in Names, v \in Users : invites'[n][v] = "accepted" => <<n, v>> \in hunting'
      BY <2>1, <2>8, <3>1 DEF InHand, Becoming
    <3>6. \A o \in Deciders : o # c => deciding'[o].pc = "idle"
      BY <2>4, <3>1
    <3>7. deciding'[c].pc = "mark" => deciding'[c].verdict = "rejected" /\ ~MadeFrom(deciding[c].index)'
      BY <2>1, <2>3, <2>4, <3>3 DEF MadeFrom
    <3>8. \A o \in Deciders : deciding'[o].pc = "mark" => o = c
      BY <3>6
    <3> QED BY <3>4, <3>5, <3>6, <3>7, <3>8, <2>1 DEF InHand
  <2> QED BY <2>2, <2>7, <2>8 DEF ProjectInv, Without
<1>2. ASSUME NEW name \in Names, NEW answer \in {"accepted", "rejected"}, P!Respond(c, u, name, answer)
      PROVE  ProjectInv'
  <2> DEFINE d == [P!NoDecision EXCEPT !.pc = "join", !.user = u, !.name = name]
  <2>1. /\ invites' = [invites EXCEPT ![name][u] = answer]
        /\ UNCHANGED <<projects, origin, hunting, proposals>>
        /\ IF answer = "accepted" THEN deciding' = [deciding EXCEPT ![c] = d] ELSE UNCHANGED deciding
    BY <1>2 DEF P!Respond
  <2>2. Without({"overlap_decisions", "decision_error"}) =>
          \A o \in Deciders : deciding[o] = P!NoDecision
    BY <1>2 DEF P!Respond, P!MayDecide, Without
  <2>3. d.pc = "join" /\ d.user = u /\ d.name = name
    BY <1>0
  <2> HIDE DEF d
  <2>4. /\ DOMAIN deciding' = Deciders
        /\ deciding'[c] = (IF answer = "accepted" THEN d ELSE deciding[c])
        /\ \A o \in Deciders : o # c => deciding'[o] = deciding[o]
    BY <2>1 DEF ProjectInv, ProjectTypes
  <2>5. \A o \in Deciders : DecisionHolds(o)'
    <3>1. DecisionHolds(c)'
      BY <2>1, <2>3, <2>4 DEF ProjectInv, ProjectRows, DecisionHolds, MadeFrom, P!NoDecision
    <3>2. ASSUME NEW o \in Deciders, o # c PROVE DecisionHolds(o)'
      <4>1. deciding'[o] = deciding[o] /\ UNCHANGED <<origin, proposals>>
        BY <2>1, <2>4, <3>2
      <4>2. DecisionHolds(o)
        BY DEF ProjectInv, ProjectRows
      <4> QED BY <4>1, <4>2 DEF DecisionHolds, MadeFrom
    <3> QED BY <3>1, <3>2
  <2>6. /\ invites' \in [Names -> [Users -> Answers]]
        /\ \A n \in Names, v \in Users :
             invites'[n][v] = IF n = name /\ v = u THEN answer ELSE invites[n][v]
    BY <2>1 DEF ProjectInv, ProjectTypes, Answers
  <2>10. account[u] = "active"
    BY <1>2 DEF P!Respond
  <2>7. ProjectTypes' /\ ProjectRows'
    BY <2>1, <2>4, <2>5, <2>6, <2>10 DEF ProjectInv, ProjectTypes, ProjectRows, MadeFrom, people
  <2>8. ASSUME InHand, \A o \in Deciders : deciding[o] = P!NoDecision PROVE InHand'
    <3>1. \A o \in Deciders : deciding[o].pc = "idle"
      BY <1>0, <2>8
    <3>2. \A n \in Names : origin'[n] # 0 => Settled(origin[n])'
      BY <2>1, <2>8, <3>1 DEF InHand, Approving, Settled, Row
    <3>3. \A o \in Deciders : deciding'[o].pc # "mark" /\ (o # c => deciding'[o].pc = "idle")
      BY <2>3, <2>4, <3>1
    <3>4. \A n \in Names, v \in Users : invites[n][v] = "accepted" => <<n, v>> \in hunting
      BY <2>8, <3>1 DEF InHand, Becoming
    <3>5. answer = "accepted" => Becoming(c, name, u)'
      BY <2>3, <2>4 DEF Becoming
    <3>6. \A n \in Names, v \in Users : invites'[n][v] = "accepted" =>
            <<n, v>> \in hunting' \/ \E o \in Deciders : Becoming(o, n, v)'
      BY <2>1, <2>6, <3>4, <3>5
    <3> QED BY <3>2, <3>3, <3>6 DEF InHand
  <2> QED BY <2>2, <2>7, <2>8 DEF ProjectInv, Without
<1> QED BY <1>1, <1>2

\* A call that ends without having changed a row.
LEMMA ProjectReleases ==
  ASSUME ProjectInv, UNCHANGED <<scene, people>>, NEW c \in Deciders,
         deciding' = [deciding EXCEPT ![c] = P!NoDecision],
         UNCHANGED <<projects, origin, hunting, invites, proposals>>,
         Without({"overlap_decisions", "decision_error"}) =>
           deciding[c].pc \notin {"assign", "mark", "join"}
  PROVE  ProjectInv'
<1>0. P!NoDecision.pc = "idle"
  BY DEF P!NoDecision
<1>1. /\ DOMAIN deciding' = Deciders /\ deciding'[c] = P!NoDecision
      /\ \A o \in Deciders : o # c => deciding'[o] = deciding[o]
  BY DEF ProjectInv, ProjectTypes
<1>2. DecisionHolds(c)'
  BY <1>0, <1>1 DEF DecisionHolds, P!NoDecision
<1>3. ASSUME NEW o \in Deciders, o # c PROVE DecisionHolds(o)'
  BY <1>1, <1>3 DEF ProjectInv, ProjectRows, DecisionHolds, MadeFrom, P!NoDecision
<1>4. ProjectTypes' /\ ProjectRows'
  BY <1>1, <1>2, <1>3 DEF ProjectInv, ProjectTypes, ProjectRows, MadeFrom, people
<1>5. ASSUME InHand, deciding[c].pc \notin {"assign", "mark", "join"} PROVE InHand'
  <2>1. \A n \in Names : origin[n] # 0 =>
          Settled(origin[n]) \/ \E o \in Deciders : o # c /\ Approving(o, origin[n])
    BY <1>5 DEF InHand, Approving
  <2>2. \A n \in Names, u \in Users : invites[n][u] = "accepted" =>
          <<n, u>> \in hunting \/ \E o \in Deciders : o # c /\ Becoming(o, n, u)
    BY <1>5 DEF InHand, Becoming
  <2>3. \A n \in Names : origin'[n] # 0 =>
          Settled(origin[n])' \/ \E o \in Deciders : Approving(o, origin[n])'
    BY <1>1, <2>1 DEF Settled, Row, Approving
  <2>4. \A n \in Names, u \in Users : invites'[n][u] = "accepted" =>
          <<n, u>> \in hunting' \/ \E o \in Deciders : Becoming(o, n, u)'
    BY <1>1, <2>2 DEF Becoming
  <2> QED BY <1>0, <1>1, <1>5, <2>3, <2>4 DEF InHand, Row, MadeFrom
<1> QED BY <1>4, <1>5 DEF ProjectInv, Without

\* Calls that go on.
LEMMA ProjectGoesOn ==
  ASSUME ProjectInv, UNCHANGED <<scene, people>>, NEW c \in Deciders,
         P!CreateFromProposal(c) \/ P!AssignApplicant(c)
  PROVE  ProjectInv'
<1> DEFINE d == deciding[c]
           i == deciding[c].index
           p == proposals[i]
<1>0. P!NoDecision.pc = "idle"
  BY DEF P!NoDecision
<1>1. /\ d.pc \in {"create", "assign"} /\ DecisionHolds(c)
      /\ UNCHANGED <<invites, proposals>>
  BY DEF P!CreateFromProposal, P!AssignApplicant, ProjectInv, ProjectRows
<1>2. i \in 1..Len(proposals) /\ d.verdict = "approved"
  BY <1>1 DEF DecisionHolds
<1>3. p.name \in Names /\ p.by \in Users
  <2>1. p \in Proposed
    <3> HIDE DEF Proposed
    <3> QED BY <1>2 DEF ProjectInv, ProjectTypes
  <2> QED BY <2>1 DEF Proposed
<1>4. CASE P!AssignApplicant(c)
  <2>1. /\ d.pc = "assign" /\ hunting' = hunting \cup {Row(i)} /\ UNCHANGED <<projects, origin>>
        /\ deciding' = [deciding EXCEPT ![c].pc = "mark"]
    BY <1>4 DEF P!AssignApplicant, Row
  <2>2. /\ DOMAIN deciding' = Deciders /\ deciding'[c].pc = "mark"
        /\ deciding'[c].index = i /\ deciding'[c].verdict = "approved"
        /\ \A o \in Deciders : o # c => deciding'[o] = deciding[o]
    <3>1. DOMAIN deciding = Deciders
      BY DEF ProjectInv, ProjectTypes
    <3> QED BY <1>2, <2>1, <3>1
  <2>3. MadeFrom(i)
    BY <1>1, <2>1 DEF DecisionHolds
  <2>4. DecisionHolds(c)'
    BY <1>1, <1>2, <2>1, <2>2, <2>3 DEF DecisionHolds, MadeFrom
  <2>5. ASSUME NEW o \in Deciders, o # c PROVE DecisionHolds(o)'
    BY <1>1, <2>1, <2>2, <2>5 DEF ProjectInv, ProjectRows, DecisionHolds, MadeFrom, P!NoDecision
  <2>6. ProjectTypes' /\ ProjectRows'
    BY <1>1, <2>1, <2>2, <2>4, <2>5 DEF ProjectInv, ProjectTypes, ProjectRows, MadeFrom, people
  <2>7. ASSUME InHand PROVE InHand'
    <3>1. \A o \in Deciders : o # c => deciding'[o].pc = "idle"
      BY <1>1, <2>2, <2>7 DEF InHand
    <3>2. \A n \in Names : origin'[n] # 0 =>
            Settled(origin[n])' \/ \E o \in Deciders : Approving(o, origin[n])'
      <4>1. \A n \in Names : origin[n] # 0 => Settled(origin[n]) \/ Approving(c, origin[n])
        BY <1>1, <2>7 DEF InHand, Approving
      <4>2. \A n \in Names : Approving(c, origin[n]) => Approving(c, origin[n])'
        BY <2>1, <2>2 DEF Approving
      <4> QED BY <1>1, <2>1, <4>1, <4>2 DEF Settled, Row
    <3>3. Row(deciding[c].index)' \in hunting'
      BY <1>1, <2>1, <2>2 DEF Row
    <3>4. \A n \in Names, v \in Users : invites'[n][v] = "accepted" =>
            <<n, v>> \in hunting' \/ \E o \in Deciders : Becoming(o, n, v)'
      BY <1>1, <2>1, <2>7 DEF InHand, Becoming
    <3> QED BY <2>2, <3>1, <3>2, <3>3, <3>4 DEF InHand
  <2> QED BY <2>6, <2>7 DEF ProjectInv, Without
<1>5. CASE P!CreateFromProposal(c) /\ (P!Exists(p.name) \/ account[p.by] = "gone")
  <2>1. /\ d.pc = "create" /\ UNCHANGED <<projects, origin, hunting>>
        /\ deciding' = [deciding EXCEPT ![c] = P!NoDecision]
    BY <1>5 DEF P!CreateFromProposal, P!Release
  <2> QED BY <1>1, <2>1, ProjectReleases DEF Approving
<1>6. CASE P!CreateFromProposal(c) /\ ~(P!Exists(p.name) \/ account[p.by] = "gone")
  <2>1. /\ d.pc = "create" /\ UNCHANGED hunting
        /\ projects[p.name] = NoUser /\ account[p.by] # "gone"
        /\ projects' = [projects EXCEPT ![p.name] = p.by]
        /\ origin' = [origin EXCEPT ![p.name] = i]
        /\ deciding' = [deciding EXCEPT ![c].pc = "assign"]
    BY <1>6 DEF P!CreateFromProposal, P!AddProject, P!Exists
  <2>2. /\ DOMAIN deciding' = Deciders /\ deciding'[c].pc = "assign"
        /\ deciding'[c].index = i /\ deciding'[c].verdict = "approved"
        /\ \A o \in Deciders : o # c => deciding'[o] = deciding[o]
    <3>1. DOMAIN deciding = Deciders
      BY DEF ProjectInv, ProjectTypes
    <3> QED BY <1>2, <2>1, <3>1
  <2>3. /\ origin[p.name] = 0 /\ origin'[p.name] = i /\ i # 0
        /\ \A n \in Names : n # p.name => origin'[n] = origin[n] /\ projects'[n] = projects[n]
        /\ projects'[p.name] = p.by
    BY <1>2, <1>3, <2>1 DEF ProjectInv, ProjectTypes, ProjectRows
  <2>4. \A j \in 1..Len(proposals) : MadeFrom(j) => MadeFrom(j)'
    <3>1. \A j \in 1..Len(proposals) : proposals[j].name \in Names
      <4>1. \A j \in 1..Len(proposals) : proposals[j] \in Proposed
        <5> HIDE DEF Proposed
        <5> QED BY DEF ProjectInv, ProjectTypes
      <4> QED BY <4>1 DEF Proposed
    <3>2. \A j \in 1..Len(proposals) : j # 0
      OBVIOUS
    <3> QED BY <1>1, <2>3, <3>1, <3>2 DEF MadeFrom
  <2>5. DecisionHolds(c)'
    BY <1>1, <1>2, <2>2, <2>3 DEF DecisionHolds, MadeFrom
  <2>6. ASSUME NEW o \in Deciders, o # c PROVE DecisionHolds(o)'
    BY <1>1, <2>2, <2>4, <2>6 DEF ProjectInv, ProjectRows, DecisionHolds, P!NoDecision
  <2>7. ProjectTypes'
    BY <1>1, <1>2, <1>3, <2>1, <2>2 DEF ProjectInv, ProjectTypes
  <2>8. \A n \in Names : projects'[n] # NoUser => account'[projects'[n]] # "gone"
    BY <2>1, <2>3 DEF ProjectInv, ProjectRows, people
  <2>9. \A n \in Names : origin'[n] # 0 =>
          /\ projects'[n] # NoUser
          /\ origin'[n] \in 1..Len(proposals) /\ proposals[origin'[n]].name = n
    <3>1. p.by # NoUser /\ p.name = proposals[i].name /\ i \in 1..Len(proposals)
      BY <1>2, <1>3, AccountsAssumption
    <3> QED BY <2>3, <3>1 DEF ProjectInv, ProjectRows
  <2>10. ProjectRows'
    BY <1>1, <2>4, <2>5, <2>6, <2>8, <2>9 DEF ProjectInv, ProjectRows, people
  <2>11. ASSUME InHand PROVE InHand'
    <3>1. \A o \in Deciders : o # c => deciding'[o].pc = "idle"
      BY <1>1, <2>2, <2>11 DEF InHand
    <3>2. \A n \in Names : origin[n] # 0 => Settled(origin[n])
      BY <1>1, <2>1, <2>11 DEF InHand, Approving
    <3>3. ASSUME NEW n \in Names, origin'[n] # 0
          PROVE  Settled(origin[n])' \/ \E o \in Deciders : Approving(o, origin[n])'
      <4>1. CASE n = p.name
        BY <2>2, <2>3, <4>1 DEF Approving
      <4>2. CASE n # p.name
        BY <1>1, <2>1, <2>3, <3>2, <3>3, <4>2 DEF Settled, Row
      <4> QED BY <4>1, <4>2
    <3>4. \A n \in Names, v \in Users : invites'[n][v] = "accepted" => <<n, v>> \in hunting'
      BY <1>1, <2>1, <2>11 DEF InHand, Becoming
    <3> QED BY <2>2, <3>1, <3>3, <3>4 DEF InHand
  <2> QED BY <2>7, <2>10, <2>11 DEF ProjectInv, Without
<1> QED BY <1>4, <1>5, <1>6

\* Calls that end.
LEMMA ProjectEnds ==
  ASSUME ProjectInv, UNCHANGED <<scene, people>>, NEW c \in Deciders,
         P!MarkProposal(c) \/ P!JoinProject(c) \/ P!DecisionError(c)
  PROVE  ProjectInv'
<1> DEFINE d == deciding[c]
           i == deciding[c].index
<1>0. P!NoDecision.pc = "idle" /\ DecisionHolds(c)
  BY DEF P!NoDecision, ProjectInv, ProjectRows
<1>1. CASE P!DecisionError(c)
  <2>1. deciding' = [deciding EXCEPT ![c] = P!NoDecision] /\ "decision_error" \in scene
        /\ UNCHANGED <<projects, origin, hunting, invites, proposals>>
    BY <1>1 DEF P!DecisionError, P!Release, P!catalogue
  <2> QED BY <2>1, ProjectReleases DEF Without
<1>2. ASSUME deciding' = [deciding EXCEPT ![c] = P!NoDecision]
      PROVE  /\ DOMAIN deciding' = Deciders /\ deciding'[c] = P!NoDecision
             /\ \A o \in Deciders : o # c => deciding'[o] = deciding[o]
  BY <1>2 DEF ProjectInv, ProjectTypes
<1>3. CASE P!JoinProject(c)
  <2>1. /\ d.pc = "join" /\ deciding' = [deciding EXCEPT ![c] = P!NoDecision]
        /\ UNCHANGED <<projects, origin, invites, proposals>>
        /\ \A row \in hunting : row \in hunting'
        /\ account[d.user] # "gone" => <<d.name, d.user>> \in hunting'
    BY <1>3 DEF P!JoinProject, P!Release, P!Joined
  <2>2. /\ DOMAIN deciding' = Deciders /\ deciding'[c] = P!NoDecision
        /\ \A o \in Deciders : o # c => deciding'[o] = deciding[o]
    BY <1>2, <2>1
  <2>3. DecisionHolds(c)'
    BY <1>0, <2>2 DEF DecisionHolds, P!NoDecision
  <2>4. ASSUME NEW o \in Deciders, o # c PROVE DecisionHolds(o)'
    BY <2>1, <2>2, <2>4 DEF ProjectInv, ProjectRows, DecisionHolds, MadeFrom, P!NoDecision
  <2>5. ProjectTypes' /\ ProjectRows'
    BY <2>1, <2>2, <2>3, <2>4 DEF ProjectInv, ProjectTypes, ProjectRows, MadeFrom, people
  <2>6. ASSUME InHand PROVE InHand'
    <3>1. \A o \in Deciders : o # c => deciding[o].pc = "idle"
      BY <2>1, <2>6 DEF InHand
    <3>2. \A o \in Deciders : deciding'[o].pc = "idle"
      BY <1>0, <2>2, <3>1
    <3>3. \A n \in Names : origin'[n] # 0 => Settled(origin[n])'
      BY <2>1, <2>6, <3>1 DEF InHand, Settled, Approving, Row
    <3>4. ASSUME NEW n \in Names, NEW u \in Users, invites[n][u] = "accepted"
          PROVE  <<n, u>> \in hunting'
      <4>1. account[u] # "gone"
        BY <3>4 DEF ProjectInv, ProjectRows
      <4>2. <<n, u>> \in hunting \/ Becoming(c, n, u)
        BY <2>6, <3>1, <3>4 DEF InHand, Becoming
      <4> QED BY <2>1, <4>1, <4>2 DEF Becoming
    <3> QED BY <2>1, <3>2, <3>3, <3>4 DEF InHand
  <2> QED BY <2>5, <2>6 DEF ProjectInv, Without
<1>4. CASE P!MarkProposal(c)
  <2>1. /\ d.pc = "mark" /\ deciding' = [deciding EXCEPT ![c] = P!NoDecision]
        /\ UNCHANGED <<projects, origin, hunting, invites>>
        /\ proposals' = IF proposals[i].status = "gone" THEN proposals
                        ELSE [proposals EXCEPT ![i].status = d.verdict]
    BY <1>4 DEF P!MarkProposal, P!Release
  <2>2. /\ i \in 1..Len(proposals) /\ d.verdict \in {"approved", "rejected"}
        /\ d.verdict = "approved" => MadeFrom(i)
    BY <1>0, <2>1 DEF DecisionHolds
  <2>3. /\ DOMAIN deciding' = Deciders /\ deciding'[c] = P!NoDecision
        /\ \A o \in Deciders : o # c => deciding'[o] = deciding[o]
    BY <1>2, <2>1
  <2>4. \A j \in 1..Len(proposals) : proposals[j] \in Proposed
    <3> HIDE DEF Proposed
    <3> QED BY DEF ProjectInv, ProjectTypes
  <2>5. /\ proposals' \in Seq(Proposed) /\ Len(proposals') = Len(proposals)
        /\ \A j \in 1..Len(proposals) :
             /\ proposals'[j].name = proposals[j].name /\ proposals'[j].by = proposals[j].by
             /\ proposals'[j].status = IF j = i /\ proposals[i].status # "gone" THEN d.verdict
                                       ELSE proposals[j].status
    <3>1. CASE proposals[i].status = "gone"
      BY <2>1, <3>1 DEF ProjectInv, ProjectTypes
    <3>2. CASE proposals[i].status # "gone"
      <4> DEFINE q == [proposals[i] EXCEPT !.status = d.verdict]
      <4>1. q \in Proposed /\ q.name = proposals[i].name /\ q.by = proposals[i].by /\ q.status = d.verdict
        BY <2>2, <2>4 DEF Proposed
      <4>2. proposals' = [proposals EXCEPT ![i] = q]
        BY <2>1, <3>2
      <4> HIDE DEF q
      <4>3. /\ proposals' \in Seq(Proposed) /\ Len(proposals') = Len(proposals)
            /\ \A j \in 1..Len(proposals) : proposals'[j] = IF j = i THEN q ELSE proposals[j]
        <5> HIDE DEF Proposed
        <5> QED BY <2>2, <4>1, <4>2 DEF ProjectInv, ProjectTypes
      <4> QED BY <3>2, <4>1, <4>3
    <3> QED BY <3>1, <3>2
  <2>6. \A j \in 1..Len(proposals) : MadeFrom(j)' = MadeFrom(j) /\ Row(j)' = Row(j)
    BY <2>1, <2>5 DEF MadeFrom, Row
  <2>7. DecisionHolds(c)'
    BY <1>0, <2>3 DEF DecisionHolds, P!NoDecision
  <2>8. ASSUME NEW o \in Deciders, o # c PROVE DecisionHolds(o)'
    BY <2>3, <2>5, <2>6, <2>8 DEF ProjectInv, ProjectRows, DecisionHolds, P!NoDecision
  <2>9. ProjectTypes'
    BY <2>1, <2>3, <2>5 DEF ProjectInv, ProjectTypes
  <2>10. \A j \in 1..Len(proposals) : proposals'[j].status = "approved" => MadeFrom(j)'
    BY <2>2, <2>5, <2>6 DEF ProjectInv, ProjectRows
  <2>11. ProjectRows'
    BY <2>1, <2>5, <2>7, <2>8, <2>10 DEF ProjectInv, ProjectRows, people
  <2>12. ASSUME InHand PROVE InHand'
    <3>1. \A o \in Deciders : o # c => deciding[o].pc = "idle"
      BY <2>1, <2>12 DEF InHand
    <3>2. \A o \in Deciders : deciding'[o].pc = "idle"
      BY <1>0, <2>3, <3>1
    <3>3. ASSUME NEW n \in Names, origin[n] # 0
          PROVE  Settled(origin[n])'
      <4>1. origin[n] \in 1..Len(proposals) /\ proposals[origin[n]].name = n
        BY <3>3 DEF ProjectInv, ProjectRows
      <4>2. CASE origin[n] # i
        <5>1. Settled(origin[n])
          BY <2>12, <3>1, <3>3, <4>2 DEF InHand, Approving
        <5> QED BY <2>1, <2>5, <2>6, <4>1, <4>2, <5>1 DEF Settled
      <4>3. CASE origin[n] = i
        <5>1. d.verdict = "approved" /\ (Row(i) \in hunting \/ proposals[i].status = "gone")
          BY <2>1, <2>2, <2>12, <4>1, <4>3 DEF InHand, MadeFrom
        <5> QED BY <2>1, <2>2, <2>5, <2>6, <4>3, <5>1 DEF Settled
      <4> QED BY <4>2, <4>3
    <3>4. \A n \in Names, v \in Users : invites'[n][v] = "accepted" => <<n, v>> \in hunting'
      BY <2>1, <2>12, <3>1 DEF InHand, Becoming
    <3> QED BY <2>1, <3>2, <3>3, <3>4 DEF InHand
  <2> QED BY <2>9, <2>11, <2>12 DEF ProjectInv, Without
<1> QED BY <1>1, <1>3, <1>4

\* Every step of a decision or of the catalogue.
LEMMA ProjectSteps ==
  ASSUME ProjectInv, P!ProposalStep, UNCHANGED <<scene, people>>
  PROVE  ProjectInv'
BY ProjectBegins, ProjectGoesOn, ProjectEnds, ProjectUndecided DEF P!ProposalStep

-------------------------------------------------------------------------------
(* The whole of it.                                                        *)

AccountsInv == PeopleInv /\ OwnersInv /\ FactorInv /\ ReferInv /\ WalletInv /\ TransferInv
               /\ ProjectInv

\* The invariant holds at first.
LEMMA AccountsInit ==
  ASSUME Init
  PROVE  AccountsInv
<1>1. PeopleInv
  BY DEF Init, G!GovernanceInit, PeopleInv, G!NoRequest
<1>2. FactorInv
  <2>1. FactorTypes /\ OfferedIsNew
    BY DEF Init, F!FactorsInit, FactorTypes, OfferedIsNew, Factored, F!NoFactorCall, F!NoFactor
  <2>2. RowsInForce /\ ~required
    BY DEF Init, F!FactorsInit, RowsInForce
  <2>3. \A c \in FactorCalls : factoring[c] = F!NoFactorCall
    BY DEF Init, F!FactorsInit
  <2>4. \A c \in FactorCalls : StillHolds(c)
    BY <2>3 DEF StillHolds, F!NoFactorCall
  <2> QED BY <2>1, <2>2, <2>3, <2>4 DEF FactorInv, Unhindered
<1>3. ReferInv
  BY DEF Init, R!ReferralsInit, ReferInv
<1>4. WalletInv
  <2>1. \A u \in Users : /\ DOMAIN wallet[u] = WalletFields /\ wallet[u].address \in {0, 1}
                         /\ wallet[u].status \in {"none", "ready"}
                         /\ wallet[u].status = "ready" => wallet[u].address = 1
    BY DEF Init, W!ProvisioningInit, WalletFields
  <2>2. /\ DOMAIN wallet = Users /\ barred = [u \in Users |-> FALSE] /\ walletOn = TRUE
        /\ custody = [u \in Users |-> wallet[u].address] /\ platform = 0
        /\ ensuring = [c \in WalletCalls |-> W!NoEnsure]
    BY DEF Init, W!ProvisioningInit
  <2> QED BY <2>1, <2>2
          DEF WalletInv, WalletTypes, KeptDisabled, OnePlatform, Kept, EnsureFields, W!NoEnsure
<1>5. TransferInv
  BY DEF Init, T!TransfersInit, TransferInv, T!NoTransfer
<1>6. OwnersInv
  <2>1. /\ applications = [u \in Users |-> <<>>]
        /\ governing = [c \in Governors |-> G!NoRequest] /\ G!NoRequest.pc = "idle"
    BY DEF Init, G!GovernanceInit, G!NoRequest
  <2>2. \A u \in Users : roles[u] = (IF account[u] = "gone" THEN {} ELSE FirstRoles[u])
                         /\ account[u] \in {"active", "gone"}
                         /\ (u \notin Newcomers => account[u] = "active")
    BY DEF Init, G!GovernanceInit
  <2>3. G!Owners # {} /\ \A u \in G!Owners : account[u] = "active"
    BY <2>2, AccountsAssumption DEF G!Owners
  <2>4. \A u \in Users : OnePending(u)
    BY <2>1 DEF OnePending, G!Pending
  <2>5. \A c \in Governors : RequestHolds(c)
    BY <2>1 DEF RequestHolds
  <2>6. applications \in [Users -> Seq(Applied)]
    BY <2>1
  <2> QED BY <2>1, <2>3, <2>4, <2>5, <2>6 DEF OwnersInv, OwnersKept
<1>7. ProjectInv
  <2>1. /\ projects = [n \in Names |-> NoUser] /\ origin = [n \in Names |-> 0]
        /\ invites = [n \in Names |-> [u \in Users |-> "none"]] /\ proposals = <<>>
        /\ deciding = [c \in Deciders |-> P!NoDecision] /\ P!NoDecision.pc = "idle"
    BY DEF Init, P!ProposalsInit, P!NoDecision
  <2>2. proposals \in Seq(Proposed) /\ Len(proposals) = 0
    BY <2>1
  <2>3. ProjectTypes
    BY <2>1, <2>2 DEF ProjectTypes, Answers
  <2>4. \A c \in Deciders : DecisionHolds(c)
    BY <2>1 DEF DecisionHolds
  <2>5. ProjectRows
    BY <2>1, <2>2, <2>4 DEF ProjectRows
  <2> QED BY <2>1, <2>3, <2>5 DEF ProjectInv, InHand
<1> QED BY <1>1, <1>2, <1>3, <1>4, <1>5, <1>6, <1>7 DEF AccountsInv

\* The invariant is kept by every step of every part.
LEMMA AccountsSteps ==
  ASSUME AccountsInv, [Next]_vars
  PROVE  AccountsInv'
<1> USE DEF AccountsInv
<1>0. UNCHANGED scene
  BY DEF Next, vars
<1>1. ASSUME UNCHANGED <<scene, people, governing>> PROVE PeopleInv'
  BY <1>1 DEF PeopleInv, people, Without
<1>2. ASSUME UNCHANGED <<people, scene>> PROVE \A u \in Users : F!Eligible(u)' => F!Eligible(u)
  BY <1>2 DEF people, F!Eligible
<1>3. ASSUME UNCHANGED <<people, scene, referralVars>> PROVE ReferInv'
  BY <1>3 DEF ReferInv, people, referralVars, Without, R!NoBinding
<1>10. UNCHANGED <<scene, people, governanceVars>> => OwnersInv'
  BY OwnersStutter
<1>4. UNCHANGED <<scene, walletVars>> => WalletInv'
  BY WalletStutter
<1>5. UNCHANGED <<scene, transferVars>> => TransferInv'
  BY TransferStutter
<1>6. CASE G!GovernanceStep /\ F!FactorsCascade /\ P!ProposalsCascade /\ R!ReferralsCascade
           /\ UNCHANGED <<walletVars, transferVars>>
  <2>1. PeopleInv' /\ (NoneGiven => \A u \in Users : F!Eligible(u)' => F!Eligible(u))
    BY <1>0, <1>6, GovernanceSteps DEF NoneGiven
  <2>2. ProjectInv'
    BY <1>0, <1>6, OwnersStay, ProjectCascade
  <2> QED BY <2>2, <1>0, <1>4, <1>5, <1>6, <2>1, OwnersSteps, FactorCascade, ReferCascade
<1>11. UNCHANGED <<scene, people, proposalVars>> => ProjectInv'
  BY ProjectStutter DEF people
<1>7. CASE F!FactorStep /\ UNCHANGED <<people, governanceVars, proposalVars, walletVars,
                                      transferVars, referralVars>>
  BY <1>11, <1>0, <1>1, <1>3, <1>4, <1>5, <1>7, <1>10, FactorSteps DEF governanceVars
<1>8. CASE R!ReferralStep /\ UNCHANGED <<governanceVars, factorVars, proposalVars, walletVars,
                                        transferVars>>
  <2>1. /\ PeopleInv' /\ \A u \in Users : F!Eligible(u)' => F!Eligible(u)
        /\ \A u \in Users : account'[u] = "gone" => account[u] = "gone"
    BY <1>0, <1>8, ReferralPeople DEF governanceVars
  <2>2. FactorInv'
    BY <1>0, <1>8, <2>1, FactorStutter
  <2>3. ReferInv'
    BY <1>0, <1>8, ReferSteps DEF PeopleInv
  <2>4. OwnersInv'
    BY <1>0, <1>8, OwnersReferral
  <2>5. ProjectInv'
    BY <1>0, <1>8, <2>1, ProjectStutter
  <2> QED BY <1>0, <1>4, <1>5, <1>8, <2>1, <2>2, <2>3, <2>4, <2>5
<1>9. CASE /\ UNCHANGED <<people, governanceVars, factorVars, referralVars>>
           /\ P!ProposalStep \/ UNCHANGED proposalVars
  <2>1. PeopleInv' /\ OwnersInv' /\ FactorInv' /\ ReferInv'
    BY <1>0, <1>1, <1>2, <1>3, <1>9, <1>10, FactorStutter DEF governanceVars
  <2>2. WalletInv'
    <3>1. CASE W!ProvisioningStep
      BY <1>0, <3>1, WalletSteps
    <3>2. CASE UNCHANGED walletVars
      BY <1>0, <1>4, <3>2
    <3> QED BY <1>9, <3>1, <3>2 DEF Next, vars
  <2>3. TransferInv'
    <3>1. CASE T!TransferStep
      BY <1>0, <3>1, TransferSteps
    <3>2. CASE UNCHANGED transferVars
      BY <1>0, <1>5, <3>2
    <3> QED BY <1>9, <3>1, <3>2 DEF Next, vars
  <2>4. ProjectInv'
    <3>1. CASE P!ProposalStep
      BY <1>0, <1>9, <3>1, ProjectSteps
    <3>2. CASE UNCHANGED proposalVars
      BY <1>0, <1>9, <1>11, <3>2
    <3> QED BY <1>9, <3>1, <3>2
  <2> QED BY <2>1, <2>2, <2>3, <2>4
<1> QED BY <1>6, <1>7, <1>8, <1>9 DEF Next, vars

\* Profiles, second factors, referrers, wallets and transfers agree as
\* described above, in every scene.
THEOREM AccountsCorrect == Spec => []AccountsInv
BY AccountsInit, AccountsSteps, PTL DEF Spec

\* Sessions and recovery codes belong to the factor in force, and a policy
\* that requires the factor is kept, however many administrators there are.
THEOREM TwoFactorAgreesCorrect == Spec => []TwoFactorAgrees
<1>1. AccountsInv => TwoFactorAgrees
  <2>1. ASSUME FactorInv PROVE \A u \in Users : credential[u] # 0 => challenge[u] # credential[u]
    BY <2>1 DEF FactorInv, OfferedIsNew
  <2>2. ASSUME FactorInv, Without({"overlap_factors"})
        PROVE  /\ \A u \in Users :
                    /\ sessions[u] \subseteq {credential[u]} \ {0}
                    /\ {k.of : k \in codes[u]} \subseteq {credential[u]} \ {0}
               /\ required /\ Without({"roles", "applications"}) =>
                    \A u \in Users : F!Eligible(u) => credential[u] # 0
    <3>1. Unhindered
      BY <2>2 DEF FactorInv
    <3>2. RowsInForce /\ (required /\ NoneGiven => AllHave)
      BY <3>1 DEF Unhindered
    <3>3. \A u \in Users : {k.of : k \in codes[u]} \subseteq {credential[u]} \ {0}
      BY <3>2 DEF RowsInForce, InForce
    <3> QED BY <3>2, <3>3 DEF RowsInForce, InForce, NoneGiven, AllHave
  <2> QED BY <2>1, <2>2 DEF AccountsInv, TwoFactorAgrees
<1> QED BY <1>1, AccountsCorrect, PTL

\* Nobody is his own referrer, and without overlapping bindings a profile has
\* one referrer in its life and no two users are each other's.
THEOREM ReferralsAgreeCorrect == Spec => []ReferralsAgree
<1>1. AccountsInv => ReferralsAgree
  BY DEF AccountsInv, ReferInv, ReferralsAgree
<1> QED BY <1>1, AccountsCorrect, PTL

\* However provisioning overlaps or fails, a user has one wallet at the
\* custodian, the one his row names; and one an administrator disabled stays
\* so, and takes no part in transfers that begin later.
THEOREM WalletsAgreeCorrect == Spec => []WalletsAgree
<1>1. AccountsInv => WalletsAgree
  BY DEF AccountsInv, WalletInv, WalletTypes, KeptDisabled, OnePlatform, Kept, TransferInv,
         WalletsAgree
<1> QED BY <1>1, AccountsCorrect, PTL

\* Role changes that do not overlap leave an owner, and an active one unless
\* an owner leaves of himself or an inactive user is made one; and nobody has
\* two applications that wait for a decision.
THEOREM OwnersRemainCorrect == Spec => []OwnersRemain
<1>1. ASSUME OwnersKept
      PROVE  /\ G!Owners # {}
             /\ OwnersOnlyActive => G!ActiveOwners # {}
             /\ \A u \in Users : Cardinality(G!Pending(u)) <= 1
  <2>1. \A u \in Users : Cardinality(G!Pending(u)) <= 1
    <3>1. ASSUME NEW u \in Users, G!Pending(u) # {} PROVE Cardinality(G!Pending(u)) <= 1
      <4>1. PICK i : G!Pending(u) = {i}
        BY <1>1, <3>1 DEF OwnersKept, OnePending
      <4> QED BY <4>1, FS_Singleton
    <3> QED BY <3>1, FS_EmptySet
  <2> QED BY <1>1, <2>1 DEF OwnersKept, G!ActiveOwners
<1>2. AccountsInv => OwnersRemain
  BY <1>1 DEF AccountsInv, OwnersInv, OwnersRemain, OwnersOnlyActive
<1> QED BY <1>2, AccountsCorrect, PTL

\* A project's owner has a profile, an approved proposal has a project made
\* from it, and without overlaps and errors whoever was approved or accepted
\* is among the hunters, however many calls decide.
THEOREM ProjectsAgreeCorrect == Spec => []ProjectsAgree
<1>1. ASSUME ProjectInv PROVE ProjectsAgree
  <2>1. ASSUME InHand, NEW n \in Names, origin[n] # 0, ~InDecision(origin[n])
        PROVE  \/ proposals[origin[n]].status = "gone"
               \/ /\ proposals[origin[n]].status = "approved"
                  /\ <<n, proposals[origin[n]].by>> \in hunting
    <3>1. Settled(origin[n]) /\ proposals[origin[n]].name = n
      BY <1>1, <2>1 DEF InHand, Approving, InDecision, ProjectInv, ProjectRows
    <3> QED BY <3>1 DEF Settled, Row
  <2>2. InHand => \A n \in Names, u \in Users :
          invites[n][u] = "accepted" /\ ~Joining(n, u) => <<n, u>> \in hunting
    BY DEF InHand, Becoming, Joining
  <2>3. \A i \in 1..Len(proposals) :
          proposals[i].status = "approved" => origin[proposals[i].name] = i
    BY <1>1 DEF ProjectInv, ProjectRows, MadeFrom
  <2> QED BY <1>1, <2>1, <2>2, <2>3 DEF ProjectsAgree, ProjectInv, ProjectRows
<1>2. AccountsInv => ProjectsAgree
  BY <1>1 DEF AccountsInv
<1> QED BY <1>2, AccountsCorrect, PTL

-------------------------------------------------------------------------------
(* Balances and limits.                                                    *)

KycRows == [status : {"not_submitted", "pending", "approved", "rejected"},
            tier : Tiers \cup DOMAIN LimitOf]
FromUser(u) == {i \in 1..Len(entries) : entries[i].from = u}
ToUser(u) == {i \in 1..Len(entries) : entries[i].to = u}
Flying(c) == transferring[c] # T!NoTransfer

\* What a call checked, unless another one overlapped with it: the amount it
\* will record still fits the day, whichever day that is.
LimitsKept ==
  /\ \A c, o \in TransferCalls : c = o \/ ~Flying(c) \/ ~Flying(o)
  /\ \A c \in TransferCalls : Flying(c) /\ transferring[c].limit > 0 =>
       Total(T!AmountOf, T!OfDay(transferring[c].from, today)) + transferring[c].amount
         <= transferring[c].limit
  /\ \A i \in 1..Len(entries) : entries[i].limit > 0 => UsedUpTo(i) <= entries[i].limit

BooksInv ==
  /\ balance \in [Users -> Nat] /\ today \in 0..LastDay
  /\ kyc \in [Users -> KycRows]
  /\ \A u \in Users : kyc[u].status = "approved" => kyc[u].tier \in DOMAIN LimitOf
  /\ \A c \in TransferCalls : Flying(c) => transferring[c].from # transferring[c].to
  /\ \A i \in 1..Len(entries) : entries[i].day \in 0..today
  /\ \A u \in Users : balance[u] = FirstBalance[u] + Total(T!AmountOf, ToUser(u))
                                                   - Total(T!AmountOf, FromUser(u))
  /\ \A i, j \in 1..Len(entries) : entries[i].key = entries[j].key => i = j
  /\ Without({"overlap_transfers"}) => LimitsKept

\* Totals are the same whichever module counts them.
LEMMA TransferTotal ==
  ASSUME NEW f, NEW S_1
  PROVE  T!Total(f, S_1) = Total(f, S_1)
BY Zenon DEF T!Total, Total, T!MapThenSumSet, MapThenSumSet, T!MapThenFoldSet, MapThenFoldSet

\* Any selection of entries adds up to a number.
LEMMA AmountsTotal ==
  ASSUME TransferInv, NEW I \in SUBSET (1..Len(entries))
  PROVE  /\ IsFiniteSet(I) /\ \A i \in I : T!AmountOf[i] = entries[i].amount /\ T!AmountOf[i] \in Nat
         /\ Total(T!AmountOf, I) \in Nat
<1>1. entries \in Seq(EntryRows) /\ Len(entries) \in Nat
  BY DEF TransferInv
<1>2. IsFiniteSet(I)
  <2>1. IsFiniteSet(1..Len(entries))
    BY <1>1, FS_Interval
  <2> QED BY <2>1, FS_Subset
<1>3. \A i \in 1..Len(entries) : entries[i] \in EntryRows
  BY <1>1
<1>4. \A i \in I : T!AmountOf[i] = entries[i].amount /\ T!AmountOf[i] \in Nat
  BY <1>3, AccountsAssumption DEF T!AmountOf, EntryRows
<1>5. Total(T!AmountOf, I) \in Nat
  <2>1. \A i \in I : T!AmountOf[i] \in Nat
    BY <1>4
  <2> QED BY <1>2, <2>1, TotalOfPart
<1> QED BY <1>2, <1>4, <1>5

\* An entry that is added counts where it is selected.
LEMMA EntryAdded ==
  ASSUME TransferInv, NEW e \in EntryRows, entries' = Append(entries, e),
         NEW I \in SUBSET (1..Len(entries))
  PROVE  /\ Total(T!AmountOf', I) = Total(T!AmountOf, I)
         /\ Total(T!AmountOf', I \cup {Len(entries) + 1}) = Total(T!AmountOf, I) + e.amount
<1> DEFINE n == Len(entries)
           f == T!AmountOf'
<1>1. /\ n \in Nat /\ Len(entries') = n + 1 /\ entries'[n + 1] = e
      /\ \A i \in 1..n : entries'[i] = entries[i]
  BY DEF TransferInv
<1>2. /\ IsFiniteSet(I) /\ \A i \in I : T!AmountOf[i] = entries[i].amount /\ T!AmountOf[i] \in Nat
      /\ Total(T!AmountOf, I) \in Nat
  BY AmountsTotal
<1>3. /\ \A i \in I : f[i] = T!AmountOf[i]
      /\ f[n + 1] = e.amount
  BY <1>1, <1>2 DEF T!AmountOf
<1>4. e.amount \in Nat
  BY AccountsAssumption DEF EntryRows
<1> HIDE DEF f
<1>5. Total(f, I) = Total(T!AmountOf, I)
  BY <1>2, <1>3, TotalAgrees
<1>6. Total(f, I \cup {n + 1}) = Total(f, I) + f[n + 1]
  <2>1. n + 1 \notin I /\ f[n + 1] \in Int /\ \A i \in I : f[i] \in Int
    BY <1>1, <1>2, <1>3, <1>4
  <2> DEFINE z == n + 1
  <2>2. z \notin I /\ f[z] \in Int
    BY <2>1
  <2> HIDE DEF z
  <2>3. Total(f, I \cup {z}) = Total(f, I) + f[z]
    BY <1>2, <2>1, <2>2, TotalWith
  <2> QED BY <2>3 DEF z
<1> QED BY <1>3, <1>5, <1>6 DEF f

\* A step that adds no entry and moves no money.
LEMMA BooksSame ==
  ASSUME TransferInv, BooksInv, UNCHANGED <<scene, balance, entries, today>>,
         kyc' \in [Users -> KycRows],
         \A u \in Users : kyc'[u].status = "approved" => kyc'[u].tier \in DOMAIN LimitOf,
         \A c \in TransferCalls : Flying(c)' =>
           \/ transferring'[c] = transferring[c]
           \/ /\ transferring'[c].from # transferring'[c].to
              /\ Without({"overlap_transfers"}) =>
                   /\ \A o \in TransferCalls : ~Flying(o) /\ (o # c => ~Flying(o)')
                   /\ transferring'[c].limit > 0 =>
                        Total(T!AmountOf, T!OfDay(transferring'[c].from, today))
                          + transferring'[c].amount <= transferring'[c].limit
  PROVE  BooksInv'
<1>1. /\ \A u : FromUser(u)' = FromUser(u) /\ ToUser(u)' = ToUser(u)
      /\ T!AmountOf' = T!AmountOf
      /\ \A i \in 1..Len(entries) : UsedUpTo(i)' = UsedUpTo(i)
      /\ \A u, d : T!OfDay(u, d)' = T!OfDay(u, d)
  BY DEF FromUser, ToUser, T!AmountOf, UsedUpTo, T!OfDay
<1>2. ASSUME Without({"overlap_transfers"}) PROVE LimitsKept'
  <2>1. LimitsKept
    BY <1>2 DEF BooksInv
  <2>2. ASSUME NEW c \in TransferCalls, NEW o \in TransferCalls, c # o, Flying(c)', Flying(o)' PROVE FALSE
    BY <1>2, <2>1, <2>2 DEF LimitsKept, Flying, T!NoTransfer
  <2>3. ASSUME NEW c \in TransferCalls, Flying(c)', transferring'[c].limit > 0
        PROVE  Total(T!AmountOf, T!OfDay(transferring'[c].from, today)) + transferring'[c].amount
                 <= transferring'[c].limit
    BY <1>2, <2>1, <2>3 DEF LimitsKept, Flying, T!NoTransfer
  <2>4. \A c \in TransferCalls : \A t : t = transferring'[c] /\ Flying(c)' /\ t.limit > 0 =>
          Total(T!AmountOf, T!OfDay(t.from, today))' + t.amount <= t.limit
    BY <1>1, <2>3
  <2> QED BY <1>1, <2>1, <2>2, <2>4 DEF LimitsKept
<1>3. \A c \in TransferCalls : Flying(c)' => transferring'[c].from # transferring'[c].to
  BY DEF BooksInv, Flying, T!NoTransfer
<1> QED BY <1>1, <1>2, <1>3 DEF BooksInv, Without

\* A day passes: nothing has been used of the new one.
LEMMA BooksNextDay ==
  ASSUME TransferInv, BooksInv, UNCHANGED scene, T!NextDay
  PROVE  BooksInv'
<1>1. /\ UNCHANGED <<balance, entries, kyc, transferring>>
      /\ today \in 0..LastDay /\ today' = today + 1 /\ today < LastDay
  BY DEF T!NextDay, BooksInv
<1>2. /\ \A u : FromUser(u)' = FromUser(u) /\ ToUser(u)' = ToUser(u)
      /\ T!AmountOf' = T!AmountOf
      /\ \A i \in 1..Len(entries) : UsedUpTo(i)' = UsedUpTo(i)
      /\ \A u, d : T!OfDay(u, d)' = T!OfDay(u, d)
  BY <1>1 DEF FromUser, ToUser, T!AmountOf, UsedUpTo, T!OfDay
<1>3. today' \in 0..LastDay /\ \A i \in 1..Len(entries) : entries[i].day \in 0..today'
  BY <1>1, AccountsAssumption DEF BooksInv
<1>4. \A c : Flying(c)' = Flying(c)
  BY <1>1 DEF Flying, T!NoTransfer
<1>5. ASSUME LimitsKept PROVE LimitsKept'
  <2>1. ASSUME NEW c \in TransferCalls, Flying(c), transferring[c].limit > 0
        PROVE  Total(T!AmountOf, T!OfDay(transferring[c].from, today'))
                 + transferring[c].amount <= transferring[c].limit
    <3> DEFINE u == transferring[c].from
    <3>1. T!OfDay(u, today') = {}
      BY <1>1 DEF T!OfDay, BooksInv
    <3>2. Total(T!AmountOf, T!OfDay(u, today')) = 0
      BY Zenon, <3>1, TotalOfNone
    <3>3. Total(T!AmountOf, T!OfDay(u, today)) \in Nat
      BY AmountsTotal DEF T!OfDay
    <3>4. Total(T!AmountOf, T!OfDay(u, today)) + transferring[c].amount <= transferring[c].limit
      BY <1>5, <2>1 DEF LimitsKept
    <3>5. transferring[c].amount \in Nat /\ transferring[c].limit \in Nat
      BY <2>1, AccountsAssumption DEF TransferInv, Flights, Flying, Limits
    <3> HIDE DEF u
    <3> QED BY <3>2, <3>3, <3>4, <3>5 DEF u
  <2>2. \A c \in TransferCalls : \A t : t = transferring'[c] /\ Flying(c)' /\ t.limit > 0 =>
          \A d : d = today' => Total(T!AmountOf, T!OfDay(t.from, d))' + t.amount <= t.limit
    BY <1>1, <1>2, <1>4, <2>1
  <2> QED BY <1>1, <1>2, <1>4, <1>5, <2>2 DEF LimitsKept
<1> QED BY <1>1, <1>2, <1>3, <1>4, <1>5 DEF BooksInv, Without

\* A transfer that commits is one more entry, and is within its limit.
LEMMA BooksCommit ==
  ASSUME TransferInv, BooksInv, UNCHANGED scene, NEW c \in TransferCalls, T!CommitTransfer(c)
  PROVE  BooksInv'
<1> PICK t : t = transferring[c]
  OBVIOUS
<1> DEFINE n == Len(entries)
           e == [from |-> t.from, to |-> t.to, key |-> t.key, amount |-> t.amount,
                 limit |-> t.limit, barred |-> t.barred, day |-> today]
<1>1. /\ t \in Flights /\ Flying(c) /\ UNCHANGED <<today, kyc>>
      /\ transferring' = [transferring EXCEPT ![c] = T!NoTransfer]
      /\ DOMAIN transferring = TransferCalls
  BY DEF T!CommitTransfer, TransferInv, Flying
<1>2. /\ \A o \in TransferCalls : Flying(o)' => o # c /\ transferring'[o] = transferring[o] /\ Flying(o)
      /\ T!NoTransfer' = T!NoTransfer
  BY <1>1 DEF Flying, T!NoTransfer
<1>3. CASE UNCHANGED <<balance, entries>>
  <2>1. kyc' \in [Users -> KycRows]
        /\ \A u \in Users : kyc'[u].status = "approved" => kyc'[u].tier \in DOMAIN LimitOf
    BY <1>1 DEF BooksInv
  <2> QED BY <1>1, <1>2, <1>3, <2>1, BooksSame
<1>4. CASE /\ ~T!Known(t.key) /\ balance[t.from] >= t.amount
           /\ balance' = [balance EXCEPT ![t.from] = @ - t.amount, ![t.to] = @ + t.amount]
           /\ entries' = Append(entries, e)
  <2>1. /\ t.from \in Users /\ t.to \in Users /\ t.from # t.to /\ t.amount \in Nat
        /\ t.limit \in Nat /\ today \in 0..LastDay /\ balance \in [Users -> Nat]
    BY <1>1, AccountsAssumption DEF Flights, BooksInv, Limits
  <2>2. /\ e \in EntryRows /\ e.from = t.from /\ e.to = t.to /\ e.key = t.key /\ e.amount = t.amount
        /\ e.limit = t.limit /\ e.day = today
    BY <1>1, <2>1, AccountsAssumption DEF Flights, EntryRows
  <2> HIDE DEF e
  <2>3. /\ n \in Nat /\ Len(entries') = n + 1 /\ entries'[n + 1] = e
        /\ \A i \in 1..n : entries'[i] = entries[i]
        /\ \A i \in 1..Len(entries') : i \in 1..n \/ i = n + 1
    BY <1>4, <2>2 DEF TransferInv
  <2>4. /\ \A u \in Users : balance'[u] = balance[u] - (IF u = t.from THEN t.amount ELSE 0)
                                                     + (IF u = t.to THEN t.amount ELSE 0)
        /\ balance' \in [Users -> Nat]
    <3>1. balance[t.from] \in Nat /\ balance[t.to] \in Nat /\ balance[t.from] >= t.amount
      BY <1>4, <2>1
    <3>2. balance' = [[balance EXCEPT ![t.from] = balance[t.from] - t.amount]
                               EXCEPT ![t.to] = balance[t.to] + t.amount]
      BY <1>4, <2>1
    <3>3. balance[t.from] - t.amount \in Nat /\ balance[t.to] + t.amount \in Nat
      BY <2>1, <3>1
    <3>4. /\ balance'[t.from] = balance[t.from] - t.amount
          /\ balance'[t.to] = balance[t.to] + t.amount
          /\ \A u \in Users \ {t.from, t.to} : balance'[u] = balance[u]
          /\ balance' \in [Users -> Nat]
      BY <2>1, <3>2, <3>3
    <3>5. ASSUME NEW u \in Users
          PROVE  balance'[u] = balance[u] - (IF u = t.from THEN t.amount ELSE 0)
                                          + (IF u = t.to THEN t.amount ELSE 0)
      <4>1. balance[u] \in Nat
        BY <2>1
      <4>2. CASE u = t.from
        BY <2>1, <3>4, <4>1, <4>2
      <4>3. CASE u = t.to
        BY <2>1, <3>4, <4>1, <4>3
      <4>4. CASE u \notin {t.from, t.to}
        BY <3>4, <4>1, <4>4
      <4> QED BY <4>2, <4>3, <4>4
    <3> QED BY <3>4, <3>5
  <2>5. ASSUME NEW u \in Users
        PROVE  /\ Total(T!AmountOf, ToUser(u))' =
                    Total(T!AmountOf, ToUser(u)) + (IF u = t.to THEN t.amount ELSE 0)
               /\ Total(T!AmountOf, FromUser(u))' =
                    Total(T!AmountOf, FromUser(u)) + (IF u = t.from THEN t.amount ELSE 0)
    <3>1. /\ ToUser(u)' = ToUser(u) \cup (IF u = t.to THEN {n + 1} ELSE {})
          /\ FromUser(u)' = FromUser(u) \cup (IF u = t.from THEN {n + 1} ELSE {})
      BY <2>2, <2>3 DEF ToUser, FromUser
    <3>2. ASSUME NEW I \in SUBSET (1..n)
          PROVE  /\ Total(T!AmountOf', I \cup {n + 1}) = Total(T!AmountOf, I) + t.amount
                 /\ Total(T!AmountOf', I \cup {}) = Total(T!AmountOf, I) + 0
      <4>1. /\ Total(T!AmountOf', I) = Total(T!AmountOf, I)
            /\ Total(T!AmountOf', I \cup {Len(entries) + 1}) = Total(T!AmountOf, I) + e.amount
            /\ Total(T!AmountOf, I) \in Nat
        BY <1>4, <2>2, EntryAdded, AmountsTotal
      <4>2. I \cup {} = I
        OBVIOUS
      <4>3. Total(T!AmountOf', I \cup {}) = Total(T!AmountOf', I)
        BY Zenon, <4>2
      <4> QED BY <2>2, <4>1, <4>3
    <3>3. ToUser(u) \in SUBSET (1..n) /\ FromUser(u) \in SUBSET (1..n)
      BY DEF ToUser, FromUser
    <3>4. /\ Total(T!AmountOf', ToUser(u)') = Total(T!AmountOf, ToUser(u)) + (IF u = t.to THEN t.amount ELSE 0)
          /\ Total(T!AmountOf', FromUser(u)') = Total(T!AmountOf, FromUser(u)) + (IF u = t.from THEN t.amount ELSE 0)
      <4> HIDE DEF n
      <4>1. CASE u = t.to /\ u # t.from
        BY <3>1, <3>2, <3>3, <4>1
      <4>2. CASE u # t.to /\ u = t.from
        BY <3>1, <3>2, <3>3, <4>2
      <4>3. CASE u # t.to /\ u # t.from
        BY <3>1, <3>2, <3>3, <4>3
      <4> QED BY <2>1, <4>1, <4>2, <4>3
    <3> QED BY <3>4
  <2>6. \A u \in Users : balance'[u] = FirstBalance[u] + Total(T!AmountOf, ToUser(u))'
                                                       - Total(T!AmountOf, FromUser(u))'
    <3> TAKE u \in Users
    <3>1. /\ Total(T!AmountOf, ToUser(u)) \in Nat /\ Total(T!AmountOf, FromUser(u)) \in Nat
          /\ FirstBalance[u] \in Nat /\ balance[u] \in Nat
      <4>1. ToUser(u) \in SUBSET (1..Len(entries)) /\ FromUser(u) \in SUBSET (1..Len(entries))
        BY DEF ToUser, FromUser
      <4> QED BY <2>1, <4>1, AmountsTotal, AccountsAssumption
    <3>2. balance[u] = FirstBalance[u] + Total(T!AmountOf, ToUser(u)) - Total(T!AmountOf, FromUser(u))
      BY DEF BooksInv
    <3>3. CASE u = t.to /\ u # t.from
      <4>1. balance'[u] = balance[u] + t.amount
        BY <2>1, <2>4, <3>1, <3>3
      <4>2. /\ Total(T!AmountOf, ToUser(u))' = Total(T!AmountOf, ToUser(u)) + t.amount
            /\ Total(T!AmountOf, FromUser(u))' = Total(T!AmountOf, FromUser(u))
        BY <2>5, <3>1, <3>3
      <4> QED BY <2>1, <3>1, <3>2, <4>1, <4>2
    <3>4. CASE u # t.to /\ u = t.from
      <4>1. balance'[u] = balance[u] - t.amount
        BY <2>1, <2>4, <3>1, <3>4
      <4>2. /\ Total(T!AmountOf, ToUser(u))' = Total(T!AmountOf, ToUser(u))
            /\ Total(T!AmountOf, FromUser(u))' = Total(T!AmountOf, FromUser(u)) + t.amount
        BY <2>5, <3>1, <3>4
      <4> QED BY <2>1, <3>1, <3>2, <4>1, <4>2
    <3>5. CASE u # t.to /\ u # t.from
      <4>1. balance'[u] = balance[u]
        BY <2>4, <3>1, <3>5
      <4>2. /\ Total(T!AmountOf, ToUser(u))' = Total(T!AmountOf, ToUser(u))
            /\ Total(T!AmountOf, FromUser(u))' = Total(T!AmountOf, FromUser(u))
        BY <2>5, <3>1, <3>5
      <4> QED BY <3>2, <4>1, <4>2
    <3> QED BY <2>1, <3>3, <3>4, <3>5
  <2>7. \A i, j \in 1..Len(entries') : entries'[i].key = entries'[j].key => i = j
    BY <1>4, <2>2, <2>3 DEF BooksInv, T!Known
  <2>8. \A i \in 1..Len(entries') : entries'[i].day \in 0..today'
    BY <1>1, <2>1, <2>2, <2>3 DEF BooksInv
  <2>9. ASSUME LimitsKept PROVE LimitsKept'
    <3>1. ASSUME NEW i \in 1..Len(entries'), entries'[i].limit > 0
          PROVE  UsedUpTo(i)' <= entries'[i].limit
      <4>1. CASE i \in 1..n
        <5> DEFINE I == T!OfDay(entries[i].from, entries[i].day) \cap 1..i
        <5>1. (T!OfDay(entries[i].from, entries[i].day) \cap 1..i)' = I /\ I \in SUBSET (1..n)
          BY <2>3, <4>1 DEF T!OfDay
        <5> HIDE DEF I
        <5>2. Total(T!AmountOf', I) = Total(T!AmountOf, I)
          BY <1>4, <2>2, <5>1, EntryAdded
        <5>3. UsedUpTo(i)' = UsedUpTo(i)
          BY <5>1, <5>2 DEF UsedUpTo, I
        <5> QED BY <2>3, <2>9, <3>1, <4>1, <5>3 DEF LimitsKept
      <4>2. CASE i = n + 1
        <5> DEFINE I == T!OfDay(t.from, today)
        <5>1. (T!OfDay(entries[i].from, entries[i].day) \cap 1..i)' = I \cup {n + 1}
              /\ I \in SUBSET (1..n)
          BY <2>2, <2>3, <4>2 DEF T!OfDay
        <5> HIDE DEF I
        <5>2. Total(T!AmountOf', I \cup {Len(entries) + 1}) = Total(T!AmountOf, I) + e.amount
          BY <1>4, <2>2, <5>1, EntryAdded
        <5>3. UsedUpTo(i)' = Total(T!AmountOf, I) + t.amount
          BY <2>2, <5>1, <5>2 DEF UsedUpTo
        <5>4. t.limit > 0
          BY <2>2, <2>3, <3>1, <4>2
        <5>5. Total(T!AmountOf, I) + t.amount <= t.limit
          BY <1>1, <2>9, <5>4 DEF LimitsKept, I
        <5> QED BY <2>2, <2>3, <4>2, <5>3, <5>5
      <4> QED BY <2>3, <4>1, <4>2
    <3>2. \A o \in TransferCalls : ~Flying(o)'
      BY <1>1, <1>2, <2>9 DEF LimitsKept
    <3> QED BY <3>1, <3>2 DEF LimitsKept
  <2>10. \A o \in TransferCalls : Flying(o)' => transferring'[o].from # transferring'[o].to
    BY <1>2 DEF BooksInv
  <2>11. balance' \in [Users -> Nat] /\ today' \in 0..LastDay
         /\ kyc' \in [Users -> KycRows]
         /\ \A u \in Users : kyc'[u].status = "approved" => kyc'[u].tier \in DOMAIN LimitOf
    BY <1>1, <2>1, <2>4 DEF BooksInv
  <2> QED BY <2>6, <2>7, <2>8, <2>9, <2>10, <2>11 DEF BooksInv, Without
<1> QED BY <1>3, <1>4 DEF T!CommitTransfer, T!Covered

LEMMA BooksSteps ==
  ASSUME TransferInv, BooksInv, UNCHANGED scene, T!TransferStep
  PROVE  BooksInv'
<1>1. ASSUME NEW c \in TransferCalls, NEW u \in Payers, NEW v \in Payers, NEW amount \in Amounts,
             NEW key \in Keys, T!BeginTransfer(c, u, v, amount, key)
      PROVE  BooksInv'
  <2> DEFINE flight == [from |-> u, to |-> v, key |-> key, amount |-> amount,
                        limit |-> T!Limit(u), barred |-> barred[u] \/ barred[v]]
  <2>1. /\ transferring' = [transferring EXCEPT ![c] = flight]
        /\ UNCHANGED <<balance, entries, today, kyc>> /\ u # v /\ ~Flying(c)
        /\ "overlap_transfers" \in scene \/ \A o \in TransferCalls : ~Flying(o)
        /\ T!Limit(u) > 0 => T!Used(u, today) + amount <= T!Limit(u)
    BY <1>1 DEF T!BeginTransfer, T!transferRows, Flying, T!WithinLimit
  <2>2. flight.from = u /\ flight.to = v /\ flight.limit = T!Limit(u) /\ flight.amount = amount
    OBVIOUS
  <2> HIDE DEF flight
  <2>3. \A o \in TransferCalls : transferring'[o] = IF o = c THEN flight ELSE transferring[o]
    BY <2>1 DEF TransferInv
  <2>4. T!Used(u, today) = Total(T!AmountOf, T!OfDay(u, today))
    BY TransferTotal DEF T!Used
  <2>5. Without({"overlap_transfers"}) =>
          /\ \A o \in TransferCalls : ~Flying(o) /\ (o # c => ~Flying(o)')
          /\ transferring'[c].limit > 0 =>
               Total(T!AmountOf, T!OfDay(transferring'[c].from, today))
                 + transferring'[c].amount <= transferring'[c].limit
    <3> SUFFICES ASSUME Without({"overlap_transfers"})
                 PROVE  /\ \A o \in TransferCalls : ~Flying(o) /\ (o # c => ~Flying(o)')
                        /\ transferring'[c].limit > 0 =>
                             Total(T!AmountOf, T!OfDay(transferring'[c].from, today))
                               + transferring'[c].amount <= transferring'[c].limit
      OBVIOUS
    <3>1. \A o \in TransferCalls : ~Flying(o)
      BY <2>1 DEF Without
    <3>2. \A o \in TransferCalls : o # c => ~Flying(o)'
      BY <2>3, <3>1 DEF Flying, T!NoTransfer
    <3> QED BY <2>1, <2>2, <2>3, <2>4, <3>1, <3>2
  <2>6. \A o \in TransferCalls : Flying(o)' =>
          \/ transferring'[o] = transferring[o]
          \/ /\ transferring'[o].from # transferring'[o].to
             /\ Without({"overlap_transfers"}) =>
                  /\ \A p \in TransferCalls : ~Flying(p) /\ (p # o => ~Flying(p)')
                  /\ transferring'[o].limit > 0 =>
                       Total(T!AmountOf, T!OfDay(transferring'[o].from, today))
                         + transferring'[o].amount <= transferring'[o].limit
    BY <2>1, <2>2, <2>3, <2>5
  <2>7. kyc' \in [Users -> KycRows]
        /\ \A x \in Users : kyc'[x].status = "approved" => kyc'[x].tier \in DOMAIN LimitOf
    BY <2>1 DEF BooksInv
  <2> QED BY <2>1, <2>6, <2>7, BooksSame
<1>2. ASSUME kyc' \in [Users -> KycRows], UNCHANGED <<balance, entries, today, transferring>>,
             \A u \in Users : kyc'[u].status = "approved" => kyc'[u].tier \in DOMAIN LimitOf
      PROVE  BooksInv'
  BY <1>2, BooksSame
<1>3. ASSUME NEW u \in Applicants, T!SubmitKyc(u) PROVE BooksInv'
  <2>1. kyc' = [kyc EXCEPT ![u].status = "pending"]
        /\ UNCHANGED <<balance, entries, today, transferring>>
    BY <1>3 DEF T!SubmitKyc
  <2>2. kyc \in [Users -> KycRows]
        /\ \A v \in Users : kyc[v].status = "approved" => kyc[v].tier \in DOMAIN LimitOf
    BY DEF BooksInv
  <2> DEFINE row == [kyc[u] EXCEPT !.status = "pending"]
  <2>3. kyc' = [kyc EXCEPT ![u] = row] /\ (u \in Users => row \in KycRows) /\ row.status # "approved"
    <3>1. u \in Users => kyc[u] \in KycRows
      BY <2>2
    <3>2. kyc' = [kyc EXCEPT ![u] = row]
      BY <2>1
    <3>3. u \in Users => row.status = "pending" /\ row \in KycRows
      BY <3>1 DEF KycRows
    <3> QED BY <1>3, <3>2, <3>3, AccountsAssumption
  <2> HIDE DEF row
  <2>4. kyc' \in [Users -> KycRows]
        /\ \A v \in Users : kyc'[v].status = "approved" => kyc'[v].tier \in DOMAIN LimitOf
    BY <2>2, <2>3
  <2> QED BY <1>2, <2>1, <2>4
<1>4. ASSUME NEW u \in Applicants, NEW verdict \in {"approved", "rejected"},
             NEW asked \in Tiers \cup {""}, T!ReviewKyc(u, verdict, asked)
      PROVE  BooksInv'
  <2> DEFINE tier == IF asked = "" THEN kyc[u].tier ELSE asked
             row == [status |-> verdict, tier |-> tier]
  <2>1. /\ kyc' = [kyc EXCEPT ![u] = row]
        /\ UNCHANGED <<balance, entries, today, transferring>>
        /\ verdict = "approved" => tier \in DOMAIN LimitOf
    BY <1>4 DEF T!ReviewKyc, T!TierAllowed
  <2>2. kyc \in [Users -> KycRows]
        /\ \A v \in Users : kyc[v].status = "approved" => kyc[v].tier \in DOMAIN LimitOf
    BY DEF BooksInv
  <2>3. u \in Users => tier \in Tiers \cup DOMAIN LimitOf
    <3>1. u \in Users => kyc[u] \in KycRows
      BY <2>2
    <3> QED BY <3>1 DEF KycRows
  <2> HIDE DEF tier
  <2>4. u \in Users => row \in KycRows /\ (row.status = "approved" => row.tier \in DOMAIN LimitOf)
    BY <2>1, <2>3 DEF KycRows
  <2> HIDE DEF row
  <2>5. kyc' \in [Users -> KycRows]
        /\ \A v \in Users : kyc'[v].status = "approved" => kyc'[v].tier \in DOMAIN LimitOf
    BY <2>1, <2>2, <2>4
  <2> QED BY <1>2, <2>1, <2>5
<1> QED BY <1>1, <1>3, <1>4, BooksCommit, BooksNextDay DEF T!TransferStep

LEMMA BooksCorrect == Spec => []BooksInv
<1>1. Init => BooksInv
  <2> SUFFICES ASSUME Init PROVE BooksInv
    OBVIOUS
  <2>1. /\ balance = FirstBalance /\ entries = <<>> /\ today = 0
        /\ kyc = [u \in Users |-> [status |-> "not_submitted", tier |-> "basic"]]
        /\ transferring = [c \in TransferCalls |-> T!NoTransfer]
    BY DEF Init, T!TransfersInit
  <2>2. Len(entries) = 0 /\ 1..0 = {}
    BY <2>1
  <2>3. \A u \in Users : Total(T!AmountOf, ToUser(u)) = 0 /\ Total(T!AmountOf, FromUser(u)) = 0
    <3> TAKE u \in Users
    <3>1. ToUser(u) = {} /\ FromUser(u) = {}
      BY <2>2 DEF ToUser, FromUser
    <3> QED BY Zenon, <3>1, TotalOfNone
  <2>4. \A u \in Users : balance[u] = FirstBalance[u] + Total(T!AmountOf, ToUser(u))
                                                      - Total(T!AmountOf, FromUser(u))
    BY <2>1, <2>3, AccountsAssumption
  <2>5. kyc \in [Users -> KycRows]
    BY <2>1, AccountsAssumption DEF KycRows
  <2>6. \A c \in TransferCalls : ~Flying(c)
    BY <2>1 DEF Flying
  <2> QED BY <2>1, <2>2, <2>4, <2>5, <2>6, AccountsAssumption DEF BooksInv, LimitsKept
<1>2. AccountsInv /\ BooksInv /\ [Next]_vars => BooksInv'
  <2> SUFFICES ASSUME AccountsInv, BooksInv, [Next]_vars PROVE BooksInv'
    OBVIOUS
  <2>1. TransferInv /\ UNCHANGED scene
    BY DEF AccountsInv, Next, vars
  <2>2. CASE T!TransferStep
    BY <2>1, <2>2, BooksSteps
  <2>3. CASE UNCHANGED transferVars
    <3>1. kyc' \in [Users -> KycRows]
          /\ \A u \in Users : kyc'[u].status = "approved" => kyc'[u].tier \in DOMAIN LimitOf
      BY <2>3 DEF BooksInv, transferVars
    <3> QED BY <2>1, <2>3, <3>1, BooksSame DEF transferVars
  <2> QED BY <2>2, <2>3 DEF Next, vars
<1> QED BY <1>1, <1>2, AccountsCorrect, PTL DEF Spec

\* A balance is what it was, plus what was received, less what was sent; a key
\* moves money once; transfers of a user that do not overlap each kept their day
\* within the limit that was checked, over midnight and changes of tier; and an
\* approved identity has a tier with limits.
THEOREM TransferBooksCorrect == Spec => []TransferBooks
<1>1. BooksInv => TransferBooks
  BY DEF BooksInv, TransferBooks, LimitsKept, Sent, Received, ToUser, FromUser
<1> QED BY <1>1, BooksCorrect, PTL
-------------------------------------------------------------------------------
(* The digests.  No email is later than the tick that is under way, and    *)
(* what is not marked yet is the email that tick just sent.                *)

EmailTypes ==
  /\ slot \in 0..LastSlot /\ now \in 0..slot /\ running \in BOOLEAN
  /\ todo \subseteq Readers /\ unmarked \subseteq Readers
  /\ lastSent \in [Readers -> -1..LastSlot]
  /\ emails \in [Readers -> Seq(0..LastSlot)]

\* A digest went out in its reader's window, and not after the running tick.
SentInTime(u) ==
  \A i \in 1..Len(emails[u]) :
    /\ emails[u][i] <= slot /\ D!InWindow(u, emails[u][i])
    /\ running => emails[u][i] <= now

EmailAt(u, t) == \E i \in 1..Len(emails[u]) : emails[u][i] = t

Spaced(u, s, t) ==
  IF u \in Weekly THEN t - s >= Week
  ELSE /\ D!LocalDate(u, s) # D!LocalDate(u, t)
       /\ WindowOf(u, s) = WindowOf(u, t) => D!Wraps(u)

EmailsSpaced(u) ==
  \A i, j \in 1..Len(emails[u]) : i < j => Spaced(u, emails[u][i], emails[u][j])

EmailsMarked(u) ==
  u \notin unmarked => \A i \in 1..Len(emails[u]) : emails[u][i] <= lastSent[u]

DigestInv ==
  /\ EmailTypes
  /\ \A u \in Readers : SentInTime(u) /\ (lastSent[u] # -1 => EmailAt(u, lastSent[u]))
  /\ \A u \in unmarked : running /\ u \notin todo /\ EmailAt(u, now)
  /\ \A u, v \in unmarked : u = v
  /\ Without({"mark_error", "restart"}) => \A u \in Readers : EmailsSpaced(u) /\ EmailsMarked(u)

\* A later time is not of an earlier date.
LEMMA DatesGrow ==
  ASSUME NEW d \in Nat \ {0}, NEW a \in Nat, NEW b \in Nat, a <= b
  PROVE  a \div d <= b \div d
OBVIOUS

\* The date and the slot of a reader are numbers.
LEMMA DatesAreNumbers ==
  ASSUME NEW u \in Readers, NEW t \in Nat
  PROVE  /\ D!LocalDate(u, t) \in Int /\ D!LocalSlot(u, t) \in 0..(Day - 1)
         /\ t + Zone[u] \in Nat /\ Target[u] \in 0..(Day - 1)
<1>1. Zone[u] \in Nat /\ Day \in Nat \ {0} /\ Target[u] \in 0..(Day - 1)
  BY AccountsAssumption
<1>2. t + Zone[u] \in Nat
  BY <1>1
<1>3. (t + Zone[u]) \div Day \in Int /\ (t + Zone[u]) % Day \in 0..(Day - 1)
  <2> DEFINE m == t + Zone[u]
  <2>1. m \in Nat
    BY <1>2
  <2> HIDE DEF m
  <2>2. m \div Day \in Int /\ m % Day \in 0..(Day - 1)
    BY <1>1, <2>1
  <2> QED BY <2>2 DEF m
<1> QED BY <1>1, <1>2, <1>3 DEF D!LocalDate, D!LocalSlot

\* In a window that does not reach past midnight, the window is the date's.
LEMMA WindowIsDate ==
  ASSUME NEW u \in Readers, NEW t \in Nat, ~D!Wraps(u), D!InWindow(u, t)
  PROVE  WindowOf(u, t) = D!LocalDate(u, t)
<1>1. D!LocalSlot(u, t) \in Target[u]..(D!WindowEnd(u) - 1)
  BY DEF D!InWindow
<1>2. D!LocalDate(u, t) \in Int /\ D!LocalSlot(u, t) \in Int /\ Target[u] \in Int
  BY DatesAreNumbers
<1>3. ~(D!LocalSlot(u, t) < Target[u])
  BY <1>1, <1>2
<1> QED BY <1>2, <1>3 DEF WindowOf

\* What a tick sends is spaced from every digest before the last one.
LEMMA NextIsSpaced ==
  ASSUME NEW u \in Readers, EmailTypes, NEW s \in Nat, s <= lastSent[u], lastSent[u] <= now,
         D!InWindow(u, s), D!InWindow(u, now), ~D!WasSent(u, now)
  PROVE  Spaced(u, s, now)
<1> DEFINE l == lastSent[u]
<1>1. l \in Nat /\ now \in Nat /\ l # -1
  <2>1. l \in -1..LastSlot /\ now \in Nat
    BY DEF EmailTypes
  <2> QED BY <2>1
<1>2. CASE u \in Weekly
  <2>1. ~(now - l < Week) /\ Week \in Nat
    BY <1>1, <1>2, AccountsAssumption DEF D!WasSent
  <2>2. now - s >= Week
    BY <1>1, <2>1
  <2> QED BY <1>2, <2>2 DEF Spaced
<1>3. CASE u \notin Weekly
  <2>1. D!LocalDate(u, l) # D!LocalDate(u, now)
    BY <1>1, <1>3 DEF D!WasSent
  <2>2. /\ D!LocalDate(u, s) \in Int /\ D!LocalDate(u, l) \in Int /\ D!LocalDate(u, now) \in Int
    BY <1>1, DatesAreNumbers
  <2>3. /\ s + Zone[u] \in Nat /\ l + Zone[u] \in Nat /\ now + Zone[u] \in Nat
        /\ s + Zone[u] <= l + Zone[u] /\ l + Zone[u] <= now + Zone[u] /\ Day \in Nat \ {0}
    <3>1. Zone[u] \in Nat /\ Day \in Nat \ {0}
      BY AccountsAssumption
    <3> QED BY <1>1, <3>1
  <2>4. D!LocalDate(u, s) <= D!LocalDate(u, l)
    <3> DEFINE a == s + Zone[u]
               b == l + Zone[u]
    <3>1. a \in Nat /\ b \in Nat /\ a <= b /\ Day \in Nat \ {0}
      BY <2>3
    <3> HIDE DEF a, b
    <3>2. a \div Day <= b \div Day
      BY <3>1, DatesGrow
    <3> QED BY <3>2 DEF a, b, D!LocalDate
  <2>5. D!LocalDate(u, l) <= D!LocalDate(u, now)
    <3> DEFINE a == l + Zone[u]
               b == now + Zone[u]
    <3>1. a \in Nat /\ b \in Nat /\ a <= b /\ Day \in Nat \ {0}
      BY <2>3
    <3> HIDE DEF a, b
    <3>2. a \div Day <= b \div Day
      BY <3>1, DatesGrow
    <3> QED BY <3>2 DEF a, b, D!LocalDate
  <2>6. D!LocalDate(u, s) # D!LocalDate(u, now)
    BY <2>1, <2>2, <2>4, <2>5
  <2>7. ASSUME ~D!Wraps(u) PROVE WindowOf(u, s) # WindowOf(u, now)
    <3>1. WindowOf(u, s) = D!LocalDate(u, s) /\ WindowOf(u, now) = D!LocalDate(u, now)
      BY <1>1, <2>7, WindowIsDate
    <3> QED BY <2>6, <3>1
  <2> QED BY <1>3, <2>6, <2>7 DEF Spaced
<1> QED BY <1>2, <1>3

LEMMA DigestSame ==
  ASSUME DigestInv, UNCHANGED <<scene, digestVars>>
  PROVE  DigestInv'
BY DEF DigestInv, digestVars, EmailTypes, SentInTime, EmailAt, EmailsSpaced, EmailsMarked, Spaced,
       WindowOf, D!LocalDate, D!LocalSlot, D!Wraps, D!WindowEnd, D!InWindow, Without

LEMMA DigestStarts ==
  ASSUME Init PROVE DigestInv
<1>1. /\ slot = 0 /\ now = 0 /\ running = FALSE /\ todo = {} /\ unmarked = {}
      /\ lastSent = [u \in Readers |-> -1] /\ emails = [u \in Readers |-> <<>>]
  BY DEF Init, D!DigestInit, D!NoReader
<1>2. LastSlot \in Nat
  BY AccountsAssumption
<1>3. EmailTypes
  <2>1. lastSent \in [Readers -> -1..LastSlot]
    <3>1. -1 \in -1..LastSlot
      BY <1>2
    <3> QED BY <1>1, <3>1
  <2>2. emails \in [Readers -> Seq(0..LastSlot)]
    <3>1. <<>> \in Seq(0..LastSlot)
      OBVIOUS
    <3> QED BY <1>1, <3>1
  <2>3. 0 \in 0..LastSlot /\ 0 \in 0..0
    BY <1>2
  <2> QED BY <1>1, <2>1, <2>2, <2>3 DEF EmailTypes
<1>4. \A u \in Readers : Len(emails[u]) = 0 /\ lastSent[u] = -1
  BY <1>1
<1> QED BY <1>1, <1>3, <1>4 DEF DigestInv, SentInTime, EmailsSpaced, EmailsMarked

LEMMA EmailTimes ==
  ASSUME EmailTypes, NEW u \in Readers
  PROVE  /\ emails[u] \in Seq(0..LastSlot) /\ Len(emails[u]) \in Nat
         /\ \A i \in 1..Len(emails[u]) : emails[u][i] \in Nat
<1> DEFINE e == emails[u]
<1>1. e \in Seq(0..LastSlot)
  BY DEF EmailTypes
<1> HIDE DEF e
<1>2. Len(e) \in Nat /\ \A i \in 1..Len(e) : e[i] \in 0..LastSlot
  BY <1>1, AccountsAssumption
<1>3. \A i \in 1..Len(e) : e[i] \in Nat
  BY <1>2
<1> QED BY <1>1, <1>2, <1>3 DEF e

\* Steps that send nothing and mark nobody: a tick begins, skips a reader, or
\* ends, and time passes.
LEMMA DigestWaits ==
  ASSUME DigestInv, UNCHANGED <<scene, emails, lastSent>>,
         slot' \in 0..LastSlot, slot <= slot', now' \in 0..slot', running' \in BOOLEAN,
         running' => now' = slot \/ (running /\ now' = now),
         todo' \subseteq Readers, unmarked' = {} \/ (unmarked' = unmarked /\ running'
                                                       /\ running /\ now' = now /\ todo' \subseteq todo),
         unmarked' = unmarked \/ ~Without({"mark_error", "restart"})
  PROVE  DigestInv'
<1>1. EmailTypes'
  BY DEF DigestInv, EmailTypes
<1>2. slot \in Nat /\ slot' \in Nat /\ now \in Nat
  BY <1>1 DEF DigestInv, EmailTypes
<1>3. \A u \in Readers : \A i \in 1..Len(emails[u]) : emails[u][i] \in Nat
  BY EmailTimes DEF DigestInv
<1>4. ASSUME NEW u \in Readers
      PROVE  SentInTime(u)' /\ (lastSent'[u] # -1 => EmailAt(u, lastSent[u])')
  <2>1. SentInTime(u) /\ (lastSent[u] # -1 => EmailAt(u, lastSent[u]))
    BY <1>4 DEF DigestInv
  <2>2. ASSUME NEW i \in 1..Len(emails[u])
        PROVE  emails[u][i] <= slot' /\ (running' => emails[u][i] <= now')
    <3>1. emails[u][i] <= slot /\ (running => emails[u][i] <= now) /\ emails[u][i] \in Nat
      BY <1>3, <1>4, <2>1, <2>2 DEF SentInTime
    <3> QED BY <1>2, <3>1
  <2>3. SentInTime(u)'
    BY <2>1, <2>2 DEF SentInTime, D!InWindow, D!LocalSlot, D!Wraps, D!WindowEnd
  <2> QED BY <2>1, <2>3 DEF EmailAt
<1>5. \A u \in unmarked' : running' /\ u \notin todo' /\ EmailAt(u, now)'
  BY DEF DigestInv, EmailAt
<1>6. \A u, v \in unmarked' : u = v
  BY DEF DigestInv
<1>7. Without({"mark_error", "restart"})' =>
        \A u \in Readers : EmailsSpaced(u)' /\ EmailsMarked(u)'
  <2>1. ASSUME Without({"mark_error", "restart"})
        PROVE  \A u \in Readers : EmailsSpaced(u) /\ EmailsMarked(u) /\ unmarked' = unmarked
    BY <2>1 DEF DigestInv
  <2> QED BY <2>1 DEF EmailsSpaced, EmailsMarked, Spaced, WindowOf, D!LocalDate, D!LocalSlot,
                     D!Wraps, D!WindowEnd, Without
<1> QED BY <1>1, <1>4, <1>5, <1>6, <1>7 DEF DigestInv

\* A digest is sent to a reader of the tick.
LEMMA DigestSent ==
  ASSUME DigestInv, NEW u \in Readers, running, u \in todo, unmarked = {},
         D!InWindow(u, now), ~D!WasSent(u, now),
         emails' = [emails EXCEPT ![u] = Append(@, now)], unmarked' = {u}, todo' = todo \ {u},
         UNCHANGED <<scene, slot, running, now, lastSent>>
  PROVE  DigestInv'
<1> DEFINE e == emails[u]
<1>1. /\ e \in Seq(0..LastSlot) /\ Len(e) \in Nat /\ (\A i \in 1..Len(e) : e[i] \in Nat)
      /\ now \in 0..LastSlot /\ now <= slot /\ now \in Nat
  <2>1. now \in 0..slot /\ slot \in 0..LastSlot
    BY DEF DigestInv, EmailTypes
  <2>2. now \in 0..LastSlot /\ now <= slot /\ now \in Nat
    <3>1. LastSlot \in Nat
      BY AccountsAssumption
    <3> QED BY <2>1, <3>1
  <2> QED BY <2>2, EmailTimes DEF DigestInv
<1>2. EmailTypes'
  <2>1. emails' \in [Readers -> Seq(0..LastSlot)]
    BY <1>1 DEF DigestInv, EmailTypes
  <2> QED BY <2>1 DEF DigestInv, EmailTypes
<1>3. /\ Len(emails'[u]) = Len(e) + 1 /\ Len(e) \in Nat /\ emails'[u][Len(e) + 1] = now
      /\ \A i \in 1..Len(e) : emails'[u][i] = e[i] /\ e[i] \in Nat
  <2>1. emails'[u] = Append(e, now)
    BY DEF DigestInv, EmailTypes
  <2> DEFINE f == emails'[u]
  <2>2. f = Append(e, now)
    BY <2>1
  <2> HIDE DEF e, f
  <2>3. /\ Len(f) = Len(e) + 1 /\ f[Len(e) + 1] = now
        /\ \A i \in 1..Len(e) : f[i] = e[i]
    BY <1>1, <2>2
  <2> QED BY <1>1, <2>3 DEF f
<1>4. \A w \in Readers : w # u => emails'[w] = emails[w]
  BY DEF DigestInv, EmailTypes
<1>5. ASSUME NEW w \in Readers
      PROVE  SentInTime(w)' /\ (lastSent'[w] # -1 => EmailAt(w, lastSent[w])')
  <2>1. SentInTime(w) /\ (lastSent[w] # -1 => EmailAt(w, lastSent[w]))
    BY <1>5 DEF DigestInv
  <2>2. CASE w # u
    BY <1>4, <2>1, <2>2 DEF SentInTime, EmailAt, D!InWindow, D!LocalSlot, D!Wraps, D!WindowEnd
  <2>3. CASE w = u
    <3>1. SentInTime(u)'
      <4>1. \A i \in 1..Len(e) + 1 : i = Len(e) + 1 \/ i \in 1..Len(e)
        BY <1>3
      <4> QED BY <1>1, <1>3, <2>1, <2>3, <4>1
              DEF SentInTime, D!InWindow, D!LocalSlot, D!Wraps, D!WindowEnd
    <3>2. ASSUME NEW t, EmailAt(u, t) PROVE \E i \in 1..Len(emails'[u]) : emails'[u][i] = t
      <4>1. PICK i \in 1..Len(e) : e[i] = t
        BY <3>2 DEF EmailAt
      <4>2. i \in 1..Len(emails'[u]) /\ emails'[u][i] = t
        BY <1>3, <4>1
      <4> QED BY <4>2
    <3>3. lastSent'[u] # -1 => EmailAt(u, lastSent[u])'
      BY <2>1, <2>3, <3>2 DEF EmailAt
    <3> QED BY <2>3, <3>1, <3>3
  <2> QED BY <2>2, <2>3
<1>6. \A w \in unmarked' : running' /\ w \notin todo' /\ EmailAt(w, now)'
  <2>1. Len(e) + 1 \in 1..Len(emails'[u])
    BY <1>3
  <2> QED BY <1>3, <2>1 DEF EmailAt
<1>7. ASSUME Without({"mark_error", "restart"}), NEW w \in Readers
      PROVE  EmailsSpaced(w)' /\ EmailsMarked(w)'
  <2>1. EmailsSpaced(w) /\ EmailsMarked(w)
    BY <1>7 DEF DigestInv
  <2>2. CASE w # u
    BY <1>4, <2>1, <2>2 DEF EmailsSpaced, EmailsMarked, Spaced, WindowOf, D!LocalDate,
                            D!LocalSlot, D!Wraps, D!WindowEnd
  <2>3. CASE w = u
    <3>1. ASSUME NEW i \in 1..Len(e) PROVE Spaced(u, e[i], now)
      <4>1. e[i] \in Nat /\ e[i] <= lastSent[u] /\ D!InWindow(u, e[i])
        BY <1>3, <2>1, <2>3, <3>1 DEF EmailsMarked, DigestInv, SentInTime
      <4>2. lastSent[u] # -1
        <5>1. lastSent[u] \in -1..LastSlot
          BY DEF DigestInv, EmailTypes
        <5> QED BY <4>1, <5>1
      <4>3. PICK j \in 1..Len(e) : e[j] = lastSent[u]
        BY <4>2 DEF DigestInv, EmailAt
      <4>4. lastSent[u] <= now
        BY <4>3 DEF DigestInv, SentInTime
      <4> QED BY <4>1, <4>4, NextIsSpaced DEF DigestInv
    <3>2. ASSUME NEW i \in 1..(Len(e) + 1), NEW j \in 1..(Len(e) + 1), i < j
          PROVE  Spaced(u, emails'[u][i], emails'[u][j])
      <4>1. i \in 1..Len(e)
        BY <1>3, <3>2
      <4>2. CASE j = Len(e) + 1
        BY <1>3, <3>1, <4>1, <4>2
      <4>3. CASE j # Len(e) + 1
        <5>1. j \in 1..Len(e)
          BY <1>3, <4>3
        <5>2. Spaced(u, e[i], e[j])
          BY <2>1, <2>3, <3>2, <4>1, <5>1 DEF EmailsSpaced
        <5> QED BY <1>3, <4>1, <5>1, <5>2
      <4> QED BY <4>2, <4>3
    <3>3. EmailsSpaced(u)'
      <4>1. \A i, j \in 1..Len(emails'[u]) : i < j => Spaced(u, emails'[u][i], emails'[u][j])
        BY <1>3, <3>2
      <4> QED BY <4>1 DEF EmailsSpaced, Spaced, WindowOf, D!LocalDate, D!LocalSlot, D!Wraps,
                         D!WindowEnd
    <3> QED BY <2>3, <3>3 DEF EmailsMarked
  <2> QED BY <2>2, <2>3
<1> QED BY <1>2, <1>5, <1>6, <1>7 DEF DigestInv, Without

\* The reader whose digest went out is marked with the tick's time.
LEMMA DigestMarked ==
  ASSUME DigestInv, NEW u \in Readers, D!Mark(u), UNCHANGED scene
  PROVE  DigestInv'
<1>1. /\ running /\ u \in unmarked /\ unmarked' = {}
      /\ lastSent' = [lastSent EXCEPT ![u] = now]
      /\ UNCHANGED <<slot, running, now, todo, emails>>
  BY DEF D!Mark, D!NoReader
<1>2. EmailTypes'
  <2>1. now \in -1..LastSlot
    <3>1. LastSlot \in Nat
      BY AccountsAssumption
    <3>2. slot \in 0..LastSlot /\ now \in 0..slot
      BY DEF DigestInv, EmailTypes
    <3> QED BY <3>1, <3>2
  <2>2. lastSent' \in [Readers -> -1..LastSlot]
    BY <1>1, <2>1 DEF DigestInv, EmailTypes
  <2> QED BY <1>1, <2>2 DEF DigestInv, EmailTypes
<1>3. /\ lastSent'[u] = now
      /\ \A w \in Readers : w # u => lastSent'[w] = lastSent[w] /\ w \notin unmarked
  BY <1>1 DEF DigestInv, EmailTypes
<1>4. ASSUME NEW w \in Readers
      PROVE  SentInTime(w)' /\ (lastSent'[w] # -1 => EmailAt(w, lastSent[w])')
  <2>1. SentInTime(w) /\ (lastSent[w] # -1 => EmailAt(w, lastSent[w])) /\ EmailAt(u, now)
    BY <1>1 DEF DigestInv
  <2>2. SentInTime(w)'
    BY <1>1, <2>1 DEF SentInTime, D!InWindow, D!LocalSlot, D!Wraps, D!WindowEnd
  <2> QED BY <1>1, <1>3, <2>1, <2>2 DEF EmailAt
<1>5. ASSUME Without({"mark_error", "restart"}), NEW w \in Readers
      PROVE  EmailsSpaced(w)' /\ EmailsMarked(w)'
  <2>1. EmailsSpaced(w) /\ EmailsMarked(w) /\ SentInTime(u)
    BY <1>5 DEF DigestInv
  <2>2. EmailsSpaced(w)'
    BY <1>1, <2>1 DEF EmailsSpaced, Spaced, WindowOf, D!LocalDate, D!LocalSlot, D!Wraps, D!WindowEnd
  <2>3. EmailsMarked(w)'
    BY <1>1, <1>3, <2>1 DEF EmailsMarked, SentInTime
  <2> QED BY <2>2, <2>3
<1> QED BY <1>1, <1>2, <1>4, <1>5 DEF DigestInv, Without

LEMMA DigestSteps ==
  ASSUME DigestInv, [Next]_vars PROVE DigestInv'
<1>1. CASE UNCHANGED <<scene, digestVars>>
  BY <1>1, DigestSame
<1>2. CASE D!DigestStep /\ UNCHANGED scene
  <2>1. /\ slot \in 0..LastSlot /\ now \in 0..slot /\ running \in BOOLEAN
        /\ todo \subseteq Readers /\ slot \in Nat
    BY DEF DigestInv, EmailTypes
  <2>2. CASE D!BeginTick
    <3>1. unmarked = {}
      BY <2>2 DEF D!BeginTick, DigestInv
    <3>2. /\ now' = slot /\ running' = TRUE /\ todo' = Readers
          /\ UNCHANGED <<scene, slot, unmarked, lastSent, emails>>
      BY <1>2, <2>2 DEF D!BeginTick, D!digestRows
    <3> QED BY <2>1, <3>1, <3>2, DigestWaits
  <2>3. CASE D!EndTick
    <3>1. /\ running' = FALSE /\ now' = 0 /\ unmarked = {}
          /\ UNCHANGED <<scene, slot, todo, unmarked, lastSent, emails>>
      BY <1>2, <2>3 DEF D!EndTick, D!digestRows, D!NoReader
    <3>2. now' \in 0..slot' /\ slot <= slot'
      BY <2>1, <3>1
    <3> QED BY <2>1, <3>1, <3>2, DigestWaits
  <2>4. CASE D!Restart
    <3>1. /\ running' = FALSE /\ now' = 0 /\ todo' = {} /\ unmarked' = {} /\ "restart" \in scene
          /\ UNCHANGED <<scene, slot, lastSent, emails>>
      BY <1>2, <2>4 DEF D!Restart, D!digestRows, D!NoReader
    <3>2. ~Without({"mark_error", "restart"})
      BY <3>1 DEF Without
    <3>3. now' \in 0..slot' /\ slot <= slot'
      BY <2>1, <3>1
    <3> QED BY <2>1, <3>1, <3>2, <3>3, DigestWaits
  <2>5. CASE D!Advance
    <3>1. /\ slot < LastSlot /\ slot' = slot + 1
          /\ UNCHANGED <<scene, running, now, todo, unmarked, lastSent, emails>>
      BY <1>2, <2>5 DEF D!Advance, D!digestRows
    <3>2. unmarked = {} \/ running
      BY DEF DigestInv
    <3>3. slot' \in 0..LastSlot /\ now \in 0..slot' /\ slot <= slot'
      BY <2>1, <3>1, AccountsAssumption
    <3> QED BY <2>1, <3>1, <3>2, <3>3, DigestWaits
  <2>6. ASSUME NEW u \in Readers, D!Serve(u) PROVE DigestInv'
    <3>1. /\ running /\ u \in todo /\ unmarked = {} /\ todo' = todo \ {u}
          /\ UNCHANGED <<scene, slot, running, now, lastSent>>
      BY <1>2, <2>6 DEF D!Serve, D!NoReader
    <3>2. CASE /\ D!InWindow(u, now) /\ ~D!WasSent(u, now)
               /\ emails' = [emails EXCEPT ![u] = Append(@, now)] /\ unmarked' = {u}
      BY <2>6, <3>1, <3>2, DigestSent
    <3>3. CASE UNCHANGED <<emails, unmarked>>
      BY <2>1, <3>1, <3>3, DigestWaits
    <3> QED BY <2>6, <3>2, <3>3 DEF D!Serve
  <2>7. ASSUME NEW u \in Readers, D!MarkError(u) PROVE DigestInv'
    <3>1. /\ "mark_error" \in scene /\ unmarked' = {}
          /\ UNCHANGED <<scene, slot, running, now, todo, lastSent, emails>>
      BY <1>2, <2>7 DEF D!MarkError, D!digestRows, D!NoReader
    <3>2. ~Without({"mark_error", "restart"})
      BY <3>1 DEF Without
    <3> QED BY <2>1, <3>1, <3>2, DigestWaits
  <2> QED BY <1>2, <2>2, <2>3, <2>4, <2>5, <2>6, <2>7, DigestMarked DEF D!DigestStep
<1> QED BY <1>1, <1>2 DEF Next, vars

LEMMA DigestCorrect == Spec => []DigestInv
<1>1. Init => DigestInv
  BY DigestStarts
<1>2. DigestInv /\ [Next]_vars => DigestInv'
  BY DigestSteps
<1> QED BY <1>1, <1>2, PTL DEF Spec

\* A reader is marked only for a digest that went out; and if every email is
\* marked, a daily reader gets one a date, and in a window that does not reach
\* past midnight one, and a weekly reader none within a week, whatever slots
\* the day has, and wherever the readers and their windows are.
THEOREM DigestOnceCorrect == Spec => []DigestOnce
<1>1. DigestInv => DigestOnce
  BY DEF DigestInv, DigestOnce, EmailAt, EmailsSpaced, Spaced
<1> QED BY <1>1, DigestCorrect, PTL
-------------------------------------------------------------------------------
(* The console's session.  What holds of any session is told apart from    *)
(* what holds when signing in and out meet no request, and of that, when   *)
(* no answer with new tokens is lost, and when requests come one by one.   *)

Callers == ConsoleCalls \cup {Tab}
Tokens == [of : Nat, age : {"fresh", "leeway", "expired"}, spent : BOOLEAN, revoked : BOOLEAN]
Requests ==
  [pc : Console!Pcs, kind : Console!Kinds, access : Nat, refresh : Nat, factor : Nat, got : Nat,
   cleared : BOOLEAN, second : BOOLEAN, status : Console!Statuses, tries : 0..2,
   again : BOOLEAN, done : 0..2]
Refreshing == [pool : {"pages", "routes"}, token : Nat, kind : Console!Kinds, by : Callers]

SessionTypes ==
  /\ signIns \in 0..MaxSignIns /\ signedIn \in 0..signIns /\ leaving \in BOOLEAN
  /\ tokens \in Seq(Tokens) /\ granted \in Seq(Nat)
  /\ jar \in [access : Nat, refresh : Nat, factor : Nat]
  /\ requests \in [Callers -> Requests] /\ flights \subseteq Refreshing

\* Whatever names a token or a second factor names one that was given.
Known(r) ==
  /\ r.access <= Len(tokens) /\ r.refresh <= Len(tokens) /\ r.got <= Len(tokens)
  /\ r.factor <= Len(granted)

SessionBounds ==
  /\ \A t \in 1..Len(tokens) : tokens[t].of \in 1..signIns
  /\ \A k \in 1..Len(granted) : granted[k] \in 1..signIns
  /\ jar.access \in {0, jar.refresh} /\ jar.refresh <= Len(tokens) /\ jar.factor <= Len(granted)
  /\ \A c \in Callers : Known(requests[c])

\* A refresh is that of a request that waits for it, and of no other.
FlightsAgree ==
  /\ \A f \in flights :
       /\ f.token \in 1..Len(tokens)
       /\ requests[f.by].pc = "waiting" /\ requests[f.by].refresh = f.token
       /\ requests[f.by].kind = f.kind /\ Console!PoolOf(f.kind) = f.pool
  /\ \A f, g \in flights : f.pool = g.pool /\ f.token = g.token => f = g

\* How often a request was carried out: once more only when it is repeated
\* although its first answer was an error.
DoneAtMost(r) ==
  CASE r.pc \in {"idle", "away"} -> r.done = 0
    [] r.pc = "answered" /\ r.status # "unauthorized" -> r.done <= 1 \/ r.again
    [] OTHER -> r.done = 0 \/ (r.done = 1 /\ r.again)

DoneOnce(r) == r.done = 0 \/ (r.done = 1 /\ r.pc = "answered" /\ r.status = "ok")

RequestShape(c) ==
  LET r == requests[c] IN
  /\ r.pc \in {"idle", "away"} => r = Console!Ended(r.pc)
  /\ r.pc \in {"renewing", "ready"} => r.kind = "api"
  /\ r.pc = "sent" => r.kind \in {"api", "verify"}
  /\ DoneAtMost(r)
  /\ Without({"backend_error", "lost_answer"}) => DoneOnce(r)

SessionShape == \A c \in Callers : RequestShape(c)

OfThisSignIn(t) == t # 0 => tokens[t].of = signedIn
GivenToThis(k) == k # 0 => granted[k] = signedIn

RequestOfThis(c) ==
  LET r == requests[c] IN
  /\ OfThisSignIn(r.access) /\ OfThisSignIn(r.refresh) /\ OfThisSignIn(r.got)
  /\ GivenToThis(r.factor) /\ ~r.cleared
  /\ r.kind = "verify" => \A d \in Callers : d # c => Console!Idle(d)

SignsApart ==
  /\ leaving => signedIn # 0 /\ \A c \in Callers : Console!Idle(c)
  /\ jar.refresh = 0 <=> signedIn = 0
  /\ OfThisSignIn(jar.refresh) /\ GivenToThis(jar.factor)
  /\ \A t \in 1..Len(tokens) : tokens[t].of = signedIn /\ ~leaving => ~tokens[t].revoked
  /\ \A c \in Callers : RequestOfThis(c)

IsNewest(k) == k \in {0, Len(granted)}

FactorNewest ==
  /\ \A c \in Callers : IsNewest(requests[c].factor)
  /\ \/ IsNewest(jar.factor)
     \/ \E c \in Callers :
          /\ requests[c].kind = "verify" /\ requests[c].pc = "answered"
          /\ requests[c].status = "ok" /\ requests[c].factor = Len(granted)

\* The newest token is unspent, the others of the sign-in are spent, and the
\* newest is in the cookies or on its way to them.
OnItsWay(c) == requests[c].pc \in {"waiting", "sent", "answered"} /\ requests[c].got = Len(tokens)

\* New tokens that no other answer can have brought.
JustGot(r) == r.got # 0 => r.got > jar.refresh /\ tokens[r.got].age = "fresh"

TokensInTurn ==
  /\ Len(tokens) # 0 => ~tokens[Len(tokens)].spent
  /\ \A t \in 1..Len(tokens) : tokens[t].of = signedIn /\ t # Len(tokens) => tokens[t].spent
  /\ signedIn # 0 =>
       /\ Len(tokens) # 0 /\ tokens[Len(tokens)].of = signedIn
       /\ jar.refresh = Len(tokens) \/ \E c \in Callers : OnItsWay(c)
  /\ \A c \in Callers :
       LET r == requests[c] IN
       /\ r.pc \in {"waiting", "sent"} /\ r.got # 0 => r.refresh # 0 /\ tokens[r.refresh].spent
       /\ r.kind = "verify" => JustGot(r)

\* One request at a time is let in, at once or after a refresh.
LetIn(c) ==
  LET r == requests[c] IN
  /\ r.pc \in {"idle", "waiting", "sent", "answered"}
  /\ r.pc = "waiting" => r.got = 0
  /\ r.pc \in {"waiting", "sent"} /\ r.got = 0 => r.refresh = Len(tokens)
  /\ r.pc = "sent" /\ r.second => r.got # 0
  /\ r.pc = "answered" => r.status # "away" /\ (r.kind = "api" => r.status = "ok")
  /\ JustGot(r)

OneByOneLetIn ==
  signedIn # 0 =>
    /\ Console!Idle(Tab)
    /\ \A c, d \in Callers : ~Console!Idle(c) /\ ~Console!Idle(d) => c = d
    /\ \A c \in ConsoleCalls : LetIn(c)

SignHazards == {"overlap_sign"}
FactorHazards == SignHazards \cup {"lost_answer"}
TokenHazards == FactorHazards \cup {"refresh_error", "late_answer", "wrong_code"}
CallHazards == TokenHazards \cup {"overlap_calls", "backend_401", "backend_error"}

SessionInv ==
  /\ SessionTypes /\ SessionBounds /\ FlightsAgree /\ SessionShape
  /\ Without(SignHazards) => SignsApart
  /\ Without(FactorHazards) => FactorNewest
  /\ Without(TokenHazards) => TokensInTurn
  /\ Without(CallHazards) => OneByOneLetIn

\* A request that is still the same call: what it was sent with, and how often.
SameCall(s, r) ==
  /\ s.kind = r.kind /\ s.access = r.access /\ s.refresh = r.refresh
  /\ s.tries = r.tries /\ s.again = r.again /\ s.done = r.done

LEMMA AnsweredRequest ==
  ASSUME NEW r \in Requests, NEW status \in Console!Statuses
  PROVE  LET s == Console!Answered(r, status) IN
         /\ s \in Requests /\ s.pc = "answered" /\ s.status = status /\ SameCall(s, r)
         /\ s.factor = r.factor /\ s.got = r.got /\ s.cleared = r.cleared /\ s.second = r.second
BY DEF Console!Answered, Requests, Console!Pcs, Console!Statuses, SameCall

LEMMA ForwardedRequest ==
  ASSUME NEW r \in Requests
  PROVE  LET s == Console!Forwarded(r) IN
         /\ s \in Requests /\ s.pc = "sent" /\ s.status = r.status /\ SameCall(s, r)
         /\ s.factor = r.factor /\ s.got = r.got /\ s.cleared = r.cleared /\ s.second = r.second
BY DEF Console!Forwarded, Requests, Console!Pcs, SameCall

\* What a refresh leaves of a request that waited for it.
Refreshed(s, r, seen, new) ==
  /\ s \in Requests /\ s.pc \in {"sent", "answered"} /\ SameCall(s, r) /\ s.second = r.second
  /\ s.got = (IF seen = "ok" THEN new ELSE r.got)
  /\ s.factor \in {0, r.factor}
  /\ s.cleared => r.cleared \/ seen = "invalid"
  /\ s.pc = "sent" => r.kind \in {"api", "verify"}
  /\ s.pc = "answered" /\ seen = "ok" => s.status = "ok"

LEMMA AfterRefreshFacts ==
  ASSUME NEW r \in Requests, NEW seen, NEW new \in Nat, NEW mine \in BOOLEAN
  PROVE  Refreshed(Console!AfterRefresh(r, seen, new, mine), r, seen, new)
<1> DEFINE q == IF seen = "ok" THEN [r EXCEPT !.got = new] ELSE r
           s == Console!AfterRefresh(r, seen, new, mine)
<1>1. /\ q \in Requests /\ SameCall(q, r) /\ q.factor = r.factor /\ q.cleared = r.cleared
      /\ q.second = r.second /\ q.got = (IF seen = "ok" THEN new ELSE r.got)
  BY DEF Requests, SameCall
<1>2. s = CASE r.kind = "page" -> Console!PageAfter(q, seen)
            [] r.kind = "renewal" -> Console!RenewalAfter(q, seen)
            [] r.kind = "verify" -> Console!VerifyAfter(q, seen)
            [] OTHER -> Console!ApiAfter(q, seen, mine)
  BY DEF Console!AfterRefresh
<1>3. {"ok", "error", "away", "unauthorized"} \subseteq Console!Statuses
  BY DEF Console!Statuses
<1>4. r.kind \in {"page", "api", "renewal", "verify"}
  BY DEF Requests, Console!Kinds
<1> HIDE DEF q, s
<1> SUFFICES Refreshed(s, r, seen, new)
  BY DEF s
<1> DEFINE z == [q EXCEPT !.cleared = TRUE]
           w == [q EXCEPT !.cleared = q.cleared \/ (mine /\ seen = "invalid")]
<1>5. /\ z \in Requests /\ SameCall(z, q) /\ z.factor = q.factor /\ z.second = q.second
      /\ z.got = q.got
  BY <1>1 DEF Requests, SameCall
<1>6. /\ w \in Requests /\ SameCall(w, q) /\ w.factor = q.factor /\ w.second = q.second
      /\ w.got = q.got /\ (w.cleared => q.cleared \/ seen = "invalid")
  BY <1>1 DEF Requests, SameCall
<1> HIDE DEF z, w
<1> DEFINE y == [w EXCEPT !.factor = 0]
<1>7. /\ y \in Requests /\ SameCall(y, w) /\ y.factor = 0 /\ y.second = w.second
      /\ y.got = w.got /\ y.cleared = w.cleared
  BY <1>6 DEF Requests, SameCall
<1> HIDE DEF y
<1>8. ASSUME NEW p \in {q, z, w, y}, NEW status \in {"ok", "error", "away", "unauthorized"},
             s = Console!Answered(p, status), seen = "ok" => status = "ok",
             p.cleared => r.cleared \/ seen = "invalid"
      PROVE  Refreshed(s, r, seen, new)
  <2>1. p \in Requests /\ SameCall(p, q) /\ p.factor \in {0, q.factor} /\ p.second = q.second
        /\ p.got = q.got
    BY <1>1, <1>5, <1>6, <1>7 DEF SameCall
  <2>2. /\ s \in Requests /\ s.pc = "answered" /\ s.status = status /\ SameCall(s, p)
        /\ s.factor = p.factor /\ s.got = p.got /\ s.cleared = p.cleared /\ s.second = p.second
    <3>1. status \in Console!Statuses
      BY <1>3
    <3> PICK a : a = Console!Answered(p, status)
      OBVIOUS
    <3>2. /\ a \in Requests /\ a.pc = "answered" /\ a.status = status /\ SameCall(a, p)
          /\ a.factor = p.factor /\ a.got = p.got /\ a.cleared = p.cleared /\ a.second = p.second
      BY <2>1, <3>1, AnsweredRequest
    <3>3. a = s
      BY <1>8
    <3> QED BY <3>2, <3>3, Zenon
  <2> QED BY <1>1, <1>8, <2>1, <2>2 DEF Refreshed, SameCall
<1>9. ASSUME NEW p \in {q, w}, s = Console!Forwarded(p), r.kind \in {"api", "verify"}
      PROVE  Refreshed(s, r, seen, new)
  <2>1. p \in Requests /\ SameCall(p, q) /\ p.factor = q.factor /\ p.second = q.second
        /\ p.got = q.got /\ (p.cleared => r.cleared \/ seen = "invalid")
    BY <1>1, <1>6 DEF SameCall
  <2>2. /\ s \in Requests /\ s.pc = "sent" /\ SameCall(s, p)
        /\ s.factor = p.factor /\ s.got = p.got /\ s.cleared = p.cleared /\ s.second = p.second
    BY <1>9, <2>1, ForwardedRequest
  <2> QED BY <1>1, <1>9, <2>1, <2>2 DEF Refreshed, SameCall
<1>10. CASE r.kind = "page"
  <2>1. \/ s = Console!Answered(q, "ok")
        \/ seen # "ok" /\ s \in {Console!Answered(q, "error"), Console!Answered(q, "away")}
    BY <1>2, <1>10 DEF Console!PageAfter
  <2>2. CASE s = Console!Answered(q, "ok")
    BY <1>1, <1>8, <2>2
  <2>3. CASE seen # "ok" /\ s = Console!Answered(q, "error")
    BY <1>1, <1>8, <2>3
  <2>4. CASE seen # "ok" /\ s = Console!Answered(q, "away")
    BY <1>1, <1>8, <2>4
  <2> QED BY <2>1, <2>2, <2>3, <2>4
<1>11. CASE r.kind = "renewal"
  <2>1. \/ s = Console!Answered(q, "ok")
        \/ seen = "invalid" /\ s = Console!Answered(z, "unauthorized")
        \/ seen # "ok" /\ s = Console!Answered(q, "error")
    BY <1>2, <1>11 DEF Console!RenewalAfter, z
  <2>2. CASE s = Console!Answered(q, "ok")
    BY <1>1, <1>8, <2>2
  <2>3. CASE seen = "invalid" /\ s = Console!Answered(z, "unauthorized")
    BY <1>1, <1>8, <2>3
  <2>4. CASE seen # "ok" /\ s = Console!Answered(q, "error")
    BY <1>1, <1>8, <2>4
  <2> QED BY <2>1, <2>2, <2>3, <2>4
<1>12. CASE r.kind = "verify"
  <2>1. \/ s = Console!Forwarded(q)
        \/ seen # "ok" /\ s \in {Console!Answered(q, "error"), Console!Answered(q, "unauthorized")}
    BY <1>2, <1>12 DEF Console!VerifyAfter
  <2>2. CASE s = Console!Forwarded(q)
    BY <1>9, <1>12, <2>2
  <2>3. CASE seen # "ok" /\ s = Console!Answered(q, "error")
    BY <1>1, <1>8, <2>3
  <2>4. CASE seen # "ok" /\ s = Console!Answered(q, "unauthorized")
    BY <1>1, <1>8, <2>4
  <2> QED BY <2>1, <2>2, <2>3, <2>4
<1>13. CASE r.kind = "api"
  <2>1. s = Console!ApiAfter(q, seen, mine)
    BY <1>2, <1>13
  <2>3. \/ s = Console!Forwarded(w)
        \/ seen # "ok" /\ s = Console!Answered(w, "unauthorized")
        \/ seen # "ok" /\ s = Console!Answered(y, "unauthorized")
    BY <2>1 DEF Console!ApiAfter, Console!NotLetIn, w, y
  <2>4. CASE s = Console!Forwarded(w)
    BY <1>9, <1>13, <2>4
  <2>5. CASE seen # "ok" /\ s = Console!Answered(w, "unauthorized")
    BY <1>1, <1>6, <1>8, <2>5
  <2>6. CASE seen # "ok" /\ s = Console!Answered(y, "unauthorized")
    BY <1>1, <1>6, <1>7, <1>8, <2>6
  <2> QED BY <2>3, <2>4, <2>5, <2>6
<1> QED BY <1>4, <1>10, <1>11, <1>12, <1>13

\* What a request is when it has arrived with the browser's cookies.
Arrived(s, r) ==
  /\ s \in Requests /\ s.pc \in {"waiting", "sent", "answered"}
  /\ s.kind = r.kind /\ s.tries = r.tries /\ s.again = r.again /\ s.done = r.done
  /\ s.access = jar.access /\ s.refresh = jar.refresh /\ s.factor \in {0, jar.factor}
  /\ s.got = 0 /\ ~s.cleared /\ ~s.second
  /\ s.pc = "waiting" => jar.refresh # 0
  /\ s.pc = "answered" =>
       jar.refresh = 0 /\ (s.status = "unauthorized" \/ (s.kind = "page" /\ s.status = "away"))
  /\ s.pc = "sent" => s.kind \in {"api", "verify"}

\* The refresh a waiting request takes part in: one under way, or its own.
Joined(c, s) ==
  IF \E f \in flights : f.pool = Console!PoolOf(s.kind) /\ f.token = s.refresh
  THEN UNCHANGED flights
  ELSE flights' = flights \cup
         {[pool |-> Console!PoolOf(s.kind), token |-> s.refresh, kind |-> s.kind, by |-> c]}

LEMMA ArriveFacts ==
  ASSUME SessionTypes, NEW c \in Callers, NEW r \in Requests, Console!Arrive(c, r),
         r.kind = "page" => ~Console!Fresh(jar.access)
  PROVE  /\ UNCHANGED <<jar, tokens, signIns, signedIn, leaving, granted>>
         /\ \E s \in Requests :
              /\ Arrived(s, r) /\ requests' = [requests EXCEPT ![c] = s]
              /\ IF s.pc = "waiting" THEN Joined(c, s) ELSE UNCHANGED flights
<1> DEFINE q == Console!SentWith(r, jar)
<1>1. jar \in [access : Nat, refresh : Nat, factor : Nat]
  BY DEF SessionTypes
<1>2. /\ q \in Requests /\ q.kind = r.kind /\ q.tries = r.tries /\ q.again = r.again
      /\ q.done = r.done /\ q.access = jar.access /\ q.refresh = jar.refresh
      /\ q.factor = jar.factor /\ q.got = 0 /\ ~q.cleared /\ ~q.second
  BY <1>1 DEF Requests, Console!SentWith, Console!Statuses
<1>3. UNCHANGED <<jar, tokens, signIns, signedIn, leaving, granted>>
  BY DEF Console!Arrive
<1>4. \/ Console!Refreshes(q) /\ q.refresh # 0 /\ Console!RunRefreshWithTokenLock(c, q)
      \/ /\ Console!Refreshes(q) /\ q.refresh = 0
         /\ requests' = [requests EXCEPT ![c] = Console!WithoutToken(q)] /\ UNCHANGED flights
      \/ /\ ~Console!Refreshes(q)
         /\ requests' = [requests EXCEPT ![c] = Console!Forwarded(q)] /\ UNCHANGED flights
  BY DEF Console!Arrive
<1>5. q.kind \in {"page", "api", "renewal", "verify"}
  BY <1>2 DEF Requests, Console!Kinds
<1>6. ~Console!Refreshes(q) => q.kind \in {"api", "verify"}
  BY <1>2, <1>5 DEF Console!Refreshes
<1> HIDE DEF q
<1>7. CASE Console!RunRefreshWithTokenLock(c, q) /\ q.refresh # 0
  <2> DEFINE s == [q EXCEPT !.pc = "waiting"]
  <2>1. /\ s \in Requests /\ s.pc = "waiting" /\ SameCall(s, q) /\ s.factor = q.factor
        /\ s.got = q.got /\ s.cleared = q.cleared /\ s.second = q.second
    BY <1>2 DEF Requests, SameCall, Console!Pcs
  <2>2. Arrived(s, r)
    <3> HIDE DEF s
    <3> QED BY <1>2, <1>7, <2>1 DEF Arrived, SameCall
  <2>3. requests' = [requests EXCEPT ![c] = s]
    BY <1>7 DEF Console!RunRefreshWithTokenLock
  <2>4. Joined(c, s)
    <3>1. s.kind = q.kind /\ s.refresh = q.refresh
      BY <2>1 DEF SameCall
    <3> HIDE DEF s
    <3> QED BY <1>7, <3>1 DEF Console!RunRefreshWithTokenLock, Joined
  <2> HIDE DEF s
  <2> QED BY <1>3, <2>1, <2>2, <2>3, <2>4
<1>8. ASSUME NEW s \in Requests, Arrived(s, r), requests' = [requests EXCEPT ![c] = s],
             s.pc # "waiting", UNCHANGED flights
      PROVE  \E z \in Requests :
               /\ Arrived(z, r) /\ requests' = [requests EXCEPT ![c] = z]
               /\ IF z.pc = "waiting" THEN Joined(c, z) ELSE UNCHANGED flights
  BY <1>8
<1>9. ASSUME q.kind \in {"api", "verify"}
      PROVE  LET s == Console!Forwarded(q) IN
             s \in Requests /\ Arrived(s, r) /\ s.pc # "waiting"
  <2> DEFINE s == Console!Forwarded(q)
  <2>1. /\ s \in Requests /\ s.pc = "sent" /\ SameCall(s, q) /\ s.factor = q.factor
        /\ s.got = q.got /\ s.cleared = q.cleared /\ s.second = q.second
    BY <1>2, ForwardedRequest
  <2> HIDE DEF s
  <2>2. s \in Requests /\ Arrived(s, r) /\ s.pc # "waiting"
    BY <1>2, <1>9, <2>1 DEF Arrived, SameCall
  <2> QED BY <2>2 DEF s
<1>10. CASE /\ Console!Refreshes(q) /\ q.refresh = 0
            /\ requests' = [requests EXCEPT ![c] = Console!WithoutToken(q)] /\ UNCHANGED flights
  <2> DEFINE y == [q EXCEPT !.factor = 0]
  <2>1. /\ y \in Requests /\ SameCall(y, q) /\ y.factor = 0
        /\ y.got = q.got /\ y.cleared = q.cleared /\ y.second = q.second
    BY <1>2 DEF Requests, SameCall
  <2> HIDE DEF y
  <2> DEFINE s == Console!WithoutToken(q)
  <2>2. \/ s = Console!Forwarded(q) /\ q.kind = "api"
        \/ s = Console!Answered(q, "away") /\ q.kind = "page"
        \/ s = Console!Answered(y, "unauthorized")
    BY DEF Console!WithoutToken, Console!NotLetIn, y
  <2>3. {"away", "unauthorized"} \subseteq Console!Statuses
    BY DEF Console!Statuses
  <2> HIDE DEF s
  <2>4. s \in Requests /\ Arrived(s, r) /\ s.pc # "waiting"
    <3>1. CASE s = Console!Forwarded(q) /\ q.kind = "api"
      BY <1>9, <3>1
    <3>2. CASE s = Console!Answered(q, "away") /\ q.kind = "page"
      <4>1. /\ s \in Requests /\ s.pc = "answered" /\ s.status = "away" /\ SameCall(s, q)
            /\ s.factor = q.factor /\ s.got = q.got /\ s.cleared = q.cleared /\ s.second = q.second
        BY <1>2, <2>3, <3>2, AnsweredRequest
      <4> QED BY <1>2, <1>10, <3>2, <4>1 DEF Arrived, SameCall
    <3>3. CASE s = Console!Answered(y, "unauthorized")
      <4>1. /\ s \in Requests /\ s.pc = "answered" /\ s.status = "unauthorized" /\ SameCall(s, y)
            /\ s.factor = y.factor /\ s.got = y.got /\ s.cleared = y.cleared /\ s.second = y.second
        BY <2>1, <2>3, <3>3, AnsweredRequest
      <4> QED BY <1>2, <1>10, <2>1, <4>1 DEF Arrived, SameCall
    <3> QED BY <2>2, <3>1, <3>2, <3>3
  <2>5. requests' = [requests EXCEPT ![c] = s]
    BY <1>10 DEF s
  <2> QED BY <1>3, <1>8, <1>10, <2>4, <2>5
<1>11. CASE /\ ~Console!Refreshes(q)
            /\ requests' = [requests EXCEPT ![c] = Console!Forwarded(q)] /\ UNCHANGED flights
  BY <1>3, <1>6, <1>8, <1>9, <1>11
<1> QED BY <1>4, <1>7, <1>10, <1>11

\* What the browser makes of an answer: the request is over, or it is the same
\* call still, which waits for a renewal or is about to be sent again.
Ends(s) == s.pc \in {"idle", "away"} /\ s = Console!Ended(s.pc)
Repeats(s, r) ==
  /\ s.pc \in {"renewing", "ready"} /\ r.kind = "api" /\ s.kind = "api"
  /\ s.access = r.access /\ s.refresh = r.refresh /\ s.factor = r.factor /\ s.got = r.got
  /\ s.cleared = r.cleared /\ s.second = r.second /\ s.done = r.done
  /\ DoneAtMost(r) => DoneAtMost(s)

LEMMA EndedRequest ==
  ASSUME NEW pc \in {"idle", "away"}
  PROVE  LET s == Console!Ended(pc) IN
         /\ s \in Requests /\ s.pc = pc /\ Ends(s) /\ s.kind = "page" /\ DoneAtMost(s) /\ DoneOnce(s)
         /\ s.access = 0 /\ s.refresh = 0 /\ s.factor = 0 /\ s.got = 0 /\ s.done = 0
         /\ ~s.cleared /\ ~s.second /\ s.status = "none"
<1> DEFINE s == Console!Ended(pc)
<1> DEFINE q == Console!Request("page")
<1>1. /\ q.kind = "page" /\ q.access = 0 /\ q.refresh = 0 /\ q.factor = 0 /\ q.got = 0
      /\ q.done = 0 /\ ~q.cleared /\ ~q.second /\ q.status = "none"
      /\ q \in Requests
  BY DEF Console!Request, Requests, Console!Pcs, Console!Kinds, Console!Statuses
<1>2. s = [q EXCEPT !.pc = pc]
  BY DEF Console!Ended
<1> HIDE DEF q
<1>3. /\ s.pc = pc /\ s.kind = "page" /\ s.access = 0 /\ s.refresh = 0 /\ s.factor = 0 /\ s.got = 0
      /\ s.done = 0 /\ ~s.cleared /\ ~s.second /\ s.status = "none" /\ s \in Requests
  <2> HIDE DEF s
  <2> QED BY <1>1, <1>2 DEF Requests, Console!Pcs
<1>4. s = Console!Ended(s.pc)
  BY <1>3
<1> HIDE DEF s
<1>5. Ends(s) /\ DoneAtMost(s) /\ DoneOnce(s)
  BY <1>3, <1>4 DEF Ends, DoneAtMost, DoneOnce
<1> QED BY <1>3, <1>5 DEF s

LEMMA RedirectedFacts ==
  ASSUME NEW r \in Requests, NEW stays \in BOOLEAN, r.kind = "api", r.pc \in {"answered", "renewing"}
  PROVE  LET s == Console!Redirected(r, stays) IN s \in Requests /\ (Ends(s) \/ Repeats(s, r))
<1> DEFINE z == [r EXCEPT !.pc = "ready", !.tries = 1, !.again = TRUE]
<1>1. ASSUME ~r.again PROVE z \in Requests /\ Repeats(z, r)
  <2>1. /\ z.again = TRUE /\ z.pc = "ready" /\ z.done = r.done /\ z.kind = r.kind
        /\ z.access = r.access /\ z.refresh = r.refresh /\ z.factor = r.factor
        /\ z.got = r.got /\ z.cleared = r.cleared /\ z.second = r.second
    BY DEF Requests
  <2>2. z \in Requests /\ r.done \in 0..2
    <3> DEFINE y == [r EXCEPT !.pc = "ready"]
               x == [y EXCEPT !.again = TRUE]
    <3>1. y \in Requests /\ z = [x EXCEPT !.tries = 1]
      BY DEF Requests, Console!Pcs
    <3> HIDE DEF y, z
    <3>2. x \in Requests
      BY <3>1 DEF Requests
    <3> HIDE DEF x
    <3>3. 1 \in 0..2
      OBVIOUS
    <3>4. z \in Requests
      BY <3>1, <3>2, <3>3 DEF Requests
    <3>5. r.done \in 0..2
      BY DEF Requests
    <3> QED BY <3>4, <3>5
  <2> HIDE DEF z
  <2>3. ASSUME DoneAtMost(r) PROVE r.done = 0 \/ r.done = 1
    BY <1>1, <2>2, <2>3 DEF DoneAtMost
  <2>4. ASSUME DoneAtMost(r) PROVE DoneAtMost(z)
    BY <2>1, <2>3, <2>4 DEF DoneAtMost
  <2> QED BY <2>1, <2>2, <2>4 DEF Repeats
<1>2. Console!Redirected(r, stays) = IF stays /\ ~r.again THEN z ELSE Console!Ended("away")
  BY DEF Console!Redirected
<1> HIDE DEF z
<1> QED BY <1>1, <1>2, EndedRequest

LEMMA AfterAnswerFacts ==
  ASSUME NEW r \in Requests, NEW stays \in BOOLEAN, r.pc = "answered"
  PROVE  LET s == Console!AfterAnswer(r, stays) IN
         /\ s \in Requests /\ (Ends(s) \/ (Repeats(s, r) /\ r.status # "ok"))
         /\ s.pc = "away" => r.status = "away" \/ (r.kind = "api" /\ r.status # "ok")
<1> DEFINE s == Console!AfterAnswer(r, stays)
<1>1. CASE r.kind # "api" \/ r.status = "ok"
  <2>1. s = Console!Ended(IF r.status = "away" THEN "away" ELSE "idle")
    BY <1>1 DEF Console!AfterAnswer
  <2>2. CASE r.status = "away"
    <3>1. s = Console!Ended("away")
      BY <2>1, <2>2
    <3> HIDE DEF s
    <3>2. s \in Requests /\ Ends(s)
      BY <3>1, EndedRequest
    <3> QED BY <2>2, <3>2 DEF s
  <2>3. CASE r.status # "away"
    <3>1. s = Console!Ended("idle")
      BY <2>1, <2>3
    <3> HIDE DEF s
    <3>2. s \in Requests /\ Ends(s) /\ s.pc = "idle"
      BY <3>1, EndedRequest
    <3> QED BY <3>2 DEF s
  <2> QED BY <2>2, <2>3
<1>2. CASE r.kind = "api" /\ r.status # "ok"
  <2> DEFINE y == [r EXCEPT !.pc = "renewing", !.tries = @ + 1]
             z == [r EXCEPT !.pc = "ready", !.again = TRUE]
  <2>1. s = CASE r.status = "unauthorized" /\ r.tries < 2 -> y
              [] r.status = "error" /\ r.tries = 1 /\ ~r.again -> z
              [] r.tries = 2 -> Console!Redirected(r, stays)
              [] OTHER -> Console!Ended("idle")
    BY <1>2 DEF Console!AfterAnswer
  <2>2. r.tries \in 0..2 /\ r.done \in 0..2 /\ r.again \in BOOLEAN
    BY DEF Requests
  <2>3. CASE r.status = "unauthorized" /\ r.tries < 2
    <3>1. s = y
      BY <2>1, <2>3
    <3> DEFINE x == [r EXCEPT !.pc = "renewing"]
    <3>2. x \in Requests /\ y = [x EXCEPT !.tries = r.tries + 1] /\ r.tries + 1 \in 0..2
      BY <2>2, <2>3 DEF Requests, Console!Pcs
    <3> HIDE DEF x
    <3>3. y \in Requests
      <4> HIDE DEF y
      <4> QED BY <3>2 DEF Requests
    <3>4. /\ y.pc = "renewing" /\ y.done = r.done /\ y.kind = r.kind /\ y.again = r.again
          /\ y.access = r.access /\ y.refresh = r.refresh /\ y.factor = r.factor
          /\ y.got = r.got /\ y.cleared = r.cleared /\ y.second = r.second
      BY DEF Requests
    <3> HIDE DEF s, y
    <3>5. DoneAtMost(r) => DoneAtMost(y)
      BY <2>3, <3>4 DEF DoneAtMost
    <3>6. Repeats(y, r)
      BY <1>2, <3>4, <3>5 DEF Repeats
    <3> QED BY <1>2, <3>1, <3>3, <3>6 DEF s
  <2>4. CASE r.status = "error" /\ r.tries = 1 /\ ~r.again
    <3>1. s = z
      BY <2>1, <2>4
    <3> DEFINE x == [r EXCEPT !.pc = "ready"]
    <3>2. x \in Requests /\ z = [x EXCEPT !.again = TRUE]
      BY DEF Requests, Console!Pcs
    <3> HIDE DEF x
    <3>3. z \in Requests
      <4> HIDE DEF z
      <4> QED BY <3>2 DEF Requests
    <3>4. /\ z.pc = "ready" /\ z.done = r.done /\ z.kind = r.kind /\ z.again = TRUE
          /\ z.access = r.access /\ z.refresh = r.refresh /\ z.factor = r.factor
          /\ z.got = r.got /\ z.cleared = r.cleared /\ z.second = r.second
      BY DEF Requests
    <3> HIDE DEF s, z
    <3>5. ASSUME DoneAtMost(r) PROVE DoneAtMost(z)
      <4>1. r.done = 0 \/ r.done = 1
        BY <2>2, <2>4, <3>5 DEF DoneAtMost
      <4> QED BY <3>4, <4>1 DEF DoneAtMost
    <3>6. Repeats(z, r)
      BY <1>2, <3>4, <3>5 DEF Repeats
    <3> QED BY <1>2, <3>1, <3>3, <3>6 DEF s
  <2>5. CASE r.tries = 2
    <3>1. s = Console!Redirected(r, stays)
      BY <2>1, <2>5
    <3> HIDE DEF s
    <3>2. s \in Requests /\ (Ends(s) \/ Repeats(s, r))
      BY <1>2, <3>1, RedirectedFacts
    <3> QED BY <1>2, <3>2 DEF s
  <2>6. CASE /\ ~(r.status = "unauthorized" /\ r.tries < 2)
             /\ ~(r.status = "error" /\ r.tries = 1 /\ ~r.again) /\ r.tries # 2
    <3>1. s = Console!Ended("idle")
      BY <2>1, <2>6
    <3> HIDE DEF s
    <3>2. s \in Requests /\ Ends(s) /\ s.pc = "idle"
      BY <3>1, EndedRequest
    <3> QED BY <3>2 DEF s
  <2> QED BY <2>3, <2>4, <2>5, <2>6
<1> QED BY <1>1, <1>2

LEMMA AfterRenewalFacts ==
  ASSUME NEW r \in Requests, NEW renewed, NEW stays \in BOOLEAN, r.pc = "renewing", r.kind = "api"
  PROVE  LET s == Console!AfterRenewal(r, renewed, stays) IN
         s \in Requests /\ (Ends(s) \/ Repeats(s, r))
<1> DEFINE s == Console!AfterRenewal(r, renewed, stays)
           y == [r EXCEPT !.pc = "ready"]
           z == [r EXCEPT !.pc = "ready", !.again = TRUE]
<1>1. \/ s = y \/ s = z \/ s = Console!Redirected(r, stays)
  BY DEF Console!AfterRenewal
<1>2. /\ y \in Requests /\ y.pc = "ready" /\ y.done = r.done /\ y.kind = r.kind /\ y.again = r.again
      /\ y.access = r.access /\ y.refresh = r.refresh /\ y.factor = r.factor
      /\ y.got = r.got /\ y.cleared = r.cleared /\ y.second = r.second
  BY DEF Requests, Console!Pcs
<1>3. z = [y EXCEPT !.again = TRUE] /\ r.again \in BOOLEAN
  BY DEF Requests
<1> HIDE DEF y
<1>4. /\ z \in Requests /\ z.pc = "ready" /\ z.done = r.done /\ z.kind = r.kind /\ z.again = TRUE
      /\ z.access = r.access /\ z.refresh = r.refresh /\ z.factor = r.factor
      /\ z.got = r.got /\ z.cleared = r.cleared /\ z.second = r.second
  <2> HIDE DEF z
  <2> QED BY <1>2, <1>3 DEF Requests
<1> HIDE DEF s, z
<1>5. Repeats(y, r) /\ Repeats(z, r)
  BY <1>2, <1>3, <1>4 DEF Repeats, DoneAtMost
<1>6. s \in Requests /\ (Ends(s) \/ Repeats(s, r))
  BY <1>1, <1>2, <1>4, <1>5, RedirectedFacts
<1> QED BY <1>6 DEF s

LEMMA HazardsNest ==
  /\ Without(CallHazards) => Without(TokenHazards)
  /\ Without(TokenHazards) => Without(FactorHazards)
  /\ Without(FactorHazards) => Without(SignHazards)
  /\ Without(SignHazards) <=> "overlap_sign" \notin scene
  /\ Without(FactorHazards) => "lost_answer" \notin scene
  /\ Without(TokenHazards) =>
       "refresh_error" \notin scene /\ "late_answer" \notin scene /\ "wrong_code" \notin scene
  /\ Without(CallHazards) =>
       "overlap_calls" \notin scene /\ "backend_401" \notin scene /\ "backend_error" \notin scene
BY DEF Without, SignHazards, FactorHazards, TokenHazards, CallHazards

LEMMA SessionFacts ==
  ASSUME SessionTypes
  PROVE  /\ Len(tokens) \in Nat /\ Len(granted) \in Nat
         /\ \A t \in 1..Len(tokens) : tokens[t] \in Tokens
         /\ \A k \in 1..Len(granted) : granted[k] \in Nat
         /\ \A c \in Callers : requests[c] \in Requests
         /\ DOMAIN requests = Callers /\ DOMAIN tokens = 1..Len(tokens)
         /\ jar.access \in Nat /\ jar.refresh \in Nat /\ jar.factor \in Nat
         /\ signIns \in Nat /\ signedIn \in Nat /\ signedIn <= signIns
<1>1. tokens \in Seq(Tokens) /\ granted \in Seq(Nat) /\ requests \in [Callers -> Requests]
  BY DEF SessionTypes
<1>2. \A t \in 1..Len(tokens) : tokens[t] \in Tokens
  BY <1>1
<1>3. Len(tokens) \in Nat /\ Len(granted) \in Nat /\ DOMAIN tokens = 1..Len(tokens)
      /\ \A k \in 1..Len(granted) : granted[k] \in Nat
  BY <1>1
<1>4. jar.access \in Nat /\ jar.refresh \in Nat /\ jar.factor \in Nat
  BY DEF SessionTypes
<1>5. signIns \in Nat /\ signedIn \in Nat /\ signedIn <= signIns
  <2>1. signIns \in 0..MaxSignIns /\ signedIn \in 0..signIns /\ MaxSignIns \in Nat
    BY AccountsAssumption DEF SessionTypes
  <2> QED BY <2>1
<1> QED BY <1>1, <1>2, <1>3, <1>4, <1>5

\* A request that is not under way holds nothing.
LEMMA IdleHoldsNothing ==
  ASSUME SessionShape, NEW c \in Callers, Console!Idle(c)
  PROVE  LET r == requests[c] IN
         /\ r.kind = "page" /\ r.access = 0 /\ r.refresh = 0 /\ r.factor = 0 /\ r.got = 0
         /\ r.done = 0 /\ ~r.cleared /\ ~r.second /\ r.pc \in {"idle", "away"}
<1> DEFINE r == requests[c]
<1>1. r.pc \in {"idle", "away"} /\ r = Console!Ended(r.pc)
  BY DEF SessionShape, RequestShape, Console!Idle
<1> HIDE DEF r
<1> DEFINE pc == r.pc
<1>2. pc \in {"idle", "away"} /\ r = Console!Ended(pc)
  BY <1>1
<1> HIDE DEF pc
<1>3. LET s == Console!Ended(pc) IN
      /\ s.kind = "page" /\ s.access = 0 /\ s.refresh = 0 /\ s.factor = 0 /\ s.got = 0
      /\ s.done = 0 /\ ~s.cleared /\ ~s.second
  BY <1>2, EndedRequest
<1>4. /\ r.kind = "page" /\ r.access = 0 /\ r.refresh = 0 /\ r.factor = 0 /\ r.got = 0
      /\ r.done = 0 /\ ~r.cleared /\ ~r.second /\ r.pc \in {"idle", "away"}
  BY <1>1, <1>2, <1>3
<1> QED BY <1>4 DEF r

LEMMA SessionStarts ==
  ASSUME Init PROVE SessionInv
<1>1. /\ jar = [access |-> 0, refresh |-> 0, factor |-> 0] /\ tokens = <<>> /\ signIns = 0
      /\ signedIn = 0 /\ leaving = FALSE /\ granted = <<>> /\ flights = {}
      /\ requests = [c \in Callers |-> Console!Request("page")]
  BY DEF Init, Console!ConsoleInit, Console!NoCookies, Callers
<1>2. Console!Request("page") = Console!Ended("idle")
  BY DEF Console!Ended, Console!Request
<1>3. LET s == Console!Ended("idle") IN
      /\ s \in Requests /\ s.pc = "idle" /\ s.kind = "page" /\ DoneAtMost(s) /\ DoneOnce(s)
      /\ s.access = 0 /\ s.refresh = 0 /\ s.factor = 0 /\ s.got = 0
      /\ ~s.cleared
  BY EndedRequest
<1> DEFINE s == Console!Ended("idle")
<1>4. requests = [c \in Callers |-> s]
  BY <1>1, <1>2
<1> HIDE DEF s
<1>5. /\ s \in Requests /\ s.pc = "idle" /\ s.kind = "page" /\ DoneAtMost(s) /\ DoneOnce(s)
      /\ s.access = 0 /\ s.refresh = 0 /\ s.factor = 0 /\ s.got = 0 /\ ~s.cleared
      /\ s = Console!Ended(s.pc)
  BY <1>3 DEF s
<1>6. \A c \in Callers : requests[c] = s
  BY <1>4
<1>7. SessionTypes
  <2>1. MaxSignIns \in Nat
    BY AccountsAssumption
  <2>2. tokens \in Seq(Tokens) /\ granted \in Seq(Nat)
    BY <1>1
  <2>3. requests \in [Callers -> Requests]
    BY <1>4, <1>5
  <2>4. jar \in [access : Nat, refresh : Nat, factor : Nat]
    BY <1>1
  <2>5. 0 \in 0..MaxSignIns /\ 0 \in 0..0 /\ flights \subseteq Refreshing
    BY <1>1, <2>1
  <2> QED BY <1>1, <2>2, <2>3, <2>4, <2>5 DEF SessionTypes
<1>8. Len(tokens) = 0 /\ Len(granted) = 0 /\ jar.access = 0 /\ jar.refresh = 0 /\ jar.factor = 0
  BY <1>1
<1>9. SessionBounds
  BY <1>5, <1>6, <1>8 DEF SessionBounds, Known
<1>10. FlightsAgree
  BY <1>1 DEF FlightsAgree
<1>11. SessionShape
  BY <1>5, <1>6 DEF SessionShape, RequestShape
<1>12. SignsApart
  BY <1>1, <1>5, <1>6, <1>8 DEF SignsApart, RequestOfThis, OfThisSignIn, GivenToThis
<1>13. FactorNewest
  BY <1>5, <1>6, <1>8 DEF FactorNewest, IsNewest
<1>14. TokensInTurn
  BY <1>1, <1>5, <1>6, <1>8 DEF TokensInTurn, JustGot
<1>15. OneByOneLetIn
  BY <1>1 DEF OneByOneLetIn
<1> QED BY <1>7, <1>9, <1>10, <1>11, <1>12, <1>13, <1>14, <1>15 DEF SessionInv

LEMMA SessionSame ==
  ASSUME SessionInv, UNCHANGED <<scene, consoleVars>>
  PROVE  SessionInv'
<1>1. UNCHANGED <<scene, jar, tokens, signIns, signedIn, leaving, granted, flights, requests>>
  BY DEF consoleVars
<1>2. SessionTypes' /\ SessionBounds' /\ FlightsAgree' /\ SessionShape'
  BY <1>1 DEF SessionInv, SessionTypes, SessionBounds, Known, FlightsAgree, SessionShape,
              RequestShape, Console!PoolOf, Without
<1>3. Without(SignHazards)' => SignsApart'
  BY <1>1 DEF SessionInv, SignsApart, RequestOfThis, OfThisSignIn, GivenToThis, Console!Idle, Without
<1>4. Without(FactorHazards)' => FactorNewest'
  BY <1>1 DEF SessionInv, FactorNewest, IsNewest, Without
<1>5. Without(TokenHazards)' => TokensInTurn'
  BY <1>1 DEF SessionInv, TokensInTurn, OnItsWay, JustGot, Without
<1>6. Without(CallHazards)' => OneByOneLetIn'
  BY <1>1 DEF SessionInv, OneByOneLetIn, LetIn, JustGot, Console!Idle, Without
<1> QED BY <1>2, <1>3, <1>4, <1>5, <1>6 DEF SessionInv

\* A cookie runs out, or the page forgets its second factor.
LEMMA CookiesDropped ==
  ASSUME SessionInv, UNCHANGED <<scene, tokens, signIns, signedIn, leaving, granted, flights, requests>>,
         jar' \in [access : Nat, refresh : Nat, factor : Nat],
         jar'.access \in {0, jar.access}, jar'.refresh = jar.refresh, jar'.factor \in {0, jar.factor}
  PROVE  SessionInv'
<1>1. Len(granted) \in Nat
  BY SessionFacts DEF SessionInv
<1>2. SessionTypes' /\ FlightsAgree' /\ SessionShape'
  BY DEF SessionInv, SessionTypes, FlightsAgree, SessionShape, RequestShape, Console!PoolOf, Without
<1>3. SessionBounds'
  BY <1>1 DEF SessionInv, SessionBounds, Known
<1>4. Without(SignHazards)' => SignsApart'
  BY DEF SessionInv, SignsApart, RequestOfThis, OfThisSignIn, GivenToThis, Console!Idle, Without
<1>5. Without(FactorHazards)' => FactorNewest'
  BY DEF SessionInv, FactorNewest, IsNewest, Without
<1>6. Without(TokenHazards)' => TokensInTurn'
  BY DEF SessionInv, TokensInTurn, OnItsWay, JustGot, Without
<1>7. Without(CallHazards)' => OneByOneLetIn'
  BY DEF SessionInv, OneByOneLetIn, LetIn, JustGot, Console!Idle, Without
<1> QED BY <1>2, <1>3, <1>4, <1>5, <1>6, <1>7 DEF SessionInv

\* The access token grows old: that in the cookies, and no newer one.
LEMMA TokenAges ==
  ASSUME SessionInv, NEW t \in DOMAIN tokens, Console!Ages(t), UNCHANGED scene
  PROVE  SessionInv'
<1> DEFINE age == Console!Older(tokens[t].age)
<1>1. /\ t \in 1..Len(tokens) /\ t \in Nat /\ t = jar.access /\ jar.refresh \in Nat
      /\ tokens' = [tokens EXCEPT ![t].age = age]
      /\ UNCHANGED <<scene, jar, signIns, signedIn, leaving, granted, flights, requests>>
  <2>1. t \in 1..Len(tokens) /\ jar.refresh \in Nat /\ Len(tokens) \in Nat
    BY SessionFacts DEF SessionInv
  <2> QED BY <2>1 DEF Console!Ages
<1>2. age \in {"fresh", "leeway", "expired"}
  BY DEF Console!Older
<1> HIDE DEF age
<1>3. tokens' \in Seq(Tokens) /\ Len(tokens') = Len(tokens)
  <2>1. tokens \in Seq(Tokens)
    BY DEF SessionInv, SessionTypes
  <2>2. [tokens[t] EXCEPT !.age = age] \in Tokens
    <3>1. tokens[t] \in Tokens
      BY <1>1, SessionFacts DEF SessionInv
    <3> QED BY <1>2, <3>1 DEF Tokens
  <2> QED BY <1>1, <2>1, <2>2
<1>4. \A i \in 1..Len(tokens) :
        /\ tokens'[i].of = tokens[i].of /\ tokens'[i].spent = tokens[i].spent
        /\ tokens'[i].revoked = tokens[i].revoked /\ (i # t => tokens'[i] = tokens[i])
  <2>1. \A i \in 1..Len(tokens) : tokens[i] \in Tokens /\ i \in DOMAIN tokens
    BY SessionFacts DEF SessionInv
  <2> QED BY <1>1, <2>1 DEF Tokens
<1>5. SessionTypes' /\ FlightsAgree' /\ SessionShape'
  BY <1>1, <1>3 DEF SessionInv, SessionTypes, FlightsAgree, SessionShape, RequestShape,
                    Console!PoolOf, Without
<1>6. SessionBounds'
  BY <1>1, <1>3, <1>4 DEF SessionInv, SessionBounds, Known
<1>7. \A c \in Callers :
        /\ requests[c].access \in 0..Len(tokens) /\ requests[c].refresh \in 0..Len(tokens)
        /\ requests[c].got \in 0..Len(tokens)
  <2>1. \A c \in Callers : requests[c] \in Requests /\ Known(requests[c])
    BY SessionFacts DEF SessionInv, SessionBounds
  <2>2. Len(tokens) \in Nat
    BY SessionFacts DEF SessionInv
  <2> QED BY <2>1, <2>2 DEF Requests, Known
<1>8. jar.refresh \in 0..Len(tokens) /\ jar.access \in {0, jar.refresh} /\ Len(tokens) \in Nat
  <2>1. Len(tokens) \in Nat
    BY SessionFacts DEF SessionInv
  <2> QED BY <1>1, <2>1 DEF SessionInv, SessionBounds
<1>9. Without(SignHazards)' => SignsApart'
  <2>1. \A i \in 0..Len(tokens) : OfThisSignIn(i) => OfThisSignIn(i)'
    BY <1>1, <1>4 DEF OfThisSignIn
  <2>2. ASSUME SignsApart PROVE \A c \in Callers : RequestOfThis(c)'
    BY <1>1, <1>7, <2>1, <2>2 DEF SignsApart, RequestOfThis, GivenToThis, Console!Idle
  <2> QED BY <1>1, <1>3, <1>4, <1>8, <2>1, <2>2
          DEF SessionInv, SignsApart, OfThisSignIn, GivenToThis, Console!Idle, Without
<1>10. Without(FactorHazards)' => FactorNewest'
  BY <1>1 DEF SessionInv, FactorNewest, IsNewest, Without
<1>11. \A c \in Callers : JustGot(requests[c]) => JustGot(requests[c])'
  BY <1>1, <1>4, <1>7, <1>8 DEF JustGot
<1>12. Without(TokenHazards)' => TokensInTurn'
  <2>1. ASSUME TokensInTurn PROVE TokensInTurn'
    <3>1. \A c \in Callers : OnItsWay(c) => OnItsWay(c)'
      BY <1>1, <1>3 DEF OnItsWay
    <3>2. Len(tokens) # 0 => Len(tokens) \in 1..Len(tokens)
      BY <1>8
    <3>3. \A c \in Callers : requests[c].refresh # 0 => requests[c].refresh \in 1..Len(tokens)
      BY <1>7, <1>8
    <3>4. \A c \in Callers :
            LET r == requests[c] IN
            r.pc \in {"waiting", "sent"} /\ r.got # 0 => r.refresh # 0 /\ tokens'[r.refresh].spent
      BY <1>4, <2>1, <3>3 DEF TokensInTurn
    <3>5. \A c \in Callers : requests[c].kind = "verify" => JustGot(requests[c])'
      BY <1>11, <2>1 DEF TokensInTurn
    <3>6. /\ Len(tokens') # 0 => ~tokens'[Len(tokens')].spent
          /\ \A i \in 1..Len(tokens') : tokens'[i].of = signedIn /\ i # Len(tokens') => tokens'[i].spent
          /\ signedIn # 0 => Len(tokens') # 0 /\ tokens'[Len(tokens')].of = signedIn
      BY <1>3, <1>4, <2>1, <3>2 DEF TokensInTurn
    <3>7. signedIn # 0 => jar.refresh = Len(tokens') \/ \E c \in Callers : OnItsWay(c)'
      BY <1>3, <2>1, <3>1 DEF TokensInTurn
    <3> QED BY <1>1, <3>4, <3>5, <3>6, <3>7 DEF TokensInTurn
  <2> QED BY <1>1, <2>1 DEF SessionInv, Without
<1>13. Without(CallHazards)' => OneByOneLetIn'
  <2>1. ASSUME OneByOneLetIn, signedIn # 0 PROVE \A c \in ConsoleCalls : LetIn(c)'
    BY <1>1, <1>3, <1>11, <2>1 DEF OneByOneLetIn, LetIn, Callers
  <2> QED BY <1>1, <2>1 DEF SessionInv, OneByOneLetIn, Console!Idle, Without
<1> QED BY <1>5, <1>6, <1>9, <1>10, <1>12, <1>13 DEF SessionInv

\* A token that is appended is known beside the others.
LEMMA TokenAdded ==
  ASSUME SessionTypes, NEW new \in Tokens
  PROVE  /\ Append(tokens, new) \in Seq(Tokens) /\ Len(Append(tokens, new)) = Len(tokens) + 1
         /\ Append(tokens, new)[Len(tokens) + 1] = new
         /\ \A i \in 1..Len(tokens) : Append(tokens, new)[i] = tokens[i]
<1>1. tokens \in Seq(Tokens)
  BY DEF SessionTypes
<1> QED BY <1>1

LEMMA FactorAdded ==
  ASSUME SessionTypes, NEW new \in Nat
  PROVE  /\ Append(granted, new) \in Seq(Nat) /\ Len(Append(granted, new)) = Len(granted) + 1
         /\ Append(granted, new)[Len(granted) + 1] = new
         /\ \A i \in 1..Len(granted) : Append(granted, new)[i] = granted[i]
<1>1. granted \in Seq(Nat)
  BY DEF SessionTypes
<1> QED BY <1>1

LEMMA QuietMeans ==
  ASSUME SessionTypes, Console!Quiet, Without(SignHazards)
  PROVE  ~leaving /\ \A c \in Callers : Console!Idle(c)
<1>1. DOMAIN requests = Callers
  BY SessionFacts
<1> QED BY <1>1, HazardsNest DEF Console!Quiet

LEMMA SignedIn ==
  ASSUME SessionInv, Console!SignIn, UNCHANGED scene
  PROVE  SessionInv'
<1> DEFINE n == signIns + 1
           k == Len(tokens) + 1
           new == [of |-> n, age |-> "fresh", spent |-> FALSE, revoked |-> FALSE]
           blank == Console!Ended("idle")
<1>1. /\ signIns' = n /\ signedIn' = n /\ tokens' = Append(tokens, new)
      /\ jar' = [access |-> k, refresh |-> k, factor |-> 0]
      /\ requests' = [c \in Callers |-> IF Console!Idle(c) THEN blank ELSE requests[c]]
      /\ UNCHANGED <<scene, leaving, granted, flights>>
      /\ n <= MaxSignIns /\ Console!Quiet
  <2>1. DOMAIN requests = Callers /\ signIns \in Nat
    BY SessionFacts DEF SessionInv
  <2>2. signIns < (IF "sign_out" \in scene THEN MaxSignIns ELSE 1) /\ Console!Quiet
    BY DEF Console!SignIn
  <2>3. MaxSignIns \in Nat \ {0}
    BY AccountsAssumption
  <2>4. n <= MaxSignIns
    BY <2>1, <2>2, <2>3
  <2> QED BY <2>1, <2>2, <2>4 DEF Console!SignIn
<1>2. /\ n \in Nat /\ n # 0 /\ k \in Nat /\ k # 0 /\ new \in Tokens /\ Len(tokens) \in Nat
      /\ signIns \in Nat /\ MaxSignIns \in Nat /\ Len(granted) \in Nat
  <2>1. signIns \in Nat /\ Len(tokens) \in Nat /\ MaxSignIns \in Nat /\ Len(granted) \in Nat
    BY SessionFacts, AccountsAssumption DEF SessionInv
  <2> QED BY <2>1 DEF Tokens
<1>3. new.of = n /\ new.age = "fresh" /\ ~new.spent /\ ~new.revoked
  OBVIOUS
<1>4. /\ blank \in Requests /\ blank.pc = "idle" /\ DoneAtMost(blank) /\ DoneOnce(blank)
      /\ blank.access = 0 /\ blank.refresh = 0 /\ blank.factor = 0 /\ blank.got = 0
      /\ ~blank.cleared /\ blank.kind = "page" /\ blank = Console!Ended(blank.pc)
  BY EndedRequest DEF Ends
<1> HIDE DEF new, blank
<1>5. /\ tokens' \in Seq(Tokens) /\ Len(tokens') = k /\ tokens'[k] = new
      /\ \A i \in 1..Len(tokens) : tokens'[i] = tokens[i]
  BY <1>1, <1>2, TokenAdded DEF SessionInv
<1>6. /\ jar'.access = k /\ jar'.refresh = k /\ jar'.factor = 0
      /\ \A c \in Callers : requests'[c] = IF Console!Idle(c) THEN blank ELSE requests[c]
  BY <1>1
<1>7. SessionTypes'
  <2>1. requests' \in [Callers -> Requests]
    <3>1. \A c \in Callers : requests[c] \in Requests
      BY SessionFacts DEF SessionInv
    <3> QED BY <1>1, <1>4, <3>1
  <2>2. n \in 0..MaxSignIns /\ n \in 0..n
    BY <1>1, <1>2
  <2>3. jar' \in [access : Nat, refresh : Nat, factor : Nat]
    BY <1>1, <1>2
  <2> QED BY <1>1, <1>5, <2>1, <2>2, <2>3 DEF SessionInv, SessionTypes, Refreshing
<1>8. SessionBounds'
  <2>1. \A c \in Callers : Known(requests[c])'
    <3>1. \A c \in Callers : requests[c] \in Requests /\ Known(requests[c])
      BY SessionFacts DEF SessionInv, SessionBounds
    <3> QED BY <1>1, <1>2, <1>4, <1>5, <1>6, <3>1 DEF Known, Requests
  <2>2. \A i \in 1..Len(tokens') : tokens'[i].of \in 1..signIns'
    <3>1. \A i \in 1..Len(tokens) : tokens[i].of \in 1..signIns
      BY DEF SessionInv, SessionBounds
    <3>2. \A i \in 1..Len(tokens') : i = k \/ i \in 1..Len(tokens)
      BY <1>2, <1>5
    <3>3. 1..signIns \subseteq 1..n /\ n \in 1..n
      BY <1>2
    <3> QED BY <1>1, <1>3, <1>5, <3>1, <3>2, <3>3
  <2>3. \A i \in 1..Len(granted') : granted'[i] \in 1..signIns'
    <3>1. 1..signIns \subseteq 1..n
      BY <1>2
    <3> QED BY <1>1, <3>1 DEF SessionInv, SessionBounds
  <2> QED BY <1>1, <1>2, <1>5, <1>6, <2>1, <2>2, <2>3 DEF SessionBounds
<1>9. FlightsAgree'
  <2>1. \A f \in flights : f.by \in Callers
    BY DEF SessionInv, SessionTypes, Refreshing
  <2>2. \A f \in flights : requests'[f.by] = requests[f.by]
    BY <1>6, <2>1 DEF SessionInv, FlightsAgree, Console!Idle
  <2>3. \A f \in flights : f.token \in 1..Len(tokens')
    BY <1>2, <1>5 DEF SessionInv, FlightsAgree
  <2> QED BY <1>1, <2>2, <2>3 DEF SessionInv, FlightsAgree, Console!PoolOf
<1>10. SessionShape'
  BY <1>1, <1>4, <1>6 DEF SessionInv, SessionShape, RequestShape, Without
<1>11. ASSUME Without(SignHazards)
       PROVE  \A c \in Callers : Console!Idle(c) /\ ~leaving /\ requests'[c] = blank
  BY <1>1, <1>6, <1>11, QuietMeans DEF SessionInv
<1>12. ASSUME Without(SignHazards) PROVE SignsApart'
  <2>1. ~leaving' /\ signedIn' # 0 /\ jar'.refresh # 0
    BY <1>1, <1>2, <1>6, <1>12, QuietMeans DEF SessionInv
  <2>2. tokens'[jar'.refresh].of = signedIn' /\ jar'.factor = 0
    BY <1>1, <1>3, <1>5, <1>6
  <2>3. \A i \in 1..Len(tokens') : tokens'[i].of = signedIn' => ~tokens'[i].revoked
    <3>1. \A i \in 1..Len(tokens) : tokens[i].of # n
      <4>1. \A i \in 1..Len(tokens) : tokens[i].of \in 1..signIns
        BY DEF SessionInv, SessionBounds
      <4> QED BY <1>2, <4>1
    <3>2. \A i \in 1..Len(tokens') : i = k \/ i \in 1..Len(tokens)
      BY <1>2, <1>5
    <3> QED BY <1>1, <1>3, <1>5, <3>1, <3>2
  <2>4. \A c \in Callers : RequestOfThis(c)'
    BY <1>4, <1>11, <1>12 DEF RequestOfThis, OfThisSignIn, GivenToThis
  <2> QED BY <2>1, <2>2, <2>3, <2>4 DEF SignsApart, OfThisSignIn, GivenToThis
<1>13. ASSUME Without(FactorHazards) PROVE FactorNewest'
  <2>1. Without(SignHazards)
    BY <1>13, HazardsNest
  <2> QED BY <1>4, <1>6, <1>11, <2>1 DEF FactorNewest, IsNewest
<1>14. ASSUME Without(TokenHazards) PROVE TokensInTurn'
  <2>1. Without(SignHazards)
    BY <1>14, HazardsNest
  <2>2. /\ ~tokens'[Len(tokens')].spent /\ Len(tokens') # 0 /\ tokens'[Len(tokens')].of = signedIn'
        /\ jar'.refresh = Len(tokens')
    BY <1>1, <1>2, <1>3, <1>5, <1>6
  <2>3. \A i \in 1..Len(tokens') : tokens'[i].of = signedIn' /\ i # Len(tokens') => tokens'[i].spent
    <3>1. \A i \in 1..Len(tokens) : tokens[i].of # n
      <4>1. \A i \in 1..Len(tokens) : tokens[i].of \in 1..signIns
        BY DEF SessionInv, SessionBounds
      <4> QED BY <1>2, <4>1
    <3>2. \A i \in 1..Len(tokens') : i = k \/ i \in 1..Len(tokens)
      BY <1>2, <1>5
    <3> QED BY <1>1, <1>5, <3>1, <3>2
  <2> QED BY <1>4, <1>11, <2>1, <2>2, <2>3 DEF TokensInTurn
<1>15. ASSUME Without(CallHazards) PROVE OneByOneLetIn'
  <2>1. Without(SignHazards)
    BY <1>15, HazardsNest
  <2>2. \A c \in Callers : Console!Idle(c)' /\ requests'[c].pc = "idle" /\ requests'[c].got = 0
    BY <1>4, <1>11, <2>1 DEF Console!Idle
  <2> QED BY <2>2 DEF OneByOneLetIn, LetIn, JustGot, Callers
<1> QED BY <1>1, <1>7, <1>8, <1>9, <1>10, <1>12, <1>13, <1>14, <1>15 DEF SessionInv, Without

LEMMA SignOutBegun ==
  ASSUME SessionInv, Console!BeginSignOut, UNCHANGED scene
  PROVE  SessionInv'
<1>1. /\ leaving' = TRUE /\ signedIn # 0 /\ ~leaving /\ Console!Quiet
      /\ UNCHANGED <<scene, jar, signIns, signedIn, granted, flights, requests>>
      /\ tokens' = tokens \/ tokens' = [t \in 1..Len(tokens) |-> [tokens[t] EXCEPT !.revoked = TRUE]]
  <2>1. DOMAIN tokens = 1..Len(tokens)
    BY SessionFacts DEF SessionInv
  <2> QED BY <2>1 DEF Console!BeginSignOut
<1>2. Len(tokens) \in Nat /\ \A t \in 1..Len(tokens) : tokens[t] \in Tokens
  BY SessionFacts DEF SessionInv
<1>3. tokens' \in Seq(Tokens) /\ Len(tokens') = Len(tokens)
  <2>1. CASE tokens' = tokens
    BY <2>1 DEF SessionInv, SessionTypes
  <2>2. CASE tokens' = [t \in 1..Len(tokens) |-> [tokens[t] EXCEPT !.revoked = TRUE]]
    <3>1. \A t \in 1..Len(tokens) : [tokens[t] EXCEPT !.revoked = TRUE] \in Tokens
      BY <1>2 DEF Tokens
    <3> QED BY <1>2, <2>2, <3>1
  <2> QED BY <1>1, <2>1, <2>2
<1>4. \A t \in 1..Len(tokens) :
        tokens'[t].of = tokens[t].of /\ tokens'[t].spent = tokens[t].spent /\ tokens'[t].age = tokens[t].age
  <2>1. CASE tokens' = [t \in 1..Len(tokens) |-> [tokens[t] EXCEPT !.revoked = TRUE]]
    <3>1. \A t \in 1..Len(tokens) : tokens'[t] = [tokens[t] EXCEPT !.revoked = TRUE]
      BY <2>1
    <3> QED BY <1>2, <3>1 DEF Tokens
  <2> QED BY <1>1, <2>1
<1>5. SessionTypes' /\ SessionBounds' /\ FlightsAgree' /\ SessionShape'
  <2>1. SessionTypes'
    BY <1>1, <1>3 DEF SessionInv, SessionTypes
  <2>2. SessionBounds'
    BY <1>1, <1>3, <1>4 DEF SessionInv, SessionBounds, Known
  <2> QED BY <1>1, <1>3, <2>1, <2>2 DEF SessionInv, FlightsAgree, SessionShape, RequestShape,
                                        Console!PoolOf, Without
<1>6. /\ jar.refresh \in 0..Len(tokens)
      /\ \A c \in Callers : requests[c].access \in 0..Len(tokens)
           /\ requests[c].refresh \in 0..Len(tokens) /\ requests[c].got \in 0..Len(tokens)
  <2>1. \A c \in Callers : requests[c] \in Requests /\ Known(requests[c])
    BY SessionFacts DEF SessionInv, SessionBounds
  <2>2. jar.refresh \in Nat /\ jar.refresh <= Len(tokens)
    BY SessionFacts DEF SessionInv, SessionBounds
  <2> QED BY <1>2, <2>1, <2>2 DEF Requests, Known
<1>7. ASSUME Without(SignHazards) PROVE SignsApart'
  <2>1. \A i \in 0..Len(tokens) : OfThisSignIn(i) => OfThisSignIn(i)'
    <3>1. \A i \in 0..Len(tokens) : i # 0 => i \in 1..Len(tokens)
      BY <1>2
    <3> QED BY <1>1, <1>4, <3>1 DEF OfThisSignIn
  <2>2. SignsApart
    BY <1>7 DEF SessionInv
  <2>3. \A c \in Callers : RequestOfThis(c)'
    BY <1>1, <1>6, <2>1, <2>2 DEF SignsApart, RequestOfThis, GivenToThis, Console!Idle
  <2>4. \A c \in Callers : Console!Idle(c)'
    BY <1>1, <1>7, QuietMeans DEF SessionInv, Console!Idle
  <2> QED BY <1>1, <1>6, <2>1, <2>2, <2>3, <2>4 DEF SignsApart, GivenToThis
<1>8. Without(FactorHazards)' => FactorNewest'
  BY <1>1 DEF SessionInv, FactorNewest, IsNewest, Without
<1>9. \A c \in Callers : JustGot(requests[c]) => JustGot(requests[c])'
  <2>1. \A c \in Callers : requests[c].got # 0 => requests[c].got \in 1..Len(tokens)
    BY <1>2, <1>6
  <2> QED BY <1>1, <1>4, <2>1 DEF JustGot
<1>10. ASSUME TokensInTurn PROVE TokensInTurn'
  <2>1. \A c \in Callers : requests[c].refresh # 0 => requests[c].refresh \in 1..Len(tokens)
    BY <1>2, <1>6
  <2>2. \A c \in Callers :
          LET r == requests[c] IN
          /\ r.pc \in {"waiting", "sent"} /\ r.got # 0 => r.refresh # 0 /\ tokens'[r.refresh].spent
          /\ r.kind = "verify" => JustGot(r)'
    BY <1>4, <1>9, <1>10, <2>1 DEF TokensInTurn
  <2>3. Len(tokens) # 0 => Len(tokens) \in 1..Len(tokens)
    BY <1>2
  <2>4. /\ Len(tokens') # 0 => ~tokens'[Len(tokens')].spent
        /\ \A i \in 1..Len(tokens') : tokens'[i].of = signedIn /\ i # Len(tokens') => tokens'[i].spent
        /\ signedIn # 0 => Len(tokens') # 0 /\ tokens'[Len(tokens')].of = signedIn
    BY <1>3, <1>4, <1>10, <2>3 DEF TokensInTurn
  <2>5. \A c \in Callers : OnItsWay(c) => OnItsWay(c)'
    BY <1>1, <1>3 DEF OnItsWay
  <2>6. signedIn # 0 => jar.refresh = Len(tokens') \/ \E c \in Callers : OnItsWay(c)'
    BY <1>3, <1>10, <2>5 DEF TokensInTurn
  <2> QED BY <1>1, <2>2, <2>4, <2>6 DEF TokensInTurn
<1>11. ASSUME OneByOneLetIn PROVE OneByOneLetIn'
  <2>1. ASSUME signedIn # 0 PROVE \A c \in ConsoleCalls : LetIn(c)'
    BY <1>1, <1>3, <1>9, <1>11, <2>1 DEF OneByOneLetIn, LetIn, Callers
  <2> QED BY <1>1, <1>11, <2>1 DEF OneByOneLetIn, Console!Idle
<1> QED BY <1>1, <1>5, <1>7, <1>8, <1>10, <1>11 DEF SessionInv, Without

LEMMA SignOutFinished ==
  ASSUME SessionInv, Console!FinishSignOut, UNCHANGED scene
  PROVE  SessionInv'
<1>1. /\ leaving /\ leaving' = FALSE /\ signedIn' = 0
      /\ jar' = [access |-> 0, refresh |-> 0, factor |-> 0]
      /\ UNCHANGED <<scene, tokens, signIns, granted, flights, requests>>
  BY DEF Console!FinishSignOut, Console!NoCookies
<1>2. jar'.access = 0 /\ jar'.refresh = 0 /\ jar'.factor = 0
  BY <1>1
<1>3. Len(tokens) \in Nat /\ Len(granted) \in Nat /\ signIns \in Nat
  BY SessionFacts DEF SessionInv
<1>4. SessionTypes'
  <2>1. jar' \in [access : Nat, refresh : Nat, factor : Nat]
    BY <1>1
  <2>2. 0 \in 0..signIns
    BY <1>3
  <2> QED BY <1>1, <2>1, <2>2 DEF SessionInv, SessionTypes
<1>5. SessionBounds' /\ FlightsAgree' /\ SessionShape'
  BY <1>1, <1>2, <1>3 DEF SessionInv, SessionBounds, Known, FlightsAgree, SessionShape,
                          RequestShape, Console!PoolOf, Without
<1>6. \A t \in 1..Len(tokens) : tokens[t].of # 0
  <2>1. \A t \in 1..Len(tokens) : tokens[t].of \in 1..signIns
    BY DEF SessionInv, SessionBounds
  <2> QED BY <1>3, <2>1
<1>7. ASSUME Without(SignHazards) PROVE SignsApart'
  <2>1. \A c \in Callers : Console!Idle(c)
    BY <1>1, <1>7 DEF SessionInv, SignsApart
  <2>2. \A c \in Callers : RequestOfThis(c)'
    <3>1. \A c \in Callers : LET r == requests[c] IN
            r.access = 0 /\ r.refresh = 0 /\ r.got = 0 /\ r.factor = 0 /\ ~r.cleared /\ r.kind = "page"
      BY <2>1, IdleHoldsNothing DEF SessionInv
    <3> QED BY <1>1, <3>1 DEF RequestOfThis, OfThisSignIn, GivenToThis
  <2> QED BY <1>1, <1>2, <1>6, <2>2 DEF SignsApart, OfThisSignIn, GivenToThis
<1>8. Without(FactorHazards)' => FactorNewest'
  BY <1>1, <1>2 DEF SessionInv, FactorNewest, IsNewest, Without
<1>9. ASSUME TokensInTurn PROVE TokensInTurn'
  <2>1. \A c \in Callers : JustGot(requests[c]) => JustGot(requests[c])'
    <3>1. \A c \in Callers : requests[c].got \in Nat
      BY SessionFacts DEF SessionInv, Requests
    <3> QED BY <1>1, <1>2, <3>1 DEF JustGot
  <2> QED BY <1>1, <1>6, <1>9, <2>1 DEF TokensInTurn
<1>10. OneByOneLetIn'
  BY <1>1 DEF OneByOneLetIn
<1> QED BY <1>1, <1>4, <1>5, <1>7, <1>8, <1>9, <1>10 DEF SessionInv, Without

\* The page stores the session its enrolment was given.
LEMMA FactorStored ==
  ASSUME SessionInv, Console!StoreFactor, UNCHANGED scene
  PROVE  SessionInv'
<1> DEFINE g == tokens[jar.access].of
           k == Len(granted) + 1
<1>1. /\ Console!Quiet /\ jar.access # 0 /\ granted' = Append(granted, g)
      /\ jar' = [jar EXCEPT !.factor = k]
      /\ UNCHANGED <<scene, tokens, signIns, signedIn, leaving, flights, requests>>
  BY DEF Console!StoreFactor, Console!Valid
<1>2. /\ Len(tokens) \in Nat /\ Len(granted) \in Nat /\ jar.refresh \in Nat /\ jar.access \in Nat
      /\ jar.access = jar.refresh /\ jar.access \in 1..Len(tokens)
  <2>1. Len(tokens) \in Nat /\ Len(granted) \in Nat /\ jar.refresh \in Nat /\ jar.access \in Nat
    BY SessionFacts DEF SessionInv
  <2> QED BY <1>1, <2>1 DEF SessionInv, SessionBounds
<1>3. g \in 1..signIns /\ g \in Nat
  <2>1. signIns \in Nat
    BY SessionFacts DEF SessionInv
  <2> QED BY <1>2, <2>1 DEF SessionInv, SessionBounds
<1> HIDE DEF g
<1>4. /\ granted' \in Seq(Nat) /\ Len(granted') = k /\ granted'[k] = g
      /\ \A i \in 1..Len(granted) : granted'[i] = granted[i]
  BY <1>1, <1>3, FactorAdded DEF SessionInv
<1>5. /\ jar' \in [access : Nat, refresh : Nat, factor : Nat]
      /\ jar'.access = jar.access /\ jar'.refresh = jar.refresh /\ jar'.factor = k
  BY <1>1, <1>2 DEF SessionInv, SessionTypes
<1>6. SessionTypes' /\ FlightsAgree' /\ SessionShape'
  BY <1>1, <1>4, <1>5 DEF SessionInv, SessionTypes, FlightsAgree, SessionShape, RequestShape,
                          Console!PoolOf, Without
<1>7. SessionBounds'
  <2>1. \A c \in Callers : Known(requests[c])'
    <3>1. \A c \in Callers : requests[c] \in Requests /\ Known(requests[c])
      BY SessionFacts DEF SessionInv, SessionBounds
    <3> QED BY <1>1, <1>2, <1>4, <3>1 DEF Known, Requests
  <2>2. \A i \in 1..Len(granted') : granted'[i] \in 1..signIns
    <3>1. \A i \in 1..Len(granted') : i = k \/ i \in 1..Len(granted)
      BY <1>2, <1>4
    <3> QED BY <1>3, <1>4, <3>1 DEF SessionInv, SessionBounds
  <2> QED BY <1>1, <1>2, <1>4, <1>5, <2>1, <2>2 DEF SessionInv, SessionBounds
<1>8. ASSUME Without(SignHazards)
      PROVE  \A c \in Callers : LET r == requests[c] IN
               /\ Console!Idle(c) /\ r.access = 0 /\ r.refresh = 0 /\ r.got = 0 /\ r.factor = 0
               /\ ~r.cleared /\ r.kind = "page"
  BY <1>1, <1>8, QuietMeans, IdleHoldsNothing DEF SessionInv
<1>9. ASSUME Without(SignHazards) PROVE SignsApart'
  <2>1. \A c \in Callers : RequestOfThis(c)'
    BY <1>1, <1>8, <1>9 DEF RequestOfThis, OfThisSignIn, GivenToThis
  <2>2. SignsApart /\ ~leaving
    BY <1>1, <1>9, QuietMeans DEF SessionInv
  <2>3. g = signedIn
    BY <1>1, <1>2, <2>2 DEF SignsApart, OfThisSignIn, g
  <2> QED BY <1>1, <1>4, <1>5, <2>1, <2>2, <2>3 DEF SignsApart, OfThisSignIn, GivenToThis
<1>10. ASSUME Without(FactorHazards) PROVE FactorNewest'
  BY <1>1, <1>4, <1>5, <1>8, <1>10, HazardsNest DEF FactorNewest, IsNewest
<1>11. Without(TokenHazards)' => TokensInTurn'
  BY <1>1, <1>5 DEF SessionInv, TokensInTurn, OnItsWay, JustGot, Without
<1>12. Without(CallHazards)' => OneByOneLetIn'
  BY <1>1, <1>5 DEF SessionInv, OneByOneLetIn, LetIn, JustGot, Console!Idle, Without
<1> QED BY <1>1, <1>6, <1>7, <1>9, <1>10, <1>11, <1>12 DEF SessionInv, Without

\* A request that waits takes part in a refresh of its own token.
LEMMA FlightsJoined ==
  ASSUME SessionTypes, FlightsAgree, NEW c \in Callers, NEW s \in Requests,
         requests[c].pc # "waiting", s.pc = "waiting", s.refresh \in 1..Len(tokens),
         requests' = [requests EXCEPT ![c] = s], Joined(c, s), UNCHANGED <<scene, tokens>>
  PROVE  FlightsAgree' /\ flights' \subseteq Refreshing
<1> DEFINE pool == Console!PoolOf(s.kind)
           new == [pool |-> pool, token |-> s.refresh, kind |-> s.kind, by |-> c]
<1>1. /\ requests'[c] = s /\ \A f \in flights : f.by \in Callers /\ f.by # c
      /\ \A f \in flights : requests'[f.by] = requests[f.by]
  <2>1. \A f \in flights : f.by \in Callers /\ f.by # c
    BY DEF SessionTypes, Refreshing, FlightsAgree
  <2> QED BY <2>1 DEF SessionTypes
<1>2. pool \in {"pages", "routes"} /\ s.kind \in Console!Kinds /\ s.refresh \in Nat
  BY DEF Console!PoolOf, Requests
<1>3. new \in Refreshing
  BY <1>2 DEF Refreshing
<1>4. new.pool = pool /\ new.token = s.refresh /\ new.kind = s.kind /\ new.by = c
  OBVIOUS
<1>5. Console!PoolOf(s.kind)' = pool
  BY DEF Console!PoolOf
<1>6. \A f \in flights : Console!PoolOf(f.kind)' = Console!PoolOf(f.kind)
  BY DEF Console!PoolOf
<1>7. \/ flights' = flights
      \/ /\ flights' = flights \cup {new}
         /\ ~ \E f \in flights : f.pool = pool /\ f.token = s.refresh
  BY DEF Joined
<1> HIDE DEF pool, new
<1>8. ASSUME NEW f \in flights'
      PROVE  /\ f.token \in 1..Len(tokens)
             /\ requests'[f.by].pc = "waiting" /\ requests'[f.by].refresh = f.token
             /\ requests'[f.by].kind = f.kind /\ Console!PoolOf(f.kind)' = f.pool
  <2>1. CASE f \in flights
    BY <1>1, <1>6, <2>1 DEF FlightsAgree
  <2>2. CASE f = new
    BY <1>1, <1>4, <1>5, <2>2
  <2> QED BY <1>7, <1>8, <2>1, <2>2
<1>9. \A f, g \in flights' : f.pool = g.pool /\ f.token = g.token => f = g
  <2>1. CASE flights' = flights
    BY <2>1 DEF FlightsAgree
  <2>2. CASE /\ flights' = flights \cup {new}
             /\ ~ \E f \in flights : f.pool = pool /\ f.token = s.refresh
    <3>1. \A f \in flights : ~(f.pool = new.pool /\ f.token = new.token)
      BY <1>4, <2>2
    <3>2. \A f, g \in flights : f.pool = g.pool /\ f.token = g.token => f = g
      BY DEF FlightsAgree
    <3> QED BY <2>2, <3>1, <3>2
  <2> QED BY <1>7, <2>1, <2>2
<1>10. flights' \subseteq Refreshing
  BY <1>3, <1>7 DEF SessionTypes
<1> QED BY <1>8, <1>9, <1>10 DEF FlightsAgree

\* The refreshes under way are those of requests that stay as they were.
LEMMA FlightsKept ==
  ASSUME SessionTypes, FlightsAgree, flights' \subseteq flights, UNCHANGED scene,
         1..Len(tokens) \subseteq 1..Len(tokens)',
         \A f \in flights' : requests'[f.by] = requests[f.by]
  PROVE  FlightsAgree'
<1>1. \A f \in flights' : Console!PoolOf(f.kind)' = Console!PoolOf(f.kind)
  BY DEF Console!PoolOf
<1> QED BY <1>1 DEF FlightsAgree

LEMMA RequestArrives ==
  ASSUME SessionInv, UNCHANGED scene, NEW c \in Callers, NEW r \in Requests, Console!Arrive(c, r),
         r.kind = "page" => ~Console!Fresh(jar.access),
         requests[c].pc \in {"idle", "away", "ready"},
         r.done = 0 \/ (r.done = 1 /\ r.again),
         Without({"backend_error", "lost_answer"}) => r.done = 0,
         Without(SignHazards) =>
           /\ ~leaving
           /\ \A d \in Callers : d # c => requests[d].kind # "verify"
           /\ r.kind = "verify" => \A d \in Callers : d # c => Console!Idle(d),
         Without(CallHazards) /\ signedIn # 0 =>
           c # Tab /\ \A d \in Callers : Console!Idle(d)
  PROVE  SessionInv'
<1>1. /\ UNCHANGED <<jar, tokens, signIns, signedIn, leaving, granted>>
      /\ \E s \in Requests :
           /\ Arrived(s, r) /\ requests' = [requests EXCEPT ![c] = s]
           /\ IF s.pc = "waiting" THEN Joined(c, s) ELSE UNCHANGED flights
  BY ArriveFacts DEF SessionInv
<1>2. PICK s \in Requests :
        /\ Arrived(s, r) /\ requests' = [requests EXCEPT ![c] = s]
        /\ IF s.pc = "waiting" THEN Joined(c, s) ELSE UNCHANGED flights
  BY <1>1
<1>3. requests'[c] = s /\ \A d \in Callers : d # c => requests'[d] = requests[d]
  BY <1>2 DEF SessionInv, SessionTypes
<1>4. /\ s.pc \in {"waiting", "sent", "answered"} /\ s.kind = r.kind /\ s.done = r.done
      /\ s.again = r.again /\ s.access = jar.access /\ s.refresh = jar.refresh
      /\ s.factor \in {0, jar.factor} /\ s.got = 0 /\ ~s.cleared /\ ~s.second
      /\ s.pc = "waiting" => jar.refresh # 0
      /\ s.pc = "answered" =>
           jar.refresh = 0 /\ (s.status = "unauthorized" \/ (s.kind = "page" /\ s.status = "away"))
      /\ s.pc = "sent" => s.kind \in {"api", "verify"}
  BY <1>2 DEF Arrived
<1>5. /\ Len(tokens) \in Nat /\ Len(granted) \in Nat /\ jar.refresh \in 0..Len(tokens)
      /\ jar.access \in {0, jar.refresh} /\ jar.factor \in 0..Len(granted)
  <2>1. Len(tokens) \in Nat /\ Len(granted) \in Nat /\ jar.refresh \in Nat /\ jar.factor \in Nat
    BY SessionFacts DEF SessionInv
  <2> QED BY <2>1 DEF SessionInv, SessionBounds
<1>6. FlightsAgree' /\ flights' \subseteq Refreshing
  <2>1. CASE s.pc = "waiting"
    <3>1. s.refresh \in 1..Len(tokens)
      BY <1>4, <1>5, <2>1
    <3> QED BY <1>1, <1>2, <2>1, <3>1, FlightsJoined DEF SessionInv
  <2>2. CASE s.pc # "waiting"
    <3>1. \A f \in flights : f.by \in Callers /\ f.by # c
      BY DEF SessionInv, SessionTypes, Refreshing, FlightsAgree
    <3> QED BY <1>1, <1>2, <1>3, <2>2, <3>1, FlightsKept DEF SessionInv, SessionTypes
  <2> QED BY <2>1, <2>2
<1>7. SessionTypes'
  <2>1. requests' \in [Callers -> Requests]
    BY <1>2 DEF SessionInv, SessionTypes
  <2> QED BY <1>1, <1>6, <2>1 DEF SessionInv, SessionTypes
<1>8. SessionBounds'
  <2>1. Known(s)
    BY <1>4, <1>5 DEF Known
  <2> QED BY <1>1, <1>3, <2>1 DEF SessionInv, SessionBounds, Known
<1>9. SessionShape'
  <2>1. DoneAtMost(s)
    BY <1>4 DEF DoneAtMost
  <2>2. RequestShape(c)'
    BY <1>3, <1>4, <2>1 DEF RequestShape, DoneOnce, Without
  <2> QED BY <1>3, <2>2 DEF SessionInv, SessionShape, RequestShape, Without
<1>10. ASSUME Without(SignHazards) PROVE SignsApart'
  <2>1. SignsApart
    BY <1>10 DEF SessionInv
  <2>2. OfThisSignIn(jar.access) /\ OfThisSignIn(jar.refresh) /\ GivenToThis(jar.factor)
    BY <1>5, <2>1 DEF SignsApart, OfThisSignIn
  <2>3. RequestOfThis(c)'
    <3>1. OfThisSignIn(s.access) /\ OfThisSignIn(s.refresh) /\ OfThisSignIn(s.got)
      BY <1>4, <2>2 DEF OfThisSignIn
    <3>2. GivenToThis(s.factor) /\ ~s.cleared
      BY <1>4, <2>2 DEF GivenToThis
    <3>3. s.kind = "verify" => \A d \in Callers : d # c => Console!Idle(d)'
      BY <1>3, <1>4, <1>10 DEF Console!Idle
    <3> QED BY <1>1, <1>3, <3>1, <3>2, <3>3 DEF RequestOfThis, OfThisSignIn, GivenToThis
  <2>4. ASSUME NEW d \in Callers, d # c PROVE RequestOfThis(d)'
    BY <1>1, <1>3, <1>10, <2>1, <2>4 DEF SignsApart, RequestOfThis, OfThisSignIn, GivenToThis
  <2> QED BY <1>1, <1>10, <2>1, <2>3, <2>4 DEF SignsApart, OfThisSignIn, GivenToThis
<1>11. ASSUME Without(FactorHazards) PROVE FactorNewest'
  <2>1. FactorNewest /\ Without(SignHazards)
    BY <1>11, HazardsNest DEF SessionInv
  <2>2. IsNewest(jar.factor)
    BY <2>1 DEF FactorNewest
  <2> QED BY <1>1, <1>3, <1>4, <2>1, <2>2 DEF FactorNewest, IsNewest
<1>12. ASSUME Without(TokenHazards) PROVE TokensInTurn'
  <2>1. TokensInTurn
    BY <1>12 DEF SessionInv
  <2>2. \A d \in Callers : OnItsWay(d) => OnItsWay(d)'
    BY <1>1, <1>3 DEF OnItsWay
  <2>3. \A d \in Callers :
          LET q == requests'[d] IN
          /\ q.pc \in {"waiting", "sent"} /\ q.got # 0 => q.refresh # 0 /\ tokens[q.refresh].spent
          /\ q.kind = "verify" => JustGot(q)
    BY <1>3, <1>4, <2>1 DEF TokensInTurn, JustGot
  <2> QED BY <1>1, <2>1, <2>2, <2>3 DEF TokensInTurn, JustGot
<1>13. ASSUME Without(CallHazards), signedIn # 0 PROVE OneByOneLetIn'
  <2>1. TokensInTurn /\ Without(SignHazards) /\ SignsApart
    BY <1>13, HazardsNest DEF SessionInv
  <2>2. c # Tab /\ \A d \in Callers : Console!Idle(d)
    BY <1>13
  <2>3. jar.refresh # 0 /\ jar.refresh = Len(tokens)
    BY <1>13, <2>1, <2>2 DEF SignsApart, TokensInTurn, OnItsWay, Console!Idle
  <2>4. Console!Idle(Tab)'
    BY <1>3, <2>2 DEF Console!Idle, Callers
  <2>5. \A d, e \in Callers : ~Console!Idle(d)' /\ ~Console!Idle(e)' => d = e
    BY <1>3, <2>2 DEF Console!Idle
  <2>6. LetIn(c)'
    BY <1>1, <1>3, <1>4, <2>3 DEF LetIn, JustGot
  <2>7. \A d \in ConsoleCalls : d # c => LetIn(d)'
    <3>1. \A d \in ConsoleCalls : LetIn(d)
      BY <1>13 DEF SessionInv, OneByOneLetIn
    <3> QED BY <1>1, <1>3, <3>1 DEF LetIn, JustGot, Callers
  <2> QED BY <2>4, <2>5, <2>6, <2>7 DEF OneByOneLetIn
<1>14. Without(CallHazards) => OneByOneLetIn'
  BY <1>1, <1>13 DEF OneByOneLetIn
<1> QED BY <1>6, <1>7, <1>8, <1>9, <1>10, <1>11, <1>12, <1>14 DEF SessionInv, Without

LEMMA NewRequest ==
  ASSUME NEW kind \in Console!Kinds
  PROVE  LET r == Console!Request(kind) IN r \in Requests /\ r.kind = kind /\ r.done = 0
BY DEF Console!Request, Requests, Console!Pcs, Console!Statuses

\* A new request begins: a page, a proxied call or a code check.
LEMMA RequestBegins ==
  ASSUME SessionInv, UNCHANGED scene, NEW c \in ConsoleCalls, NEW kind \in Console!Kinds,
         Console!MayBegin(c), kind = "page" => ~Console!Fresh(jar.access),
         kind = "verify" => Console!Quiet, Console!Arrive(c, Console!Request(kind))
  PROVE  SessionInv'
<1> DEFINE r == Console!Request(kind)
<1>1. r \in Requests /\ r.kind = kind /\ r.done = 0 /\ Console!Arrive(c, r)
  BY NewRequest
<1> HIDE DEF r
<1>2. c \in Callers /\ c # Tab /\ requests[c].pc \in {"idle", "away"} /\ DOMAIN requests = Callers
  BY SessionFacts, AccountsAssumption DEF SessionInv, Callers, Console!MayBegin, Console!Idle
<1>3. ASSUME Without(SignHazards)
      PROVE  /\ ~leaving
             /\ \A d \in Callers : d # c => requests[d].kind # "verify"
             /\ kind = "verify" => \A d \in Callers : d # c => Console!Idle(d)
  <2>1. ~leaving /\ \A d \in Callers : requests[d].kind = "verify" => Console!Idle(d)
    BY <1>2, <1>3, HazardsNest DEF Console!MayBegin
  <2>2. \A d \in Callers : Console!Idle(d) => requests[d].kind = "page"
    BY IdleHoldsNothing DEF SessionInv
  <2>3. kind = "verify" => \A d \in Callers : Console!Idle(d)
    BY <1>3, QuietMeans DEF SessionInv
  <2> QED BY <2>1, <2>2, <2>3
<1>4. ASSUME Without(CallHazards) PROVE \A d \in Callers : Console!Idle(d)
  BY <1>2, <1>4, HazardsNest DEF Console!MayBegin
<1> QED BY <1>1, <1>2, <1>3, <1>4, RequestArrives

\* A call that was not let in is sent again, or the tab renews its session.
LEMMA RequestRepeats ==
  ASSUME SessionInv, UNCHANGED scene,
         (\E c \in ConsoleCalls : Console!Resend(c)) \/ Console!RefreshSessionOnce
  PROVE  SessionInv'
<1>1. ASSUME NEW c \in ConsoleCalls, requests[c].pc \in {"ready", "renewing"}
      PROVE  /\ c \in Callers /\ ~Console!Idle(c)
             /\ Without(SignHazards) => ~leaving /\ \A d \in Callers : requests[d].kind # "verify"
             /\ ~(Without(CallHazards) /\ signedIn # 0)
  <2>1. c \in Callers /\ ~Console!Idle(c) /\ requests[c].kind = "api"
    BY <1>1 DEF Callers, Console!Idle, SessionInv, SessionShape, RequestShape
  <2>2. ASSUME Without(SignHazards)
        PROVE  ~leaving /\ \A d \in Callers : requests[d].kind # "verify"
    BY <2>1, <2>2 DEF SessionInv, SignsApart, RequestOfThis
  <2>3. ~(Without(CallHazards) /\ signedIn # 0)
    BY <1>1 DEF SessionInv, OneByOneLetIn, LetIn
  <2> QED BY <2>1, <2>2, <2>3
<1>2. ASSUME NEW c \in ConsoleCalls, Console!Resend(c) PROVE SessionInv'
  <2> DEFINE r == requests[c]
  <2>1. r.pc = "ready" /\ Console!Arrive(c, r) /\ c \in Callers
    BY <1>2 DEF Console!Resend, Callers
  <2>2. /\ r \in Requests /\ r.kind = "api" /\ (r.done = 0 \/ (r.done = 1 /\ r.again))
        /\ Without({"backend_error", "lost_answer"}) => r.done = 0
    <3>1. r \in Requests /\ RequestShape(c)
      BY <2>1, SessionFacts DEF SessionInv, SessionShape
    <3> QED BY <2>1, <3>1 DEF RequestShape, DoneAtMost, DoneOnce
  <2>3. /\ Without(SignHazards) => ~leaving /\ \A d \in Callers : requests[d].kind # "verify"
        /\ ~(Without(CallHazards) /\ signedIn # 0)
    BY <1>1, <2>1
  <2> QED BY <2>1, <2>2, <2>3, RequestArrives
<1>3. ASSUME Console!RefreshSessionOnce PROVE SessionInv'
  <2> DEFINE r == Console!Request("renewal")
  <2>1. PICK c \in ConsoleCalls : requests[c].pc = "renewing"
    BY <1>3 DEF Console!RefreshSessionOnce
  <2>2. Console!Arrive(Tab, r) /\ requests[Tab].pc \in {"idle", "away"} /\ Tab \in Callers
    BY <1>3 DEF Console!RefreshSessionOnce, Console!Idle, Callers
  <2>3. r \in Requests /\ r.kind = "renewal" /\ r.done = 0
    <3>1. "renewal" \in Console!Kinds
      BY DEF Console!Kinds
    <3> QED BY <3>1, NewRequest
  <2> HIDE DEF r
  <2>4. /\ Without(SignHazards) => ~leaving /\ \A d \in Callers : requests[d].kind # "verify"
        /\ ~(Without(CallHazards) /\ signedIn # 0)
    BY <1>1, <2>1
  <2> QED BY <2>2, <2>3, <2>4, RequestArrives
<1> QED BY <1>2, <1>3

\* The tokens after a refresh: one more, and the one it took is spent.
Rotation(t) ==
  /\ tokens' \in Seq(Tokens) /\ Len(tokens') = Len(tokens) + 1
  /\ ~tokens[t].spent /\ ~tokens[t].revoked
  /\ \A i \in 1..Len(tokens) :
       /\ tokens'[i].of = tokens[i].of /\ tokens'[i].age = tokens[i].age
       /\ tokens'[i].revoked = tokens[i].revoked
       /\ tokens'[i].spent <=> tokens[i].spent \/ i = t
  /\ LET new == tokens'[Len(tokens) + 1] IN
     new.of = tokens[t].of /\ new.age = "fresh" /\ ~new.spent /\ ~new.revoked

LEMMA RotatedFacts ==
  ASSUME SessionTypes, NEW t \in 1..Len(tokens), Console!Rotated(t),
         ~tokens[t].spent, ~tokens[t].revoked
  PROVE  Rotation(t)
<1> DEFINE taken == [tokens EXCEPT ![t].spent = TRUE]
           new == [of |-> tokens[t].of, age |-> "fresh", spent |-> FALSE, revoked |-> FALSE]
<1>1. tokens' = Append(taken, new)
  BY DEF Console!Rotated
<1>2. tokens \in Seq(Tokens) /\ Len(tokens) \in Nat /\ \A i \in 1..Len(tokens) : tokens[i] \in Tokens
  BY SessionFacts DEF SessionTypes
<1> DEFINE spent == [tokens[t] EXCEPT !.spent = TRUE]
<1>3. /\ spent \in Tokens /\ new \in Tokens /\ spent.of = tokens[t].of /\ spent.age = tokens[t].age
      /\ spent.revoked = tokens[t].revoked /\ spent.spent /\ taken = [tokens EXCEPT ![t] = spent]
  BY <1>2 DEF Tokens
<1> HIDE DEF spent
<1>4. /\ taken \in Seq(Tokens) /\ Len(taken) = Len(tokens) /\ taken[t] = spent
      /\ \A i \in 1..Len(tokens) : i # t => taken[i] = tokens[i]
  <2> HIDE DEF taken
  <2> QED BY <1>2, <1>3
<1>5. new.of = tokens[t].of /\ new.age = "fresh" /\ ~new.spent /\ ~new.revoked
  OBVIOUS
<1> HIDE DEF taken, new
<1>6. /\ tokens' \in Seq(Tokens) /\ Len(tokens') = Len(tokens) + 1
      /\ tokens'[Len(tokens) + 1] = new
      /\ \A i \in 1..Len(tokens) : tokens'[i] = taken[i]
  BY <1>1, <1>2, <1>3, <1>4
<1>7. /\ tokens'[t].of = tokens[t].of /\ tokens'[t].age = tokens[t].age
      /\ tokens'[t].revoked = tokens[t].revoked /\ tokens'[t].spent
  BY <1>3, <1>4, <1>6
<1>8. \A i \in 1..Len(tokens) : i # t => tokens'[i] = tokens[i]
  BY <1>4, <1>6
<1> QED BY <1>5, <1>6, <1>7, <1>8 DEF Rotation

Outcomes == {"ok", "concurrent", "invalid", "transient"}

\* What each request finds when the refresh f ends with an outcome.
Found(f, c, s, outcome) ==
  LET r == requests[c] IN
  IF r.pc = "waiting" /\ Console!PoolOf(r.kind) = f.pool /\ r.refresh = f.token
  THEN \E seen : /\ Refreshed(s, r, seen, Len(tokens) + 1)
                 /\ seen = "ok" => outcome = "ok"
                 /\ seen = "invalid" => outcome = "invalid"
                 /\ r.kind = f.kind => seen = outcome
  ELSE s = r

LEMMA RefreshFacts ==
  ASSUME SessionInv, NEW f \in flights, Console!RefreshAdminSession(f)
  PROVE  /\ f.token \in 1..Len(tokens) /\ flights' = flights \ {f}
         /\ UNCHANGED <<jar, signIns, signedIn, leaving, granted>>
         /\ \E outcome \in Outcomes :
              /\ UNCHANGED tokens \/ Rotation(f.token)
              /\ outcome = "ok" => Rotation(f.token)
              /\ outcome = "concurrent" => tokens[f.token].spent
              /\ outcome = "invalid" => tokens[f.token].revoked
              /\ outcome = "transient" => "refresh_error" \in scene
              /\ requests' \in [Callers -> Requests]
              /\ \A c \in Callers : Found(f, c, requests'[c], outcome)
<1>1. f.token \in 1..Len(tokens)
  BY DEF SessionInv, FlightsAgree
<1>2. Len(tokens) \in Nat /\ Len(tokens) + 1 \in Nat
  BY SessionFacts DEF SessionInv
<1>3. ASSUME NEW outcome \in Outcomes, Console!Resolve(f, outcome)
      PROVE  /\ flights' = flights \ {f} /\ UNCHANGED <<jar, signIns, signedIn, leaving, granted>>
             /\ requests' \in [Callers -> Requests]
             /\ \A c \in Callers : Found(f, c, requests'[c], outcome)
  <2> DEFINE after(c) ==
        LET r == requests[c] IN
        IF r.pc = "waiting" /\ Console!PoolOf(r.kind) = f.pool /\ r.refresh = f.token
        THEN Console!AfterRefresh(r, Console!Reading(r.kind, f.kind, outcome), Len(tokens) + 1, f.by = c)
        ELSE r
  <2>1. requests' = [c \in Callers |-> after(c)]
    <3>1. DOMAIN requests = Callers
      BY SessionFacts DEF SessionInv
    <3> QED BY <1>3, <3>1 DEF Console!Resolve
  <2>2. ASSUME NEW c \in Callers PROVE after(c) \in Requests /\ Found(f, c, after(c), outcome)
    <3> DEFINE r == requests[c]
               seen == Console!Reading(r.kind, f.kind, outcome)
    <3>1. r \in Requests
      BY SessionFacts DEF SessionInv
    <3>2. CASE r.pc = "waiting" /\ Console!PoolOf(r.kind) = f.pool /\ r.refresh = f.token
      <4> DEFINE s == Console!AfterRefresh(r, seen, Len(tokens) + 1, f.by = c)
      <4>1. after(c) = s
        BY <3>2
      <4>2. /\ seen = "ok" => outcome = "ok"
            /\ seen = "invalid" => outcome = "invalid"
            /\ r.kind = f.kind => seen = outcome
        BY DEF Console!Reading
      <4> DEFINE mine == f.by = c
      <4>3. mine \in BOOLEAN
        OBVIOUS
      <4>4. s = Console!AfterRefresh(r, seen, Len(tokens) + 1, mine)
        OBVIOUS
      <4> HIDE DEF seen, mine, s, r
      <4>5. Refreshed(s, r, seen, Len(tokens) + 1)
        BY <1>2, <3>1, <4>3, <4>4, AfterRefreshFacts
      <4>6. s \in Requests
        BY <4>5 DEF Refreshed
      <4>7. Found(f, c, s, outcome)
        BY <3>2, <4>2, <4>5 DEF Found, r
      <4> QED BY <4>1, <4>6, <4>7
    <3>3. CASE ~(r.pc = "waiting" /\ Console!PoolOf(r.kind) = f.pool /\ r.refresh = f.token)
      BY <3>1, <3>3 DEF Found
    <3> QED BY <3>2, <3>3
  <2>3. \A c \in Callers : requests'[c] = after(c)
    BY <2>1
  <2> HIDE DEF after
  <2>4. requests' \in [Callers -> Requests]
    BY <2>1, <2>2
  <2>5. \A c \in Callers : Found(f, c, requests'[c], outcome)
    BY <2>2, <2>3
  <2> QED BY <1>3, <2>4, <2>5 DEF Console!Resolve
<1>4. \E outcome \in Outcomes :
        /\ Console!Resolve(f, outcome)
        /\ UNCHANGED tokens \/ Rotation(f.token)
        /\ outcome = "ok" => Rotation(f.token)
        /\ outcome = "concurrent" => tokens[f.token].spent
        /\ outcome = "invalid" => tokens[f.token].revoked
        /\ outcome = "transient" => "refresh_error" \in scene
  <2> DEFINE old == tokens[f.token]
             free == ~old.spent /\ ~old.revoked
  <2>1. free /\ Console!Rotated(f.token) => Rotation(f.token)
    BY <1>1, RotatedFacts DEF SessionInv
  <2>2. \/ free /\ Console!Rotated(f.token) /\ Console!Resolve(f, "ok")
        \/ old.spent /\ UNCHANGED tokens /\ Console!Resolve(f, "concurrent")
        \/ old.revoked /\ UNCHANGED tokens /\ Console!Resolve(f, "invalid")
        \/ /\ "refresh_error" \in scene
           /\ UNCHANGED tokens \/ (free /\ Console!Rotated(f.token))
           /\ Console!Resolve(f, "transient")
    BY DEF Console!RefreshAdminSession, Console!AlreadyUsed
  <2> HIDE DEF free
  <2> QED BY <2>1, <2>2 DEF Outcomes
<1> QED BY <1>1, <1>3, <1>4

LEMMA RefreshEnds ==
  ASSUME SessionInv, NEW f \in flights, Console!RefreshAdminSession(f), UNCHANGED scene
  PROVE  SessionInv'
<1> DEFINE n == Len(tokens)
           t == f.token
           b == f.by
<1>1. /\ t \in 1..n /\ flights' = flights \ {f} /\ n \in Nat
      /\ UNCHANGED <<jar, signIns, signedIn, leaving, granted>>
  BY RefreshFacts, SessionFacts DEF SessionInv
<1>2. PICK outcome \in Outcomes :
        /\ UNCHANGED tokens \/ Rotation(t)
        /\ outcome = "ok" => Rotation(t)
        /\ outcome = "concurrent" => tokens[t].spent
        /\ outcome = "invalid" => tokens[t].revoked
        /\ outcome = "transient" => "refresh_error" \in scene
        /\ requests' \in [Callers -> Requests]
        /\ \A c \in Callers : Found(f, c, requests'[c], outcome)
  BY RefreshFacts
<1>3. /\ tokens' \in Seq(Tokens) /\ Len(tokens') \in {n, n + 1} /\ Len(tokens') \in Nat
      /\ \A i \in 1..n :
           /\ tokens'[i].of = tokens[i].of /\ tokens'[i].age = tokens[i].age
           /\ tokens'[i].revoked = tokens[i].revoked /\ (tokens[i].spent => tokens'[i].spent)
      /\ Len(tokens') = n + 1 =>
           /\ Rotation(t)
           /\ LET new == tokens'[n + 1] IN
              new.of = tokens[t].of /\ new.age = "fresh" /\ ~new.spent /\ ~new.revoked
      /\ outcome = "ok" => Len(tokens') = n + 1
  <2>1. CASE UNCHANGED tokens
    <3>1. outcome # "ok"
      BY <1>1, <1>2, <2>1 DEF Rotation
    <3> QED BY <1>1, <2>1, <3>1 DEF SessionInv, SessionTypes
  <2>2. CASE Rotation(t)
    BY <1>1, <2>2 DEF Rotation
  <2> QED BY <1>2, <2>1, <2>2
<1>4. \A c \in Callers : requests[c] \in Requests /\ requests'[c] \in Requests
  BY <1>2, SessionFacts DEF SessionInv
<1>5. ASSUME NEW c \in Callers
      PROVE  LET r == requests[c]
                 s == requests'[c]
             IN /\ s.kind = r.kind /\ s.access = r.access /\ s.refresh = r.refresh /\ s.done = r.done
                /\ s.again = r.again /\ s.second = r.second
                /\ s.factor \in {0, r.factor}
                /\ s.got = r.got \/ (s.got = n + 1 /\ outcome = "ok" /\ s.refresh = t)
                /\ s.cleared => r.cleared \/ outcome = "invalid"
                /\ s = r \/ (r.pc = "waiting" /\ s.pc \in {"sent", "answered"})
                /\ s.pc = "sent" /\ s # r => s.kind \in {"api", "verify"}
  BY <1>2, <1>5 DEF Found, Refreshed, SameCall
<1>6. /\ b \in Callers /\ requests[b].pc = "waiting" /\ requests[b].refresh = t
      /\ requests[b].kind = f.kind /\ Console!PoolOf(f.kind) = f.pool
  BY DEF SessionInv, SessionTypes, Refreshing, FlightsAgree
<1>7. /\ requests'[b].got = (IF outcome = "ok" THEN n + 1 ELSE requests[b].got)
      /\ requests'[b].pc \in {"sent", "answered"}
      /\ requests'[b].pc = "answered" /\ outcome = "ok" => requests'[b].status = "ok"
  BY <1>2, <1>6 DEF Found, Refreshed
<1>8. SessionTypes'
  <2>1. flights' \subseteq Refreshing
    BY <1>1 DEF SessionInv, SessionTypes
  <2> QED BY <1>1, <1>2, <1>3, <2>1 DEF SessionInv, SessionTypes
<1>9. SessionBounds'
  <2>1. ASSUME NEW c \in Callers PROVE Known(requests[c])'
    <3>1. Known(requests[c]) /\ Len(granted) \in Nat
      BY SessionFacts DEF SessionInv, SessionBounds
    <3> PICK r \in Requests : r = requests[c]
      BY <1>4
    <3> PICK s \in Requests : s = requests'[c]
      BY <1>4
    <3>2. /\ s.access = r.access /\ s.refresh = r.refresh /\ s.factor \in {0, r.factor}
          /\ s.got = r.got \/ (s.got = n + 1 /\ outcome = "ok")
      BY <1>5
    <3>3. n \in Nat /\ Len(tokens') \in {n, n + 1} /\ (outcome = "ok" => Len(tokens') = n + 1)
      BY <1>1, <1>3
    <3>4. /\ r.access \in Nat /\ r.refresh \in Nat /\ r.got \in Nat /\ r.factor \in Nat
          /\ Len(granted) \in Nat
      BY <3>1 DEF Requests
    <3>5. r.access <= n /\ r.refresh <= n /\ r.got <= n /\ r.factor <= Len(granted)
      BY <3>1 DEF Known
    <3>6. /\ s.access <= Len(tokens') /\ s.refresh <= Len(tokens') /\ s.got <= Len(tokens')
          /\ s.factor <= Len(granted)
      BY <3>2, <3>3, <3>4, <3>5
    <3> QED BY <1>1, <3>6 DEF Known
  <2>2. \A i \in 1..Len(tokens') : tokens'[i].of \in 1..signIns
    <3>1. \A i \in 1..Len(tokens') : i \in 1..n \/ (i = n + 1 /\ Len(tokens') = n + 1)
      BY <1>1, <1>3
    <3> QED BY <1>1, <1>3, <3>1 DEF SessionInv, SessionBounds
  <2>3. jar.refresh <= Len(tokens')
    <3>1. jar.refresh \in Nat /\ jar.refresh <= n
      BY SessionFacts DEF SessionInv, SessionBounds
    <3> QED BY <1>1, <1>3, <3>1
  <2> QED BY <1>1, <2>1, <2>2, <2>3 DEF SessionInv, SessionBounds
<1>10. FlightsAgree'
  <2>1. ASSUME NEW g \in flights' PROVE requests'[g.by] = requests[g.by]
    <3>1. g \in flights /\ g # f
      BY <1>1, <2>1
    <3>2. /\ g.by \in Callers /\ requests[g.by].refresh = g.token
          /\ Console!PoolOf(requests[g.by].kind) = g.pool
          /\ ~(f.pool = g.pool /\ f.token = g.token)
      BY <3>1 DEF SessionInv, SessionTypes, Refreshing, FlightsAgree
    <3> QED BY <1>2, <3>2 DEF Found
  <2>2. 1..n \subseteq 1..Len(tokens')
    BY <1>1, <1>3
  <2> QED BY <1>1, <2>1, <2>2, FlightsKept DEF SessionInv
<1>11. SessionShape'
  <2>1. ASSUME NEW c \in Callers, requests'[c] # requests[c] PROVE RequestShape(c)'
    <3>1. RequestShape(c) /\ requests[c].pc = "waiting" /\ requests'[c].pc \in {"sent", "answered"}
      BY <1>5, <2>1 DEF SessionInv, SessionShape
    <3>2. DoneAtMost(requests'[c])
      BY <1>5, <3>1 DEF RequestShape, DoneAtMost
    <3>3. Without({"backend_error", "lost_answer"})' => DoneOnce(requests'[c])
      BY <1>5, <3>1 DEF RequestShape, DoneOnce, Without
    <3> QED BY <1>5, <2>1, <3>1, <3>2, <3>3 DEF RequestShape, DoneAtMost, DoneOnce
  <2>2. ASSUME NEW c \in Callers, requests'[c] = requests[c] PROVE RequestShape(c)'
    BY <2>2 DEF SessionInv, SessionShape, RequestShape, Without
  <2> QED BY <2>1, <2>2 DEF SessionShape
<1>12. ASSUME Without(SignHazards)
       PROVE  /\ SignsApart /\ ~leaving /\ tokens[t].of = signedIn /\ ~tokens[t].revoked
              /\ outcome # "invalid"
  <2>1. SignsApart
    BY <1>12 DEF SessionInv
  <2>2. ~leaving /\ RequestOfThis(b)
    BY <1>6, <2>1 DEF SignsApart, Console!Idle
  <2>3. tokens[t].of = signedIn
    BY <1>1, <1>6, <2>2 DEF RequestOfThis, OfThisSignIn
  <2> QED BY <1>1, <1>2, <2>1, <2>2, <2>3 DEF SignsApart
<1>13. ASSUME Without(SignHazards) PROVE SignsApart'
  <2>1. /\ SignsApart /\ ~leaving /\ tokens[t].of = signedIn /\ ~tokens[t].revoked
        /\ outcome # "invalid"
    BY <1>12, <1>13
  <2>2. \A i \in 0..n : OfThisSignIn(i) => OfThisSignIn(i)'
    <3>1. \A i \in 0..n : i # 0 => i \in 1..n
      BY <1>1
    <3> QED BY <1>1, <1>3, <3>1 DEF OfThisSignIn
  <2>3. ASSUME NEW c \in Callers PROVE RequestOfThis(c)'
    <3> DEFINE r == requests[c]
               s == requests'[c]
    <3>1. RequestOfThis(c) /\ Known(r) /\ r \in Requests
      BY <1>4, <2>1 DEF SignsApart, SessionInv, SessionBounds
    <3>2. r.access \in 0..n /\ r.refresh \in 0..n /\ r.got \in 0..n
      BY <1>1, <3>1 DEF Known, Requests
    <3>3. OfThisSignIn(r.access)' /\ OfThisSignIn(r.refresh)' /\ OfThisSignIn(r.got)'
      <4>1. ASSUME NEW i \in 0..n, OfThisSignIn(i) PROVE i # 0 => tokens'[i].of = signedIn'
        BY <2>2, <4>1 DEF OfThisSignIn
      <4>2. /\ s.access = r.access /\ s.refresh = r.refresh
            /\ s.got = r.got \/ (s.got = n + 1 /\ outcome = "ok")
        BY <1>5
      <4>3. /\ r.access # 0 => tokens'[r.access].of = signedIn'
            /\ r.refresh # 0 => tokens'[r.refresh].of = signedIn'
            /\ r.got # 0 => tokens'[r.got].of = signedIn'
        BY <3>1, <3>2, <4>1 DEF RequestOfThis
      <4>4. outcome = "ok" => tokens'[n + 1].of = signedIn'
        BY <1>1, <1>3, <2>1
      <4> QED BY <4>2, <4>3, <4>4 DEF OfThisSignIn
    <3>4. (s.factor # 0 => granted'[s.factor] = signedIn') /\ ~s.cleared
      BY <1>1, <1>5, <2>1, <3>1 DEF RequestOfThis, GivenToThis
    <3>5. s.kind = "verify" => \A d \in Callers : d # c => Console!Idle(d)'
      BY <1>5, <3>1 DEF RequestOfThis, Console!Idle
    <3> QED BY <1>5, <3>3, <3>4, <3>5 DEF RequestOfThis, OfThisSignIn, GivenToThis
  <2>4. \A i \in 1..Len(tokens') : ~tokens'[i].revoked \/ tokens'[i].of # signedIn
    <3>1. \A i \in 1..Len(tokens') : i \in 1..n \/ (i = n + 1 /\ Len(tokens') = n + 1)
      BY <1>1, <1>3
    <3> QED BY <1>3, <2>1, <3>1 DEF SignsApart
  <2>5. OfThisSignIn(jar.refresh)' /\ GivenToThis(jar.factor)'
    <3>1. jar.refresh \in 0..n
      BY <1>1, SessionFacts DEF SessionInv, SessionBounds
    <3>2. OfThisSignIn(jar.refresh) /\ GivenToThis(jar.factor)
      BY <2>1 DEF SignsApart
    <3>3. jar.refresh # 0 => jar.refresh \in 1..n
      BY <1>1, <3>1
    <3> QED BY <1>1, <1>3, <3>2, <3>3 DEF OfThisSignIn, GivenToThis
  <2> QED BY <1>1, <2>1, <2>3, <2>4, <2>5 DEF SignsApart
<1>14. ASSUME Without(FactorHazards) PROVE FactorNewest'
  <2>1. FactorNewest
    BY <1>14 DEF SessionInv
  <2>2. \A c \in Callers : requests[c].pc = "answered" => requests'[c] = requests[c]
    BY <1>5
  <2> QED BY <1>1, <1>5, <2>1, <2>2 DEF FactorNewest, IsNewest
<1>15. ASSUME NEW c \in Callers, JustGot(requests[c]) PROVE JustGot(requests[c])'
  <2> DEFINE r == requests[c]
             s == requests'[c]
  <2>1. r.got \in 0..n /\ jar.refresh \in Nat /\ jar.refresh <= n
    <3>1. Known(r) /\ r \in Requests
      BY <1>4 DEF SessionInv, SessionBounds
    <3> QED BY <1>1, <3>1, SessionFacts DEF Known, Requests, SessionInv, SessionBounds
  <2>2. CASE s.got = r.got
    <3>1. r.got # 0 => r.got \in 1..n
      BY <1>1, <2>1
    <3> QED BY <1>1, <1>3, <1>15, <2>2, <3>1 DEF JustGot
  <2>3. CASE s.got = n + 1 /\ outcome = "ok"
    <3>1. tokens'[n + 1].age = "fresh" /\ n + 1 > jar.refresh
      BY <1>1, <1>3, <2>1, <2>3
    <3> QED BY <1>1, <2>3, <3>1 DEF JustGot
  <2> QED BY <1>5, <2>2, <2>3
<1>16. ASSUME Without(TokenHazards) PROVE TokensInTurn'
  <2>1. TokensInTurn /\ SignsApart /\ tokens[t].of = signedIn /\ outcome \in {"ok", "concurrent"}
    BY <1>2, <1>12, <1>16, HazardsNest DEF SessionInv, Outcomes
  <2>2. ASSUME NEW c \in Callers
        PROVE  LET s == requests'[c] IN
               /\ s.pc \in {"waiting", "sent"} /\ s.got # 0 => s.refresh # 0 /\ tokens'[s.refresh].spent
               /\ s.kind = "verify" => JustGot(requests[c])'
    <3> DEFINE r == requests[c]
               s == requests'[c]
    <3>1. /\ r.pc \in {"waiting", "sent"} /\ r.got # 0 => r.refresh # 0 /\ tokens[r.refresh].spent
          /\ r.kind = "verify" => JustGot(r)
      BY <2>1 DEF TokensInTurn
    <3>2. r.refresh # 0 => r.refresh \in 1..n
      <4>1. Known(r) /\ r \in Requests
        BY <1>4 DEF SessionInv, SessionBounds
      <4> QED BY <1>1, <4>1 DEF Known, Requests
    <3>3. outcome = "ok" => tokens'[t].spent /\ t # 0
      BY <1>1, <1>2 DEF Rotation
    <3>4. s.pc \in {"waiting", "sent"} => r.pc \in {"waiting", "sent"}
      BY <1>5
    <3>5. s.pc \in {"waiting", "sent"} /\ s.got # 0 => s.refresh # 0 /\ tokens'[s.refresh].spent
      BY <1>3, <1>5, <3>1, <3>2, <3>3, <3>4
    <3>6. s.kind = "verify" => JustGot(requests[c])'
      BY <1>5, <1>15, <3>1
    <3> QED BY <3>5, <3>6
  <2>3. CASE outcome = "ok"
    <3>1. t = n
      BY <1>1, <1>2, <2>1, <2>3 DEF Rotation, TokensInTurn
    <3>2. Len(tokens') = n + 1 /\ ~tokens'[n + 1].spent /\ tokens'[n + 1].of = signedIn
      BY <1>1, <1>3, <2>1, <2>3
    <3>3. ASSUME NEW i \in 1..Len(tokens'), tokens'[i].of = signedIn, i # n + 1
          PROVE  tokens'[i].spent
      <4>1. i \in 1..n
        BY <1>1, <3>2, <3>3
      <4>2. tokens[i].spent \/ i = t
        BY <1>3, <2>1, <3>1, <3>3, <4>1 DEF TokensInTurn
      <4> QED BY <1>2, <2>3, <4>1, <4>2 DEF Rotation
    <3>4. OnItsWay(b)'
      BY <1>6, <1>7, <2>3, <3>2 DEF OnItsWay
    <3> QED BY <1>1, <1>6, <2>2, <3>2, <3>3, <3>4 DEF TokensInTurn
  <2>4. CASE outcome = "concurrent"
    <3>1. UNCHANGED tokens
      BY <1>2, <2>4 DEF Rotation
    <3>2. \A c \in Callers : OnItsWay(c) => OnItsWay(c)'
      BY <1>5, <2>4, <3>1 DEF OnItsWay
    <3> QED BY <1>1, <2>1, <2>2, <3>1, <3>2 DEF TokensInTurn
  <2> QED BY <2>1, <2>3, <2>4
<1>17. ASSUME Without(CallHazards), signedIn # 0 PROVE OneByOneLetIn'
  <2>1. /\ OneByOneLetIn /\ TokensInTurn /\ ~tokens[t].revoked /\ outcome \in {"ok", "concurrent"}
    BY <1>2, <1>12, <1>17, HazardsNest DEF SessionInv, Outcomes
  <2>2. \A d \in Callers : d # b => Console!Idle(d) /\ requests'[d] = requests[d]
    BY <1>5, <1>6, <1>17, <2>1 DEF OneByOneLetIn, Console!Idle
  <2>3. b # Tab /\ b \in ConsoleCalls
    BY <1>6, <1>17, <2>1 DEF OneByOneLetIn, Console!Idle, Callers
  <2>4. LetIn(b)
    BY <1>17, <2>1, <2>3 DEF OneByOneLetIn
  <2>5. t = n /\ ~tokens[t].spent
    BY <1>1, <1>6, <2>1, <2>4 DEF LetIn, TokensInTurn
  <2>6. outcome = "ok"
    BY <1>2, <2>1, <2>5
  <2>7. requests'[b].got = n + 1 /\ n + 1 # 0
    BY <1>1, <1>7, <2>6
  <2>8. JustGot(requests[b])'
    BY <1>6, <1>15, <2>4 DEF LetIn
  <2>9. LetIn(b)'
    BY <1>7, <2>6, <2>7, <2>8 DEF LetIn
  <2>10. ASSUME NEW d \in ConsoleCalls, d # b PROVE LetIn(d)'
    <3>1. d \in Callers /\ LetIn(d)
      BY <1>17, <2>1 DEF OneByOneLetIn, Callers
    <3>2. requests'[d] = requests[d] /\ requests[d].pc \in {"idle", "away"} /\ requests[d].got = 0
      BY <2>2, <2>10, <3>1, IdleHoldsNothing DEF SessionInv
    <3> QED BY <3>1, <3>2 DEF LetIn, JustGot
  <2>11. Console!Idle(Tab)' /\ \A c, d \in Callers : ~Console!Idle(c)' /\ ~Console!Idle(d)' => c = d
    BY <2>2, <2>3 DEF Console!Idle, Callers
  <2> QED BY <2>9, <2>10, <2>11 DEF OneByOneLetIn
<1>18. Without(CallHazards) => OneByOneLetIn'
  BY <1>1, <1>17 DEF OneByOneLetIn
<1> QED BY <1>8, <1>9, <1>10, <1>11, <1>13, <1>14, <1>16, <1>18 DEF SessionInv, Without

\* A request the backend has looked at: it is answered, or waits once more.
LEMMA RequestMoves ==
  ASSUME SessionInv, UNCHANGED <<scene, jar, tokens, signIns, signedIn, leaving, granted>>,
         NEW c \in Callers, NEW s \in Requests, requests[c].pc = "sent",
         requests' = [requests EXCEPT ![c] = s], s.pc \in {"waiting", "answered"},
         IF s.pc = "waiting" THEN Joined(c, s) /\ requests[c].refresh # 0 ELSE UNCHANGED flights,
         s.kind = requests[c].kind, s.access = requests[c].access, s.refresh = requests[c].refresh,
         s.factor = requests[c].factor, s.cleared = requests[c].cleared,
         s.got \in {0, requests[c].got}, DoneAtMost(s),
         Without({"backend_error", "lost_answer"}) => DoneOnce(s),
         Without(TokenHazards) => s.got = requests[c].got,
         Without(CallHazards) /\ signedIn # 0 /\ LetIn(c) => LetIn(c)'
  PROVE  SessionInv'
<1> DEFINE r == requests[c]
<1>1. requests'[c] = s /\ \A d \in Callers : d # c => requests'[d] = requests[d]
  BY DEF SessionInv, SessionTypes
<1>2. /\ r \in Requests /\ Known(r) /\ Len(tokens) \in Nat /\ Len(granted) \in Nat
      /\ ~Console!Idle(c) /\ ~Console!Idle(c)'
  BY <1>1, SessionFacts DEF SessionInv, SessionBounds, Console!Idle
<1>3. FlightsAgree' /\ flights' \subseteq Refreshing
  <2>1. CASE s.pc = "waiting"
    <3>1. s.refresh \in 1..Len(tokens)
      BY <1>2, <2>1 DEF Known, Requests
    <3> QED BY <1>1, <2>1, <3>1, FlightsJoined DEF SessionInv
  <2>2. CASE s.pc # "waiting"
    <3>1. \A f \in flights : f.by \in Callers /\ f.by # c
      BY DEF SessionInv, SessionTypes, Refreshing, FlightsAgree
    <3> QED BY <1>1, <2>2, <3>1, FlightsKept DEF SessionInv, SessionTypes
  <2> QED BY <2>1, <2>2
<1>4. SessionTypes'
  <2>1. requests' \in [Callers -> Requests]
    BY DEF SessionInv, SessionTypes
  <2> QED BY <1>3, <2>1 DEF SessionInv, SessionTypes
<1>5. SessionBounds'
  <2>1. Known(s)
    BY <1>2 DEF Known
  <2> QED BY <1>1, <2>1 DEF SessionInv, SessionBounds, Known
<1>6. SessionShape'
  <2>1. RequestShape(c)'
    BY <1>1 DEF RequestShape, Without
  <2> QED BY <1>1, <2>1 DEF SessionInv, SessionShape, RequestShape, Without
<1>7. ASSUME Without(SignHazards) PROVE SignsApart'
  <2>1. SignsApart
    BY <1>7 DEF SessionInv
  <2>2. \A d \in Callers : RequestOfThis(d)'
    <3>1. ASSUME NEW d \in Callers PROVE Console!Idle(d)' <=> Console!Idle(d)
      BY <1>1, <1>2 DEF Console!Idle
    <3>2. RequestOfThis(c)'
      <4>1. RequestOfThis(c)
        BY <2>1 DEF SignsApart
      <4> QED BY <1>1, <3>1, <4>1 DEF RequestOfThis, OfThisSignIn, GivenToThis
    <3>3. ASSUME NEW d \in Callers, d # c PROVE RequestOfThis(d)'
      <4>1. RequestOfThis(d)
        BY <2>1 DEF SignsApart
      <4> QED BY <1>1, <3>1, <3>3, <4>1 DEF RequestOfThis, OfThisSignIn, GivenToThis
    <3> QED BY <3>2, <3>3
  <2>3. ~leaving
    BY <1>2, <2>1 DEF SignsApart
  <2> QED BY <2>1, <2>2, <2>3 DEF SignsApart, OfThisSignIn, GivenToThis
<1>8. ASSUME Without(FactorHazards) PROVE FactorNewest'
  BY <1>1, <1>8 DEF SessionInv, FactorNewest, IsNewest
<1>9. ASSUME Without(TokenHazards) PROVE TokensInTurn'
  <2>1. TokensInTurn /\ s.got = r.got
    BY <1>9 DEF SessionInv
  <2>2. \A d \in Callers : OnItsWay(d) => OnItsWay(d)'
    BY <1>1, <2>1 DEF OnItsWay
  <2>3. \A d \in Callers :
          LET q == requests'[d] IN
          /\ q.pc \in {"waiting", "sent"} /\ q.got # 0 => q.refresh # 0 /\ tokens[q.refresh].spent
          /\ q.kind = "verify" => JustGot(q)
    BY <1>1, <2>1 DEF TokensInTurn, JustGot
  <2> QED BY <2>1, <2>2, <2>3 DEF TokensInTurn, JustGot
<1>10. ASSUME Without(CallHazards), signedIn # 0 PROVE OneByOneLetIn'
  <2>1. OneByOneLetIn
    BY <1>10 DEF SessionInv
  <2>2. \A d \in Callers : Console!Idle(d)' <=> Console!Idle(d)
    BY <1>1, <1>2 DEF Console!Idle
  <2>3. ASSUME NEW d \in ConsoleCalls PROVE LetIn(d)'
    <3>1. LetIn(d)
      BY <1>10, <2>1 DEF OneByOneLetIn
    <3>2. d # c => LetIn(d)'
      BY <1>1, <3>1 DEF LetIn, JustGot, Callers
    <3> QED BY <1>10, <3>1, <3>2
  <2> QED BY <1>10, <2>1, <2>2, <2>3 DEF OneByOneLetIn, Callers
<1>11. Without(CallHazards) => OneByOneLetIn'
  BY <1>10 DEF OneByOneLetIn
<1> QED BY <1>3, <1>4, <1>5, <1>6, <1>7, <1>8, <1>9, <1>11 DEF SessionInv, Without

\* What is so of a request at the backend.
LEMMA SentRequest ==
  ASSUME SessionInv, NEW c \in Callers, requests[c].pc = "sent"
  PROVE  LET r == requests[c] IN
         /\ r \in Requests /\ Known(r) /\ r.kind \in {"api", "verify"}
         /\ r.done = 0 \/ (r.done = 1 /\ r.again)
         /\ Without({"backend_error", "lost_answer"}) => r.done = 0
         /\ Without(TokenHazards) /\ r.kind = "verify" /\ r.got # 0 => Console!Valid(r.got)
         /\ Without(CallHazards) /\ signedIn # 0 /\ LetIn(c) =>
              /\ ~r.cleared /\ (r.got # 0 => Console!Valid(r.got))
              /\ r.got = 0 => r.refresh = Len(tokens) /\ r.refresh # 0 /\ ~r.second
<1> DEFINE r == requests[c]
<1>1. r \in Requests /\ Known(r) /\ RequestShape(c)
  BY SessionFacts DEF SessionInv, SessionBounds, SessionShape
<1>2. /\ r.kind \in {"api", "verify"}
      /\ r.done = 0 \/ (r.done = 1 /\ r.again)
      /\ Without({"backend_error", "lost_answer"}) => r.done = 0
  BY <1>1 DEF RequestShape, DoneAtMost, DoneOnce
<1>3. JustGot(r) /\ r.got # 0 => Console!Valid(r.got)
  BY DEF JustGot, Console!Valid
<1>4. Without(TokenHazards) /\ r.kind = "verify" => JustGot(r)
  BY DEF SessionInv, TokensInTurn
<1>5. ASSUME Without(CallHazards), signedIn # 0, LetIn(c)
      PROVE  /\ ~r.cleared /\ JustGot(r)
             /\ r.got = 0 => r.refresh = Len(tokens) /\ r.refresh # 0 /\ ~r.second
  <2>1. SignsApart /\ TokensInTurn
    BY <1>5, HazardsNest DEF SessionInv
  <2>2. ~r.cleared /\ Len(tokens) # 0
    BY <1>5, <2>1 DEF SignsApart, RequestOfThis, TokensInTurn
  <2> QED BY <1>5, <2>2 DEF LetIn
<1> QED BY <1>1, <1>2, <1>3, <1>4, <1>5

LEMMA RequestRejected ==
  ASSUME SessionInv, UNCHANGED scene, NEW c \in ConsoleCalls, Console!Rejected(c)
  PROVE  SessionInv'
<1> DEFINE r == requests[c]
           s == [r EXCEPT !.second = TRUE]
           w == [s EXCEPT !.pc = "waiting"]
           y == [r EXCEPT !.got = IF r.kind = "verify" THEN 0 ELSE @]
           z == Console!Answered(y, "unauthorized")
           repeats == r.kind = "api" /\ ~r.second /\ r.refresh # 0 /\ ~r.cleared
<1>1. /\ UNCHANGED <<jar, tokens, signIns, signedIn, leaving, granted>> /\ r.pc = "sent"
      /\ ~Console!Valid(Console!Used(r))
           \/ (IF r.kind = "api" THEN "backend_401" ELSE "wrong_code") \in scene
      /\ IF repeats THEN Console!RunRefreshWithTokenLock(c, s)
         ELSE requests' = [requests EXCEPT ![c] = z] /\ UNCHANGED flights
  BY DEF Console!Rejected
<1>2. c \in Callers
  BY DEF Callers
<1>3. /\ r \in Requests /\ r.kind \in {"api", "verify"}
      /\ r.done = 0 \/ (r.done = 1 /\ r.again)
      /\ Without({"backend_error", "lost_answer"}) => r.done = 0
  BY <1>1, <1>2, SentRequest
<1>4. Without(TokenHazards) /\ r.kind = "verify" => r.got = 0
  BY <1>1, <1>2, SentRequest, HazardsNest DEF Console!Used
<1>5. ASSUME Without(CallHazards), signedIn # 0, LetIn(c)
      PROVE  /\ r.got = 0 /\ r.refresh = Len(tokens) /\ r.refresh # 0 /\ ~r.second /\ ~r.cleared
             /\ r.kind = "api" => repeats
  <2>1. ~Console!Valid(Console!Used(r))
    BY <1>1, <1>5, HazardsNest
  <2>2. r.got = 0
    BY <1>1, <1>2, <1>5, <2>1, SentRequest DEF Console!Used
  <2> QED BY <1>1, <1>2, <1>5, <2>2, SentRequest
<1>6. CASE repeats
  <2>1. /\ s \in Requests /\ s.kind = r.kind /\ s.access = r.access /\ s.refresh = r.refresh
        /\ s.factor = r.factor /\ s.cleared = r.cleared /\ s.got = r.got /\ s.done = r.done
        /\ s.again = r.again
    BY <1>3 DEF Requests
  <2> HIDE DEF s
  <2>2. /\ w \in Requests /\ w.pc = "waiting" /\ w.kind = r.kind /\ w.access = r.access
        /\ w.refresh = r.refresh /\ w.factor = r.factor /\ w.cleared = r.cleared /\ w.got = r.got
        /\ w.done = r.done /\ w.again = r.again
    BY <2>1 DEF Requests, Console!Pcs
  <2>3. /\ requests' = [requests EXCEPT ![c] = w]
        /\ flights' = IF \E f \in flights : f.pool = Console!PoolOf(s.kind) /\ f.token = s.refresh
                      THEN flights
                      ELSE flights \cup {[pool |-> Console!PoolOf(s.kind), token |-> s.refresh,
                                          kind |-> s.kind, by |-> c]}
    BY <1>1, <1>6 DEF Console!RunRefreshWithTokenLock
  <2> HIDE DEF w
  <2>4. Joined(c, w)
    BY <2>1, <2>2, <2>3 DEF Joined
  <2>5. DoneAtMost(w) /\ (Without({"backend_error", "lost_answer"}) => DoneOnce(w))
    BY <1>3, <2>2 DEF DoneAtMost, DoneOnce
  <2>6. ASSUME Without(CallHazards), signedIn # 0, LetIn(c) PROVE LetIn(c)'
    <3>1. requests'[c] = w
      BY <1>2, <2>3 DEF SessionInv, SessionTypes
    <3> QED BY <1>1, <1>5, <2>2, <2>6, <3>1 DEF LetIn, JustGot
  <2> QED BY <1>1, <1>2, <1>6, <2>2, <2>3, <2>4, <2>5, <2>6, RequestMoves
<1>7. CASE ~repeats
  <2>1. /\ y \in Requests /\ y.kind = r.kind /\ y.access = r.access /\ y.refresh = r.refresh
        /\ y.factor = r.factor /\ y.cleared = r.cleared /\ y.done = r.done /\ y.again = r.again
        /\ y.got = (IF r.kind = "verify" THEN 0 ELSE r.got)
    BY <1>3 DEF Requests
  <2> HIDE DEF y
  <2>2. "unauthorized" \in Console!Statuses
    BY DEF Console!Statuses
  <2>3. /\ z \in Requests /\ z.pc = "answered" /\ z.status = "unauthorized" /\ z.kind = r.kind
        /\ z.access = r.access /\ z.refresh = r.refresh /\ z.factor = r.factor
        /\ z.cleared = r.cleared /\ z.done = r.done /\ z.again = r.again /\ z.got = y.got
    BY <2>1, <2>2, AnsweredRequest DEF SameCall
  <2> HIDE DEF z
  <2>4. requests' = [requests EXCEPT ![c] = z] /\ UNCHANGED flights
    BY <1>1, <1>7
  <2>5. DoneAtMost(z) /\ (Without({"backend_error", "lost_answer"}) => DoneOnce(z))
    BY <1>3, <2>3 DEF DoneAtMost, DoneOnce
  <2>6. z.got \in {0, r.got} /\ (Without(TokenHazards) => z.got = r.got)
    BY <1>4, <2>1, <2>3
  <2>7. ASSUME Without(CallHazards), signedIn # 0, LetIn(c) PROVE LetIn(c)'
    <3>1. requests'[c] = z /\ z.kind # "api" /\ z.got = 0
      BY <1>2, <1>5, <1>7, <2>3, <2>4, <2>6, <2>7 DEF SessionInv, SessionTypes
    <3> QED BY <2>3, <3>1 DEF LetIn, JustGot
  <2> QED BY <1>1, <1>2, <2>3, <2>4, <2>5, <2>6, <2>7, RequestMoves
<1> QED BY <1>6, <1>7

LEMMA RequestAccepted ==
  ASSUME SessionInv, UNCHANGED scene, NEW c \in ConsoleCalls, Console!Accepted(c)
  PROVE  SessionInv'
<1> DEFINE r == requests[c]
           y == [r EXCEPT !.done = @ + 1]
<1>1. c \in Callers
  BY DEF Callers
<1>2. PICK status \in {"ok"} \cup (IF "backend_error" \in scene THEN {"error"} ELSE {}) :
        requests' = [requests EXCEPT ![c] = Console!Answered(y, status)]
  BY DEF Console!Accepted
<1>3. /\ r.pc = "sent" /\ r.kind = "api"
      /\ UNCHANGED <<jar, tokens, signIns, signedIn, leaving, granted, flights>>
  BY DEF Console!Accepted
<1>4. /\ r \in Requests /\ (r.done = 0 \/ (r.done = 1 /\ r.again))
      /\ Without({"backend_error", "lost_answer"}) => r.done = 0
  BY <1>1, <1>3, SentRequest
<1>5. /\ y \in Requests /\ y.kind = r.kind /\ y.access = r.access /\ y.refresh = r.refresh
      /\ y.factor = r.factor /\ y.cleared = r.cleared /\ y.done = r.done + 1
      /\ y.again = r.again /\ y.got = r.got
  <2>1. r.done + 1 \in 0..2
    BY <1>4
  <2> QED BY <1>4, <2>1 DEF Requests
<1> HIDE DEF y
<1> DEFINE z == Console!Answered(y, status)
<1>6. status \in Console!Statuses /\ (status = "ok" \/ "backend_error" \in scene)
  BY <1>2 DEF Console!Statuses
<1>7. /\ z \in Requests /\ z.pc = "answered" /\ z.status = status /\ z.kind = r.kind
      /\ z.access = r.access /\ z.refresh = r.refresh /\ z.factor = r.factor
      /\ z.cleared = r.cleared /\ z.done = r.done + 1 /\ z.again = r.again /\ z.got = r.got
  BY <1>5, <1>6, AnsweredRequest DEF SameCall
<1>8. requests' = [requests EXCEPT ![c] = z]
  BY <1>2
<1> HIDE DEF z
<1>9. DoneAtMost(z) /\ (Without({"backend_error", "lost_answer"}) => DoneOnce(z))
  <2>1. status # "unauthorized"
    BY <1>2
  <2>2. DoneAtMost(z)
    BY <1>4, <1>7, <2>1 DEF DoneAtMost
  <2>3. Without({"backend_error", "lost_answer"}) => DoneOnce(z)
    BY <1>4, <1>6, <1>7 DEF DoneOnce, Without
  <2> QED BY <2>2, <2>3
<1>10. ASSUME Without(CallHazards), LetIn(c) PROVE LetIn(c)'
  <2>1. status = "ok" /\ requests'[c] = z
    BY <1>1, <1>6, <1>8, <1>10, HazardsNest DEF SessionInv, SessionTypes
  <2> QED BY <1>3, <1>7, <1>10, <2>1 DEF LetIn, JustGot
<1> QED BY <1>1, <1>3, <1>7, <1>8, <1>9, <1>10, RequestMoves

\* A code that is right gives the session a second factor, newer than any other.
LEMMA FactorGiven ==
  ASSUME SessionInv, UNCHANGED <<scene, jar, tokens, signIns, signedIn, leaving, flights>>,
         NEW c \in ConsoleCalls, requests[c].pc = "sent", requests[c].kind = "verify",
         Console!Valid(Console!Used(requests[c])),
         granted' = Append(granted, tokens[Console!Used(requests[c])].of),
         requests' = [requests EXCEPT ![c] =
           Console!Answered([requests[c] EXCEPT !.factor = Len(granted) + 1], "ok")]
  PROVE  SessionInv'
<1> DEFINE r == requests[c]
           k == Len(granted) + 1
           u == Console!Used(r)
           g == tokens[u].of
           y == [r EXCEPT !.factor = k]
           z == Console!Answered(y, "ok")
<1>1. /\ c \in Callers /\ r \in Requests /\ Known(r) /\ r.kind = "verify" /\ RequestShape(c)
      /\ Len(granted) \in Nat /\ Len(tokens) \in Nat /\ k \in Nat /\ k # 0
      /\ (r.done = 0 \/ (r.done = 1 /\ r.again))
      /\ Without({"backend_error", "lost_answer"}) => r.done = 0
  <2>1. c \in Callers
    BY DEF Callers
  <2> QED BY <2>1, SentRequest, SessionFacts DEF SessionInv, SessionShape
<1>2. u \in 1..Len(tokens) /\ u \in {r.got, r.access}
  BY <1>1 DEF Console!Used, Console!Valid, Known, Requests
<1>3. g \in 1..signIns /\ g \in Nat /\ signIns \in Nat
  <2>1. g \in 1..signIns /\ signIns \in Nat
    BY <1>2, SessionFacts DEF SessionInv, SessionBounds
  <2> QED BY <2>1
<1>4. /\ y \in Requests /\ y.kind = r.kind /\ y.access = r.access /\ y.refresh = r.refresh
      /\ y.factor = k /\ y.cleared = r.cleared /\ y.got = r.got /\ y.done = r.done
      /\ y.again = r.again
  BY <1>1 DEF Requests
<1> HIDE DEF y
<1>5. "ok" \in Console!Statuses
  BY DEF Console!Statuses
<1>6. /\ z \in Requests /\ z.pc = "answered" /\ z.status = "ok" /\ z.kind = "verify"
      /\ z.access = r.access /\ z.refresh = r.refresh /\ z.factor = k /\ z.cleared = r.cleared
      /\ z.got = r.got /\ z.done = r.done /\ z.again = r.again
  BY <1>1, <1>4, <1>5, AnsweredRequest DEF SameCall
<1>7. requests' = [requests EXCEPT ![c] = z]
  BY DEF y
<1> HIDE DEF z, u
<1>8. /\ granted' \in Seq(Nat) /\ Len(granted') = k /\ granted'[k] = g
      /\ \A i \in 1..Len(granted) : granted'[i] = granted[i]
  BY <1>3, FactorAdded DEF SessionInv, u
<1>9. requests'[c] = z /\ \A d \in Callers : d # c => requests'[d] = requests[d]
  BY <1>1, <1>7 DEF SessionInv, SessionTypes
<1> HIDE DEF g, k
<1>10. SessionTypes'
  <2>1. requests' \in [Callers -> Requests]
    BY <1>6, <1>7 DEF SessionInv, SessionTypes
  <2> QED BY <1>8, <2>1 DEF SessionInv, SessionTypes
<1>11. Len(granted') = Len(granted) + 1
  BY <1>8 DEF k
<1>12. SessionBounds'
  <2>1. ASSUME NEW d \in Callers, d # c PROVE Known(requests[d])'
    <3>1. Known(requests[d]) /\ requests[d] \in Requests
      BY SessionFacts DEF SessionInv, SessionBounds
    <3> QED BY <1>1, <1>9, <1>11, <2>1, <3>1 DEF Known, Requests
  <2>2. Known(requests[c])'
    BY <1>6, <1>8, <1>9, <1>1 DEF Known
  <2>3. \A i \in 1..Len(granted') : granted'[i] \in 1..signIns
    <3>1. \A i \in 1..Len(granted') : i = k \/ i \in 1..Len(granted)
      BY <1>1, <1>8 DEF k
    <3> QED BY <1>3, <1>8, <3>1 DEF SessionInv, SessionBounds
  <2>4. jar.factor <= Len(granted')
    <3>1. jar.factor \in Nat /\ jar.factor <= Len(granted)
      BY SessionFacts DEF SessionInv, SessionBounds
    <3> QED BY <1>1, <1>11, <3>1
  <2> QED BY <2>1, <2>2, <2>3, <2>4 DEF SessionInv, SessionBounds
<1>13. FlightsAgree'
  <2>1. \A f \in flights : f.by \in Callers /\ f.by # c
    BY DEF SessionInv, SessionTypes, Refreshing, FlightsAgree
  <2> QED BY <1>9, <2>1, FlightsKept DEF SessionInv
<1>14. SessionShape'
  <2>1. DoneAtMost(z) /\ (Without({"backend_error", "lost_answer"}) => DoneOnce(z))
    BY <1>1, <1>6 DEF DoneAtMost, DoneOnce
  <2>2. RequestShape(c)'
    BY <1>6, <1>9, <2>1 DEF RequestShape, Without
  <2> QED BY <1>9, <2>2 DEF SessionInv, SessionShape, RequestShape, Without
<1>15. ASSUME Without(SignHazards)
       PROVE  /\ SignsApart /\ g = signedIn /\ ~leaving
              /\ \A d \in Callers : d # c => Console!Idle(d) /\ requests[d].factor = 0
                                             /\ requests[d].kind = "page"
  <2>1. SignsApart
    BY <1>15 DEF SessionInv
  <2>2. RequestOfThis(c) /\ ~leaving
    BY <1>1, <2>1 DEF SignsApart, Console!Idle
  <2>3. g = signedIn
    BY <1>2, <2>2 DEF RequestOfThis, OfThisSignIn, g
  <2> QED BY <1>1, <2>1, <2>2, <2>3, IdleHoldsNothing DEF SessionInv, RequestOfThis
<1>16. ASSUME Without(SignHazards) PROVE SignsApart'
  <2>1. RequestOfThis(c) /\ OfThisSignIn(jar.refresh) /\ GivenToThis(jar.factor)
    BY <1>1, <1>15, <1>16 DEF SignsApart
  <2>2. RequestOfThis(c)'
    <3>1. OfThisSignIn(z.access) /\ OfThisSignIn(z.refresh) /\ OfThisSignIn(z.got) /\ ~z.cleared
      BY <1>6, <2>1 DEF RequestOfThis
    <3>2. granted'[z.factor] = signedIn
      BY <1>6, <1>8, <1>15, <1>16
    <3>3. \A d \in Callers : d # c => Console!Idle(d)'
      BY <1>9, <1>15, <1>16 DEF Console!Idle
    <3> QED BY <1>9, <3>1, <3>2, <3>3 DEF RequestOfThis, OfThisSignIn, GivenToThis
  <2>3. ASSUME NEW d \in Callers, d # c PROVE RequestOfThis(d)'
    <3>1. RequestOfThis(d) /\ requests[d].factor = 0 /\ requests[d].kind = "page"
      BY <1>15, <1>16, <2>3 DEF SignsApart
    <3> QED BY <1>9, <2>3, <3>1 DEF RequestOfThis, OfThisSignIn, GivenToThis
  <2>4. GivenToThis(jar.factor)'
    <3>1. jar.factor # 0 => jar.factor \in 1..Len(granted)
      <4>1. jar.factor \in Nat /\ jar.factor <= Len(granted)
        BY SessionFacts DEF SessionInv, SessionBounds
      <4> QED BY <1>1, <4>1
    <3> QED BY <1>8, <2>1, <3>1 DEF GivenToThis
  <2> QED BY <1>15, <1>16, <2>2, <2>3, <2>4 DEF SignsApart, OfThisSignIn
<1>17. ASSUME Without(FactorHazards) PROVE FactorNewest'
  <2>1. \A d \in Callers : d # c => requests[d].factor = 0
    BY <1>15, <1>17, HazardsNest
  <2>2. \A d \in Callers : IsNewest(requests[d].factor)'
    BY <1>6, <1>8, <1>9, <2>1 DEF IsNewest
  <2> QED BY <1>1, <1>6, <1>8, <1>9, <2>2 DEF FactorNewest
<1>18. ASSUME Without(TokenHazards) PROVE TokensInTurn'
  <2>1. TokensInTurn
    BY <1>18 DEF SessionInv
  <2>2. \A d \in Callers : OnItsWay(d) => OnItsWay(d)'
    BY <1>6, <1>9 DEF OnItsWay
  <2>3. \A d \in Callers :
          LET q == requests'[d] IN
          /\ q.pc \in {"waiting", "sent"} /\ q.got # 0 => q.refresh # 0 /\ tokens[q.refresh].spent
          /\ q.kind = "verify" => JustGot(q)
    BY <1>1, <1>6, <1>9, <2>1 DEF TokensInTurn, JustGot
  <2> QED BY <2>1, <2>2, <2>3 DEF TokensInTurn, JustGot
<1>19. ASSUME Without(CallHazards), signedIn # 0 PROVE OneByOneLetIn'
  <2>1. OneByOneLetIn
    BY <1>19 DEF SessionInv
  <2>2. \A d \in Callers : Console!Idle(d)' <=> Console!Idle(d)
    BY <1>6, <1>9 DEF Console!Idle
  <2>3. ASSUME NEW d \in ConsoleCalls PROVE LetIn(d)'
    <3>1. LetIn(d)
      BY <1>19, <2>1 DEF OneByOneLetIn
    <3>2. d # c => LetIn(d)'
      BY <1>9, <3>1 DEF LetIn, JustGot, Callers
    <3>3. d = c => LetIn(d)'
      BY <1>6, <1>9, <3>1 DEF LetIn, JustGot
    <3> QED BY <3>2, <3>3
  <2> QED BY <1>19, <2>1, <2>2, <2>3 DEF OneByOneLetIn, Callers
<1>20. Without(CallHazards) => OneByOneLetIn'
  BY <1>19 DEF OneByOneLetIn
<1> QED BY <1>10, <1>12, <1>13, <1>14, <1>16, <1>17, <1>18, <1>20 DEF SessionInv, Without

LEMMA CodeIsChecked ==
  ASSUME SessionInv, UNCHANGED scene, NEW c \in ConsoleCalls, Console!CodeChecked(c)
  PROVE  SessionInv'
<1> DEFINE r == requests[c]
           y == [r EXCEPT !.got = 0]
           z == Console!Answered(y, "error")
<1>1. /\ r.pc = "sent" /\ r.kind = "verify" /\ Console!Valid(Console!Used(r))
      /\ UNCHANGED <<jar, tokens, signIns, signedIn, leaving, flights>>
      /\ \/ /\ granted' = Append(granted, tokens[Console!Used(r)].of)
            /\ requests' = [requests EXCEPT ![c] =
                 Console!Answered([r EXCEPT !.factor = Len(granted) + 1], "ok")]
         \/ /\ "wrong_code" \in scene /\ requests' = [requests EXCEPT ![c] = z]
            /\ UNCHANGED granted
  BY DEF Console!CodeChecked
<1>2. CASE "wrong_code" \in scene /\ requests' = [requests EXCEPT ![c] = z] /\ UNCHANGED granted
  <2>1. c \in Callers
    BY DEF Callers
  <2>2. /\ r \in Requests /\ (r.done = 0 \/ (r.done = 1 /\ r.again))
        /\ Without({"backend_error", "lost_answer"}) => r.done = 0
    BY <1>1, <2>1, SentRequest
  <2>3. /\ y \in Requests /\ y.kind = r.kind /\ y.access = r.access /\ y.refresh = r.refresh
        /\ y.factor = r.factor /\ y.cleared = r.cleared /\ y.done = r.done
        /\ y.again = r.again /\ y.got = 0
    BY <2>2 DEF Requests
  <2> HIDE DEF y
  <2>4. "error" \in Console!Statuses
    BY DEF Console!Statuses
  <2>5. /\ z \in Requests /\ z.pc = "answered" /\ z.status = "error" /\ z.kind = r.kind
        /\ z.access = r.access /\ z.refresh = r.refresh /\ z.factor = r.factor
        /\ z.cleared = r.cleared /\ z.done = r.done /\ z.again = r.again /\ z.got = 0
    BY <2>3, <2>4, AnsweredRequest DEF SameCall
  <2> HIDE DEF z
  <2>6. DoneAtMost(z) /\ (Without({"backend_error", "lost_answer"}) => DoneOnce(z))
    BY <2>2, <2>5 DEF DoneAtMost, DoneOnce
  <2>7. ~Without(TokenHazards) /\ ~Without(CallHazards)
    BY <1>2, HazardsNest
  <2> QED BY <1>1, <1>2, <2>1, <2>5, <2>6, <2>7, RequestMoves
<1>3. CASE /\ granted' = Append(granted, tokens[Console!Used(r)].of)
           /\ requests' = [requests EXCEPT ![c] =
                Console!Answered([r EXCEPT !.factor = Len(granted) + 1], "ok")]
  BY <1>1, <1>3, FactorGiven
<1> QED BY <1>1, <1>2, <1>3

\* What an answer leaves of the requests: its own ends or is repeated, and the
\* tab's renewal takes every call that waits for it along.
Settles(c, q) ==
  /\ requests' \in [Callers -> Requests]
  /\ \/ Ends(requests'[c])
     \/ Repeats(requests'[c], q) /\ q.status # "ok"
  /\ requests'[c].pc = "away" => q.status = "away" \/ (q.kind = "api" /\ q.status # "ok")
  /\ \A d \in Callers \ {c} :
       \/ requests'[d] = requests[d]
       \/ /\ requests[d].pc = "renewing"
          /\ Ends(requests'[d]) \/ Repeats(requests'[d], requests[d])

LEMMA SettledFacts ==
  ASSUME SessionTypes, SessionShape, NEW c \in Callers, NEW q \in Requests, q.pc = "answered",
         NEW stays \in BOOLEAN, Console!Settled(c, q, stays)
  PROVE  Settles(c, q)
<1>1. requests \in [Callers -> Requests] /\ DOMAIN requests = Callers
  BY DEF SessionTypes
<1>2. CASE c # Tab
  <2> DEFINE s == Console!AfterAnswer(q, stays)
  <2>1. requests' = [requests EXCEPT ![c] = s]
    BY <1>2 DEF Console!Settled
  <2>2. /\ s \in Requests /\ (Ends(s) \/ (Repeats(s, q) /\ q.status # "ok"))
        /\ s.pc = "away" => q.status = "away" \/ (q.kind = "api" /\ q.status # "ok")
    BY AfterAnswerFacts
  <2> HIDE DEF s
  <2>3. /\ requests' \in [Callers -> Requests] /\ requests'[c] = s
        /\ \A d \in Callers \ {c} : requests'[d] = requests[d]
    BY <1>1, <2>1, <2>2
  <2> QED BY <2>2, <2>3 DEF Settles
<1>3. CASE c = Tab
  <2> DEFINE blank == Console!Ended("idle")
             after(d) == Console!AfterRenewal(requests[d], q.status = "ok", stays)
  <2>1. blank \in Requests /\ Ends(blank) /\ blank.pc = "idle"
    BY EndedRequest
  <2>2. requests' = [d \in Callers |-> IF d = c THEN blank
                                       ELSE IF requests[d].pc = "renewing" THEN after(d)
                                       ELSE requests[d]]
    BY <1>1, <1>3 DEF Console!Settled
  <2>3. ASSUME NEW d \in Callers, requests[d].pc = "renewing"
        PROVE  after(d) \in Requests /\ (Ends(after(d)) \/ Repeats(after(d), requests[d]))
    <3>1. requests[d] \in Requests /\ requests[d].kind = "api"
      BY <1>1, <2>3 DEF SessionShape, RequestShape
    <3> QED BY <2>3, <3>1, AfterRenewalFacts
  <2> HIDE DEF blank, after
  <2>4. requests' \in [Callers -> Requests]
    BY <1>1, <2>1, <2>2, <2>3
  <2>5. requests'[c] = blank
    BY <2>2
  <2>6. ASSUME NEW d \in Callers \ {c}
        PROVE  \/ requests'[d] = requests[d]
               \/ /\ requests[d].pc = "renewing"
                  /\ Ends(requests'[d]) \/ Repeats(requests'[d], requests[d])
    <3>1. requests'[d] = IF requests[d].pc = "renewing" THEN after(d) ELSE requests[d]
      BY <2>2, <2>6
    <3> QED BY <2>3, <2>6, <3>1
  <2> QED BY <2>1, <2>4, <2>5, <2>6 DEF Settles
<1> QED BY <1>2, <1>3

LEMMA EndsWithNothing ==
  ASSUME NEW s, Ends(s)
  PROVE  /\ s.pc \in {"idle", "away"} /\ s.kind = "page" /\ s.access = 0 /\ s.refresh = 0
         /\ s.factor = 0 /\ s.got = 0 /\ ~s.cleared /\ DoneAtMost(s) /\ DoneOnce(s)
<1> DEFINE pc == s.pc
<1>1. pc \in {"idle", "away"} /\ s = Console!Ended(pc)
  BY DEF Ends
<1> HIDE DEF pc
<1> QED BY <1>1, EndedRequest

\* An answer arrives, or is lost: in both, the browser is done with it.
LEMMA AnswerEnds ==
  ASSUME SessionInv, UNCHANGED <<scene, tokens, signIns, signedIn, leaving, granted, flights>>,
         NEW c \in Callers, NEW q, requests[c].pc = "answered", Settles(c, q),
         q.kind = requests[c].kind, q.access = requests[c].access, q.refresh = requests[c].refresh,
         q.factor = requests[c].factor, q.got = requests[c].got, q.cleared = requests[c].cleared,
         q.done = requests[c].done, DoneAtMost(q),
         jar' \in [access : Nat, refresh : Nat, factor : Nat], jar'.access \in {0, jar'.refresh},
         \/ jar'.refresh = jar.refresh
         \/ requests[c].cleared /\ jar'.refresh = 0
         \/ requests[c].got # 0 /\ jar'.refresh = requests[c].got,
         jar'.factor \in {0, jar.factor, requests[c].factor},
         "lost_answer" \notin scene =>
           /\ q.status = requests[c].status
           /\ requests[c].got # 0 => jar'.refresh = requests[c].got
           /\ requests[c].kind = "verify" /\ requests[c].status = "ok" /\ requests[c].factor # 0 =>
                jar'.factor = requests[c].factor
           /\ "late_answer" \in scene \/ requests[c].got = 0 \/ requests[c].got >= jar.refresh
  PROVE  SessionInv'
<1> DEFINE r == requests[c]
<1>1. /\ Len(tokens) \in Nat /\ Len(granted) \in Nat /\ jar.refresh \in Nat /\ jar.factor \in Nat
      /\ jar'.refresh \in Nat /\ jar'.factor \in Nat
      /\ \A d \in Callers : requests[d] \in Requests /\ Known(requests[d]) /\ RequestShape(d)
  BY SessionFacts DEF SessionInv, SessionBounds, SessionShape
<1>2. ASSUME NEW d \in Callers
      PROVE  LET s == requests'[d] IN
             \/ s = requests[d] /\ d # c
             \/ Ends(s) /\ requests[d].pc \in {"answered", "renewing"}
             \/ /\ requests[d].pc \in {"answered", "renewing"} /\ s.pc \in {"renewing", "ready"}
                /\ requests[d].kind = "api" /\ s.kind = "api"
                /\ s.access = requests[d].access /\ s.refresh = requests[d].refresh
                /\ s.factor = requests[d].factor /\ s.got = requests[d].got
                /\ s.cleared = requests[d].cleared /\ s.done = requests[d].done /\ DoneAtMost(s)
                /\ d = c => q.status # "ok"
  <2>1. CASE d = c
    BY <2>1 DEF Settles, Repeats
  <2>2. CASE d # c
    <3>1. DoneAtMost(requests[d])
      BY <1>1 DEF RequestShape
    <3> QED BY <2>2, <3>1 DEF Settles, Repeats
  <2> QED BY <2>1, <2>2
<1>3. SessionTypes'
  BY DEF SessionInv, SessionTypes, Settles
<1>4. SessionBounds'
  <2>1. ASSUME NEW d \in Callers PROVE Known(requests[d])'
    <3>1. CASE Ends(requests'[d])
      BY <1>1, <3>1, EndsWithNothing DEF Known
    <3>2. CASE ~Ends(requests'[d])
      BY <1>1, <1>2, <3>2 DEF Known
    <3> QED BY <3>1, <3>2
  <2>2. jar'.refresh <= Len(tokens) /\ jar'.factor <= Len(granted)
    <3>1. Known(r) /\ jar.refresh <= Len(tokens) /\ jar.factor <= Len(granted)
      BY <1>1 DEF SessionInv, SessionBounds
    <3> QED BY <1>1, <3>1 DEF Known
  <2> QED BY <2>1, <2>2 DEF SessionInv, SessionBounds
<1>5. FlightsAgree'
  <2>1. \A f \in flights : f.by \in Callers /\ requests[f.by].pc = "waiting"
    BY DEF SessionInv, SessionTypes, Refreshing, FlightsAgree
  <2>2. \A f \in flights : requests'[f.by] = requests[f.by]
    BY <1>2, <2>1
  <2> QED BY <2>2, FlightsKept DEF SessionInv
<1>6. SessionShape'
  <2>1. ASSUME NEW d \in Callers, Ends(requests'[d]) PROVE RequestShape(d)'
    <3>1. DoneAtMost(requests'[d]) /\ DoneOnce(requests'[d])
      BY <2>1, EndsWithNothing
    <3> QED BY <2>1, <3>1 DEF Ends, RequestShape, Without
  <2>2. ASSUME NEW d \in Callers, requests'[d] = requests[d] PROVE RequestShape(d)'
    BY <1>1, <2>2 DEF RequestShape, Without
  <2>3. ASSUME NEW d \in Callers, ~Ends(requests'[d]), requests'[d] # requests[d]
        PROVE  RequestShape(d)'
    <3>1. /\ requests[d].pc \in {"answered", "renewing"} /\ requests'[d].pc \in {"renewing", "ready"}
          /\ requests'[d].kind = "api" /\ requests'[d].done = requests[d].done
          /\ DoneAtMost(requests'[d]) /\ (d = c => q.status # "ok")
      BY <1>2, <2>3
    <3>2. requests[d].pc = "answered" => d = c
      BY <2>3 DEF Settles
    <3>3. ASSUME Without({"backend_error", "lost_answer"}) PROVE requests'[d].done = 0
      <4>1. DoneOnce(requests[d]) /\ "lost_answer" \notin scene
        BY <1>1, <3>3 DEF RequestShape, Without
      <4> QED BY <3>1, <3>2, <4>1 DEF DoneOnce
    <3> QED BY <3>1, <3>3 DEF RequestShape, DoneOnce, Without
  <2> QED BY <2>1, <2>2, <2>3 DEF SessionShape
<1>7. ASSUME Without(SignHazards)
      PROVE  /\ SignsApart /\ ~leaving /\ ~r.cleared
             /\ \A d \in Callers : requests'[d].kind # "verify"
             /\ OfThisSignIn(jar'.refresh) /\ GivenToThis(jar'.factor)
             /\ r.got # 0 => signedIn # 0
  <2>1. SignsApart /\ RequestOfThis(c) /\ ~Console!Idle(c)
    BY <1>7 DEF SessionInv, SignsApart, Console!Idle
  <2>2. ASSUME NEW d \in Callers, requests'[d].kind = "verify" PROVE FALSE
    <3>1. ~Ends(requests'[d])
      BY <2>2, EndsWithNothing
    <3>2. requests'[d] = requests[d] /\ d # c
      BY <1>2, <2>2, <3>1
    <3>3. RequestOfThis(d)
      BY <2>1 DEF SignsApart
    <3> QED BY <2>1, <2>2, <3>2, <3>3 DEF RequestOfThis
  <2>3. ~r.cleared /\ OfThisSignIn(r.got) /\ GivenToThis(r.factor)
    BY <2>1 DEF RequestOfThis
  <2>4. r.got # 0 => signedIn # 0
    <3>1. r.got # 0 => r.got \in 1..Len(tokens)
      BY <1>1 DEF Known, Requests
    <3>2. r.got # 0 => tokens[r.got].of \in 1..signIns
      BY <3>1 DEF SessionInv, SessionBounds
    <3>3. signIns \in Nat
      BY SessionFacts DEF SessionInv
    <3> QED BY <2>3, <3>2, <3>3 DEF OfThisSignIn
  <2>5. ~leaving
    BY <2>1 DEF SignsApart
  <2>6. OfThisSignIn(jar'.refresh)
    BY <2>1, <2>3 DEF SignsApart
  <2>7. GivenToThis(jar'.factor)
    BY <2>1, <2>3 DEF SignsApart, GivenToThis
  <2> QED BY <2>1, <2>2, <2>3, <2>4, <2>5, <2>6, <2>7
<1>8. ASSUME Without(SignHazards) PROVE SignsApart'
  <2>1. jar'.refresh = 0 <=> signedIn = 0
    BY <1>7, <1>8 DEF SignsApart
  <2>2. ASSUME NEW d \in Callers PROVE RequestOfThis(d)'
    <3>1. RequestOfThis(d) /\ requests'[d].kind # "verify"
      BY <1>7, <1>8 DEF SignsApart
    <3>2. CASE Ends(requests'[d])
      BY <3>1, <3>2, EndsWithNothing DEF RequestOfThis, OfThisSignIn, GivenToThis
    <3>3. CASE ~Ends(requests'[d])
      BY <1>2, <3>1, <3>3 DEF RequestOfThis, OfThisSignIn, GivenToThis
    <3> QED BY <3>2, <3>3
  <2> QED BY <1>7, <1>8, <2>1, <2>2 DEF SignsApart, OfThisSignIn, GivenToThis
<1>9. ASSUME Without(FactorHazards) PROVE FactorNewest'
  <2>1. FactorNewest /\ "lost_answer" \notin scene
    BY <1>9, HazardsNest DEF SessionInv
  <2>2. \A d \in Callers : IsNewest(requests'[d].factor)
    <3>1. ASSUME NEW d \in Callers PROVE IsNewest(requests'[d].factor)
      <4>1. IsNewest(requests[d].factor)
        BY <2>1 DEF FactorNewest
      <4>2. requests'[d].factor \in {0, requests[d].factor}
        BY <1>2, EndsWithNothing
      <4> QED BY <4>1, <4>2 DEF IsNewest
    <3> QED BY <3>1
  <2>3. CASE IsNewest(jar.factor)
    <3>1. IsNewest(jar'.factor)
      BY <2>1, <2>3 DEF FactorNewest, IsNewest
    <3> QED BY <2>2, <3>1 DEF FactorNewest, IsNewest
  <2>4. CASE ~IsNewest(jar.factor)
    <3>1. PICK d \in Callers : /\ requests[d].kind = "verify" /\ requests[d].pc = "answered"
                               /\ requests[d].status = "ok" /\ requests[d].factor = Len(granted)
      BY <2>1, <2>4 DEF FactorNewest
    <3>2. CASE d = c
      <4>1. Len(granted) # 0
        <5>1. jar.factor <= Len(granted)
          BY DEF SessionInv, SessionBounds
        <5> QED BY <1>1, <2>4, <5>1 DEF IsNewest
      <4>2. IsNewest(jar'.factor)
        BY <2>1, <3>1, <3>2, <4>1 DEF IsNewest
      <4> QED BY <2>2, <4>2 DEF FactorNewest, IsNewest
    <3>3. CASE d # c
      <4>1. requests'[d] = requests[d]
        BY <3>1, <3>3 DEF Settles
      <4> QED BY <2>2, <3>1, <4>1 DEF FactorNewest, IsNewest
    <3> QED BY <3>2, <3>3
  <2> QED BY <2>3, <2>4
<1>10. ASSUME Without(TokenHazards) PROVE TokensInTurn'
  <2>1. TokensInTurn /\ Without(SignHazards) /\ "lost_answer" \notin scene
        /\ "late_answer" \notin scene
    BY <1>10, HazardsNest DEF SessionInv
  <2>2. ~r.cleared /\ \A d \in Callers : requests'[d].kind # "verify"
    BY <1>7, <2>1
  <2>3. ASSUME signedIn # 0
        PROVE  jar'.refresh = Len(tokens) \/ \E d \in Callers : OnItsWay(d)'
    <3>1. r.got \in Nat /\ r.got <= Len(tokens)
      BY <1>1 DEF Known, Requests
    <3>2. CASE jar.refresh = Len(tokens)
      BY <1>1, <2>1, <2>2, <3>1, <3>2
    <3>3. CASE jar.refresh # Len(tokens)
      <4>1. PICK d \in Callers : OnItsWay(d)
        BY <2>1, <2>3, <3>3 DEF TokensInTurn
      <4>2. CASE d = c
        <5>1. Len(tokens) # 0
          BY <2>1, <2>3 DEF TokensInTurn
        <5> QED BY <2>1, <4>1, <4>2, <5>1 DEF OnItsWay
      <4>3. CASE d # c
        <5>1. requests'[d] = requests[d]
          BY <4>1, <4>3 DEF Settles, OnItsWay
        <5> QED BY <4>1, <5>1 DEF OnItsWay
      <4> QED BY <4>2, <4>3
    <3> QED BY <3>2, <3>3
  <2>4. ASSUME NEW d \in Callers, requests'[d].pc \in {"waiting", "sent"}, requests'[d].got # 0
        PROVE  requests'[d].refresh # 0 /\ tokens[requests'[d].refresh].spent
    <3>1. requests'[d] = requests[d]
      BY <1>2, <2>4, EndsWithNothing
    <3> QED BY <2>1, <2>4, <3>1 DEF TokensInTurn
  <2> QED BY <2>1, <2>2, <2>3, <2>4 DEF TokensInTurn
<1>11. ASSUME Without(CallHazards), signedIn # 0 PROVE OneByOneLetIn'
  <2>1. OneByOneLetIn /\ "lost_answer" \notin scene
    BY <1>11, HazardsNest DEF SessionInv
  <2>2. c # Tab /\ c \in ConsoleCalls /\ LetIn(c)
    BY <1>11, <2>1 DEF OneByOneLetIn, Console!Idle, Callers
  <2>3. \A d \in Callers : d # c => Console!Idle(d)
    BY <1>11, <2>1 DEF OneByOneLetIn, Console!Idle
  <2>4. \A d \in Callers : d # c => Console!Idle(d)' /\ requests'[d] = requests[d] /\ requests[d].got = 0
    <3>1. \A d \in Callers : d # c => requests'[d] = requests[d]
      BY <2>3 DEF Settles, Console!Idle
    <3> QED BY <2>3, <3>1, IdleHoldsNothing DEF SessionInv, Console!Idle
  <2>5. requests'[c].pc = "idle" /\ requests'[c].got = 0
    <3>1. r.status # "away" /\ (r.kind = "api" => r.status = "ok") /\ q.status = r.status
      BY <2>1, <2>2 DEF LetIn
    <3>2. Ends(requests'[c]) /\ requests'[c].pc # "away"
      BY <3>1 DEF Settles, Repeats
    <3> QED BY <3>2, EndsWithNothing
  <2>6. \A d \in ConsoleCalls : LetIn(d)'
    <3>1. ASSUME NEW d \in ConsoleCalls PROVE LetIn(d)'
      <4>1. d # c => LetIn(d) /\ d \in Callers
        BY <1>11, <2>1 DEF OneByOneLetIn, Callers
      <4>2. d # c => LetIn(d)'
        BY <2>4, <4>1 DEF LetIn, JustGot
      <4>3. d = c => LetIn(d)'
        BY <2>5 DEF LetIn, JustGot
      <4> QED BY <4>2, <4>3
    <3> QED BY <3>1
  <2>7. Console!Idle(c)'
    BY <2>5 DEF Console!Idle
  <2> QED BY <2>2, <2>4, <2>6, <2>7 DEF OneByOneLetIn, Callers
<1>12. Without(CallHazards) => OneByOneLetIn'
  BY <1>11 DEF OneByOneLetIn
<1> QED BY <1>3, <1>4, <1>5, <1>6, <1>8, <1>9, <1>10, <1>12 DEF SessionInv, Without

LEMMA AnswerDelivered ==
  ASSUME SessionInv, UNCHANGED scene, NEW c \in Callers, Console!Deliver(c)
  PROVE  SessionInv'
<1> DEFINE r == requests[c]
           access == IF r.got # 0 THEN r.got ELSE IF r.cleared THEN 0 ELSE jar.access
           refresh == IF r.got # 0 THEN r.got ELSE IF r.cleared THEN 0 ELSE jar.refresh
           set == r.factor # 0 /\ (r.kind = "api" \/ (r.kind = "verify" /\ r.status = "ok"))
           factor == IF set THEN r.factor
                     ELSE IF r.cleared /\ r.kind = "renewal" THEN 0 ELSE jar.factor
<1>1. /\ r.pc = "answered" /\ UNCHANGED <<tokens, signIns, signedIn, leaving, granted, flights>>
      /\ "late_answer" \in scene \/ r.got = 0 \/ r.got >= jar.refresh
      /\ jar' = [access |-> access, refresh |-> refresh, factor |-> factor]
      /\ \E stays \in BOOLEAN : Console!Settled(c, r, stays)
  BY DEF Console!Deliver, Console!SetCookies
<1>2. /\ r \in Requests /\ jar.access \in Nat /\ jar.refresh \in Nat /\ jar.factor \in Nat
      /\ RequestShape(c) /\ jar.access \in {0, jar.refresh}
  BY SessionFacts DEF SessionInv, SessionShape, SessionBounds
<1>3. r.got \in Nat /\ r.factor \in Nat /\ DoneAtMost(r)
  BY <1>2 DEF Requests, RequestShape
<1>4. access \in Nat /\ refresh \in Nat /\ factor \in Nat /\ access \in {0, refresh}
  BY <1>2, <1>3
<1>5. /\ \/ refresh = jar.refresh
         \/ r.cleared /\ refresh = 0
         \/ r.got # 0 /\ refresh = r.got
      /\ factor \in {0, jar.factor, r.factor}
      /\ r.got # 0 => refresh = r.got
      /\ r.kind = "verify" /\ r.status = "ok" /\ r.factor # 0 => factor = r.factor
  OBVIOUS
<1> HIDE DEF access, refresh, factor
<1>6. /\ jar'.access = access /\ jar'.refresh = refresh /\ jar'.factor = factor
      /\ jar' \in [access : Nat, refresh : Nat, factor : Nat]
  BY <1>1, <1>4
<1>7. Settles(c, r)
  BY <1>1, <1>2, SettledFacts DEF SessionInv
<1> QED BY <1>1, <1>3, <1>4, <1>5, <1>6, <1>7, AnswerEnds

LEMMA AnswerLost ==
  ASSUME SessionInv, UNCHANGED scene, NEW c \in Callers, Console!LoseAnswer(c)
  PROVE  SessionInv'
<1> DEFINE r == requests[c]
           q == [r EXCEPT !.status = "error"]
<1>1. /\ r.pc = "answered" /\ "lost_answer" \in scene
      /\ UNCHANGED <<jar, tokens, signIns, signedIn, leaving, granted, flights>>
      /\ \E stays \in BOOLEAN : Console!Settled(c, q, stays)
  BY DEF Console!LoseAnswer
<1>2. /\ r \in Requests /\ RequestShape(c) /\ jar.access \in {0, jar.refresh}
      /\ jar \in [access : Nat, refresh : Nat, factor : Nat]
  BY SessionFacts DEF SessionInv, SessionTypes, SessionShape, SessionBounds
<1>3. /\ q \in Requests /\ q.pc = r.pc /\ q.kind = r.kind /\ q.access = r.access
      /\ q.refresh = r.refresh /\ q.factor = r.factor /\ q.got = r.got /\ q.cleared = r.cleared
      /\ q.done = r.done /\ q.again = r.again /\ q.status = "error"
  BY <1>2 DEF Requests, Console!Statuses
<1>4. DoneAtMost(r) /\ r.done \in 0..2
  BY <1>2 DEF RequestShape, Requests
<1> HIDE DEF q
<1>5. DoneAtMost(q)
  BY <1>1, <1>3, <1>4 DEF DoneAtMost
<1>6. Settles(c, q)
  BY <1>1, <1>3, SettledFacts DEF SessionInv
<1> QED BY <1>1, <1>2, <1>3, <1>5, <1>6, AnswerEnds

LEMMA SessionSteps ==
  ASSUME SessionInv, [Next]_vars PROVE SessionInv'
<1>1. CASE UNCHANGED <<scene, consoleVars>>
  BY <1>1, SessionSame
<1>2. CASE Console!ConsoleStep /\ UNCHANGED scene
  <2>1. ASSUME NEW c \in ConsoleCalls,
               Console!OpenPage(c) \/ Console!ApiFetch(c) \/ Console!VerifyFactor(c)
        PROVE  SessionInv'
    <3>1. {"page", "api", "verify"} \subseteq Console!Kinds
      BY DEF Console!Kinds
    <3>2. CASE Console!OpenPage(c)
      BY <1>2, <3>1, <3>2, RequestBegins DEF Console!OpenPage
    <3>3. CASE Console!ApiFetch(c)
      BY <1>2, <3>1, <3>3, RequestBegins DEF Console!ApiFetch
    <3>4. CASE Console!VerifyFactor(c)
      BY <1>2, <3>1, <3>4, RequestBegins DEF Console!VerifyFactor
    <3> QED BY <2>1, <3>2, <3>3, <3>4
  <2>2. CASE (\E c \in ConsoleCalls : Console!Resend(c)) \/ Console!RefreshSessionOnce
    BY <1>2, <2>2, RequestRepeats
  <2>3. ASSUME NEW c \in ConsoleCalls,
               Console!Rejected(c) \/ Console!Accepted(c) \/ Console!CodeChecked(c)
        PROVE  SessionInv'
    BY <1>2, <2>3, RequestRejected, RequestAccepted, CodeIsChecked
  <2>4. ASSUME NEW c \in Callers, Console!Deliver(c) \/ Console!LoseAnswer(c) PROVE SessionInv'
    BY <1>2, <2>4, AnswerDelivered, AnswerLost
  <2>5. ASSUME NEW f \in flights, Console!RefreshAdminSession(f) PROVE SessionInv'
    BY <1>2, <2>5, RefreshEnds
  <2>6. CASE Console!SignIn
    BY <1>2, <2>6, SignedIn
  <2>7. CASE Console!BeginSignOut
    BY <1>2, <2>7, SignOutBegun
  <2>8. CASE Console!FinishSignOut
    BY <1>2, <2>8, SignOutFinished
  <2>9. CASE Console!StoreFactor
    BY <1>2, <2>9, FactorStored
  <2>10. CASE Console!ClearFactor \/ Console!CookieExpires
    <3>1. UNCHANGED <<scene, tokens, signIns, signedIn, leaving, granted, flights, requests>>
      BY <1>2, <2>10 DEF Console!ClearFactor, Console!CookieExpires
    <3>2. jar \in [access : Nat, refresh : Nat, factor : Nat]
      BY DEF SessionInv, SessionTypes
    <3>3. jar' = [jar EXCEPT !.factor = 0] \/ jar' = [jar EXCEPT !.access = 0]
      BY <2>10 DEF Console!ClearFactor, Console!CookieExpires
    <3>4. /\ jar' \in [access : Nat, refresh : Nat, factor : Nat]
          /\ jar'.access \in {0, jar.access} /\ jar'.refresh = jar.refresh
          /\ jar'.factor \in {0, jar.factor}
      BY <3>2, <3>3
    <3> QED BY <3>1, <3>4, CookiesDropped
  <2>11. ASSUME NEW t \in DOMAIN tokens, Console!Ages(t) PROVE SessionInv'
    BY <1>2, <2>11, TokenAges
  <2> QED BY <1>2, <2>1, <2>2, <2>3, <2>4, <2>5, <2>6, <2>7, <2>8, <2>9, <2>10, <2>11
          DEF Console!ConsoleStep, Callers
<1> QED BY <1>1, <1>2 DEF Next, vars

LEMMA SessionCorrect == Spec => []SessionInv
<1>1. Init => SessionInv
  BY SessionStarts
<1>2. SessionInv /\ [Next]_vars => SessionInv'
  BY SessionSteps
<1> QED BY <1>1, <1>2, PTL DEF Spec

\* The console's session holds however many requests, tokens, sign-ins and
\* second factors there are: the cookies are of one refresh; a request is not
\* carried out twice while no answer fails or is lost; and while signing in and
\* out meet no request, no race of refreshes ends the session or brings a left
\* one back, and the second factor and the refresh token are the newest, each
\* but for the hazards the property names.
THEOREM SessionAgreesCorrect == Spec => []SessionAgrees
<1>1. SessionInv => SessionAgrees
  <2> SUFFICES ASSUME SessionInv PROVE SessionAgrees
    OBVIOUS
  <2>1. /\ jar.access \in {0, jar.refresh} /\ DOMAIN requests = Callers /\ Tab \in Callers
        /\ Len(tokens) \in Nat /\ jar.refresh \in Nat /\ signIns \in Nat
    BY SessionFacts DEF SessionInv, SessionBounds, Callers
  <2>2. ASSUME Without({"backend_error", "lost_answer"}), NEW c \in ConsoleCalls
        PROVE  requests[c].done <= 1
    <3>1. DoneOnce(requests[c])
      BY <2>2 DEF SessionInv, SessionShape, RequestShape, Callers
    <3> QED BY <3>1 DEF DoneOnce
  <2>3. ASSUME Without({"overlap_sign"})
        PROVE  /\ SignsApart /\ (jar.refresh # 0 => tokens[jar.refresh].of = signedIn)
               /\ jar.factor # 0 => granted[jar.factor] = signedIn
               /\ signedIn # 0 => jar.refresh # 0
    BY <2>3 DEF SessionInv, SignHazards, SignsApart, OfThisSignIn, GivenToThis
  <2>4. ASSUME Without({"overlap_sign"}), Without({"lost_answer"}),
               \A c \in DOMAIN requests : Console!Idle(c)
        PROVE  jar.factor \in {0, Len(granted)}
    <3>1. Without(FactorHazards)
      BY <2>4 DEF Without, FactorHazards, SignHazards
    <3> QED BY <2>1, <2>4, <3>1 DEF SessionInv, FactorNewest, IsNewest, Console!Idle
  <2>5. ASSUME Without({"overlap_sign"}),
               Without({"refresh_error", "lost_answer", "late_answer", "wrong_code"})
        PROVE  /\ jar.refresh # 0 /\ (\A c \in DOMAIN requests : Console!Idle(c)) =>
                    ~tokens[jar.refresh].spent
               /\ Without({"overlap_calls", "backend_401", "backend_error"}) /\ signedIn # 0 =>
                    \A c \in ConsoleCalls : requests[c].pc # "away"
    <3>1. TokensInTurn
      BY <2>5 DEF Without, TokenHazards, FactorHazards, SignHazards, SessionInv
    <3>2. ASSUME jar.refresh # 0, \A c \in DOMAIN requests : Console!Idle(c)
          PROVE  ~tokens[jar.refresh].spent
      <4>1. signedIn # 0
        BY <2>3, <2>5, <3>2 DEF SignsApart
      <4>2. jar.refresh = Len(tokens) /\ Len(tokens) # 0
        BY <2>1, <3>1, <3>2, <4>1 DEF TokensInTurn, OnItsWay, Console!Idle
      <4> QED BY <3>1, <4>2 DEF TokensInTurn
    <3>3. ASSUME Without({"overlap_calls", "backend_401", "backend_error"}), signedIn # 0,
                 NEW c \in ConsoleCalls
          PROVE  requests[c].pc # "away"
      <4>1. Without(CallHazards)
        BY <2>5, <3>3 DEF Without, CallHazards, TokenHazards, FactorHazards, SignHazards
      <4>2. LetIn(c)
        BY <3>3, <4>1 DEF SessionInv, OneByOneLetIn
      <4> QED BY <4>2 DEF LetIn
    <3> QED BY <3>2, <3>3
  <2> QED BY <2>1, <2>2, <2>3, <2>4, <2>5 DEF SessionAgrees
<1> QED BY <1>1, SessionCorrect, PTL
-------------------------------------------------------------------------------
(* The types of all variables.  What the invariants above do not say yet:  *)
(* a secret that a call will write was issued, and no code is hashed as it *)
(* would be presented.                                                     *)

Accountings == {"idle", "promote", "demote", "delete", "reactivate", "hardDelete", "apply"}
GovernedTypes ==
  /\ roles \in [Users -> SUBSET G!RoleNames]
  /\ account \in [Users -> {"active", "deactivated", "gone"}]
  /\ governing \in [Governors -> [pc : Accountings, user : Users \cup {NoUser}, role : G!RoleNames]]

FactorGoals == {"none", "enroll", "confirm", "login", "regenerate", "disable", "policy"}
FactorFits(f) ==
  /\ f.pc \in {"idle", "verify", "write"} /\ f.goal \in FactorGoals /\ f.value \in BOOLEAN
  /\ f.factor.kind \in {"none", "totp", "recovery"}
  /\ f.factor.kind = "recovery" => f.factor.code.dashed = TRUE
  /\ f.pc = "verify" \/ f.goal \in {"login", "regenerate", "confirm"} => f.secret # 0
  /\ f.pc = "verify" => f.factor.kind # "none" /\ f.goal # "confirm"
SecretTypes ==
  /\ issued \in 0..MaxSecrets /\ required \in BOOLEAN
  /\ sessions \in [Users -> SUBSET (1..issued)]
  /\ \A u \in Users : \A k \in codes[u] : k \in [of : 1..issued, renewed : BOOLEAN, dashed : {TRUE}]
  /\ \A c \in FactorCalls : FactorFits(factoring[c])

HuntTypes ==
  /\ hunting \subseteq Names \X Users
  /\ deciding \in [Deciders -> [pc : {"idle", "create", "assign", "mark", "join"}, index : Nat,
                                verdict : {"none", "approved", "rejected"},
                                user : Users \cup {NoUser}, name : Names]]
  /\ \A c \in Deciders : deciding[c].index \in 0..Len(proposals)

WalletStates == {"none", "provisioning", "ready", "error", "disabled"}
Ensurings == {"idle", "wake", "mark", "custody", "store", "fail", "platform"}
WalletRows ==
  /\ walletOn \in BOOLEAN
  /\ wallet \in [Users -> [status : WalletStates, address : {0, 1}, byAdmin : BOOLEAN,
                           recent : BOOLEAN]]
  /\ ensuring \in [WalletCalls -> [pc : Ensurings, user : Users \cup {NoUser}, address : {0, 1}]]

BindTypes ==
  /\ early \subseteq Users /\ bindings \in [Users -> Nat]
  /\ binding \in [Binders -> [user : Users \cup {NoUser}, by : Users \cup {NoUser}]]

RowTypes == scene \in Scenes /\ GovernedTypes /\ SecretTypes /\ HuntTypes /\ WalletRows /\ BindTypes

\* A sequence is of the set its elements are in.
LEMMA OfElements ==
  ASSUME NEW A, NEW B, NEW s \in Seq(A), \A i \in 1..Len(s) : s[i] \in B
  PROVE  s \in Seq(B)
OBVIOUS

LEMMA TypesAtFirst ==
  ASSUME Init
  PROVE  RowTypes
<1>1. GovernedTypes
  BY AccountsAssumption
     DEF Init, G!GovernanceInit, GovernedTypes, G!NoRequest, G!RoleNames, G!Management, Accountings
<1>2. SecretTypes
  <2>1. /\ issued \in 0..MaxSecrets /\ required = FALSE
        /\ codes = [u \in Users |-> {}] /\ sessions = [u \in Users |-> {}]
        /\ factoring = [c \in FactorCalls |-> F!NoFactorCall]
    BY AccountsAssumption DEF Init, F!FactorsInit
  <2> QED BY <2>1 DEF SecretTypes, FactorFits, F!NoFactorCall, F!NoFactor, FactorGoals
<1>3. HuntTypes
  <2>1. (CHOOSE n \in Names : TRUE) \in Names
    BY AccountsAssumption
  <2> QED BY <2>1 DEF Init, P!ProposalsInit, HuntTypes, P!NoDecision
<1>4. WalletRows
  BY DEF Init, W!ProvisioningInit, WalletRows, W!NoEnsure, WalletStates, Ensurings
<1>5. BindTypes
  BY DEF Init, R!ReferralsInit, BindTypes, R!NoBinding
<1> QED BY <1>1, <1>2, <1>3, <1>4, <1>5 DEF Init, RowTypes

\* Governance and the forms of sign-up keep what they are about.
LEMMA TypesGovern ==
  ASSUME GovernedTypes, OwnersInv, G!GovernanceStep
  PROVE  GovernedTypes'
<1> USE DEF GovernedTypes
<1> DEFINE Request == [pc : Accountings, user : Users \cup {NoUser}, role : G!RoleNames]
<1>0. /\ G!NoRequest \in Request /\ {"owner", "dev", "admin"} = G!Management
      /\ G!RoleNames = {"owner", "dev", "admin", "hunter", "user"} /\ RoleMoves \subseteq G!RoleNames
  BY AccountsAssumption DEF G!NoRequest, G!RoleNames, G!Management, Accountings
<1>1. ASSUME NEW c \in Governors, G!End(c)
      PROVE  governing' \in [Governors -> Request]
  BY <1>0, <1>1 DEF G!End
<1>2. ASSUME NEW c \in Governors, NEW pc \in Accountings, NEW u \in Users, NEW role \in G!RoleNames,
             G!Begin(c, pc, u, role)
      PROVE  GovernedTypes'
  BY <1>0, <1>2 DEF G!Begin
<1>3. ASSUME NEW c \in Governors,
             \/ G!FinishPromote(c) \/ G!FinishDemote(c) \/ G!FinishDelete(c)
             \/ G!FinishReactivate(c) \/ G!FinishHardDelete(c)
      PROVE  GovernedTypes'
  <2>1. G!End(c) /\ governing[c].role \in G!RoleNames
    BY <1>3 DEF G!FinishPromote, G!FinishDemote, G!FinishDelete, G!FinishReactivate,
                G!FinishHardDelete
  <2>2. governing' \in [Governors -> Request]
    BY <1>1, <2>1
  <2>3. roles' \in [Users -> SUBSET G!RoleNames]
    BY <1>0, <1>3, <2>1 DEF G!FinishPromote, G!FinishDemote, G!FinishDelete, G!FinishReactivate,
                            G!FinishHardDelete
  <2>4. account' \in [Users -> {"active", "deactivated", "gone"}]
    BY <1>3 DEF G!FinishPromote, G!FinishDemote, G!FinishDelete, G!FinishReactivate,
                G!FinishHardDelete
  <2> QED BY <2>2, <2>3, <2>4
<1>4. ASSUME NEW c \in Governors, G!FinishApply(c) \/ G!GovernanceError(c)
      PROVE  GovernedTypes'
  BY <1>1, <1>4 DEF G!FinishApply, G!GovernanceError
<1>5. ASSUME NEW c \in Governors, NEW a \in Users, NEW u \in Users,
             \/ \E role \in RoleMoves : G!BeginPromote(c, a, u, role) \/ G!BeginDemote(c, a, u, role)
             \/ G!BeginDelete(c, a, u) \/ G!BeginReactivate(c, a, u) \/ G!BeginHardDelete(c, a, u)
      PROVE  GovernedTypes'
  <2>1. \E pc \in Accountings, role \in G!RoleNames : G!Begin(c, pc, u, role)
    BY <1>0, <1>5 DEF G!BeginPromote, G!BeginDemote, G!BeginDelete, G!BeginReactivate,
                      G!BeginHardDelete, Accountings
  <2> QED BY <1>2, <2>1
<1>6. ASSUME NEW c \in Governors, NEW a \in Users, NEW u \in Users,
             NEW i \in 1..Len(applications[u]), NEW verdict \in {"approved", "rejected"},
             G!ReviewApplication(c, a, u, i, verdict)
      PROVE  GovernedTypes'
  <2>1. applications[u][i].role \in G!RoleNames
    <3>1. applications[u] \in Seq(Applied)
      BY DEF OwnersInv
    <3>2. applications[u][i] \in Applied
      BY <3>1
    <3> QED BY <1>0, <3>2 DEF Applied
  <2>2. UNCHANGED <<roles, account>>
    BY <1>6 DEF G!ReviewApplication
  <2>3. PICK role \in G!RoleNames : role = applications[u][i].role
    BY <2>1
  <2>4. governing' \in {governing, [governing EXCEPT ![c] = [pc |-> "promote", user |-> u, role |-> role]]}
    BY <1>6, <2>3 DEF G!ReviewApplication
  <2> QED BY <2>2, <2>4 DEF Accountings
<1>7. ASSUME NEW c \in Governors, NEW u \in Users, NEW role \in {"admin", "hunter"},
             G!BeginApply(c, u, role)
      PROVE  GovernedTypes'
  BY <1>0, <1>2, <1>7 DEF G!BeginApply, Accountings
<1>8. ASSUME NEW u \in Users, G!SelfDeactivate(u) \/ G!SignIn(u)
      PROVE  GovernedTypes'
  BY <1>0, <1>8 DEF G!SelfDeactivate, G!SignIn
<1> QED BY <1>3, <1>4, <1>5, <1>6, <1>7, <1>8 DEF G!GovernanceStep

LEMMA TypesBind ==
  ASSUME BindTypes, R!ReferralStep
  PROVE  BindTypes'
<1> USE DEF BindTypes
<1>1. ASSUME NEW b \in Binders, R!FinishBind(b)
      PROVE  BindTypes'
  BY <1>1 DEF R!FinishBind, R!NoBinding
<1>2. ASSUME NEW b \in Binders, NEW u \in Users, NEW r \in Users, NEW byAdmin \in BOOLEAN,
             R!BeginBind(b, u, r, byAdmin)
      PROVE  BindTypes'
  BY <1>2 DEF R!BeginBind
<1>3. ASSUME NEW u \in Users, NEW r \in Users \cup {NoUser}, R!SignUp(u, r)
      PROVE  BindTypes'
  BY <1>3 DEF R!SignUp
<1>4. ASSUME NEW u \in Users, R!WindowCloses(u)
      PROVE  BindTypes'
  BY <1>4 DEF R!WindowCloses
<1> QED BY <1>1, <1>2, <1>3, <1>4 DEF R!ReferralStep

LEMMA TypesSignUp ==
  ASSUME GovernedTypes, R!ReferralStep, UNCHANGED governing
  PROVE  GovernedTypes'
<1>1. \/ UNCHANGED <<roles, account>>
      \/ \E u \in Users : /\ account' = [account EXCEPT ![u] = "active"]
                          /\ roles' = [roles EXCEPT ![u] = {"user"}]
  BY DEF R!ReferralStep, R!FinishBind, R!BeginBind, R!SignUp, R!WindowCloses
<1> QED BY <1>1 DEF GovernedTypes, G!RoleNames
\* A deleted profile's rows go.
LEMMA TypesCascade ==
  /\ SecretTypes /\ F!FactorsCascade => SecretTypes'
  /\ HuntTypes /\ ProjectTypes /\ P!ProposalsCascade => HuntTypes'
  /\ BindTypes /\ R!ReferralsCascade => BindTypes'
<1>1. ASSUME SecretTypes, F!FactorsCascade PROVE SecretTypes'
  <2>1. /\ UNCHANGED <<issued, required>> /\ sessions' \in [Users -> SUBSET (1..issued)]
        /\ \A u \in Users : codes'[u] \in {{}, codes[u]}
    BY <1>1 DEF SecretTypes, F!FactorsCascade
  <2>2. \A c \in FactorCalls : factoring'[c] \in {F!NoFactorCall, factoring[c]}
    BY <1>1 DEF F!FactorsCascade
  <2>3. ASSUME NEW c \in FactorCalls
        PROVE  FactorFits(factoring'[c])
    <3>1. FactorFits(F!NoFactorCall)
      BY DEF FactorFits, F!NoFactorCall, F!NoFactor, FactorGoals
    <3>2. FactorFits(factoring[c])
      BY <1>1 DEF SecretTypes
    <3>3. factoring'[c] = F!NoFactorCall \/ factoring'[c] = factoring[c]
      BY <2>2
    <3> QED BY <3>1, <3>2, <3>3
  <2> QED BY <1>1, <2>1, <2>3 DEF SecretTypes
<1>2. ASSUME HuntTypes, ProjectTypes, P!ProposalsCascade PROVE HuntTypes'
  <2>1. DOMAIN proposals' = 1..Len(proposals) /\ proposals' \in Seq(Proposed)
    <3>1. \A i \in 1..Len(proposals) : proposals[i] \in Proposed
      BY <1>2 DEF ProjectTypes
    <3>2. \A i \in 1..Len(proposals) : proposals'[i] \in Proposed
      BY <1>2, <3>1 DEF P!ProposalsCascade, Proposed
    <3>3. DOMAIN proposals' = 1..Len(proposals) /\ Len(proposals) \in Nat
      BY <1>2 DEF P!ProposalsCascade, ProjectTypes
    <3>4. proposals' = [i \in 1..Len(proposals) |-> proposals'[i]]
      BY <1>2, <3>3 DEF P!ProposalsCascade
    <3> QED BY <3>2, <3>3, <3>4
  <2>2. Len(proposals') = Len(proposals)
    BY <1>2, <2>1 DEF ProjectTypes
  <2> QED BY <1>2, <2>2 DEF HuntTypes, P!ProposalsCascade
<1>3. ASSUME BindTypes, R!ReferralsCascade PROVE BindTypes'
  BY <1>3 DEF BindTypes, R!ReferralsCascade
<1> QED BY <1>1, <1>2, <1>3

\* The steps of a second factor: what a call goes on with was issued.
LEMMA TypesFactor ==
  ASSUME SecretTypes, FactorTypes, F!FactorStep
  PROVE  SecretTypes'
<1> DEFINE Codes(n) == [of : 1..n, renewed : BOOLEAN, dashed : {TRUE}]
<1>1. /\ issued \in Nat /\ \A c \in FactorCalls : FactorFits(factoring[c])
      /\ FactorFits(F!NoFactorCall)
      /\ DOMAIN factoring = FactorCalls /\ DOMAIN codes = Users
      /\ \A c \in FactorCalls : factoring[c].secret \in 0..issued
  BY DEF SecretTypes, FactorTypes, FactorFits, F!NoFactorCall, F!NoFactor, FactorGoals
<1>2. ASSUME NEW c \in FactorCalls, NEW f, FactorFits(f), factoring' = [factoring EXCEPT ![c] = f]
      PROVE  \A d \in FactorCalls : FactorFits(factoring'[d])
  <2>1. \A d \in FactorCalls : factoring'[d] \in {f, factoring[d]}
    BY <1>2
  <2> QED BY <1>1, <1>2, <2>1
<1>3. ASSUME \A d \in FactorCalls : FactorFits(factoring'[d]),
             issued' \in issued..MaxSecrets, required' \in BOOLEAN,
             sessions' \in [Users -> SUBSET (1..issued)],
             \A u \in Users : \A k \in codes'[u] : k \in Codes(issued)
      PROVE  SecretTypes'
  <2>1. 1..issued \subseteq 1..issued' /\ issued' \in 0..MaxSecrets
    BY <1>1, <1>3, AccountsAssumption
  <2>2. sessions' \in [Users -> SUBSET (1..issued')]
    BY <1>3, <2>1
  <2>3. \A u \in Users : \A k \in codes'[u] : k \in Codes(issued')
    BY <1>3, <2>1
  <2> QED BY <1>3, <2>1, <2>2, <2>3 DEF SecretTypes
<1>4. /\ issued \in issued..MaxSecrets /\ required \in BOOLEAN
      /\ sessions \in [Users -> SUBSET (1..issued)]
      /\ \A u \in Users : \A k \in codes[u] : k \in Codes(issued)
  <2>1. issued \in issued..MaxSecrets
    BY <1>1, AccountsAssumption DEF SecretTypes
  <2>2. /\ required \in BOOLEAN /\ sessions \in [Users -> SUBSET (1..issued)]
        /\ \A u \in Users : \A k \in codes[u] : k \in Codes(issued)
    BY DEF SecretTypes
  <2> QED BY <2>1, <2>2
<1>5. ASSUME NEW s \in 1..issued, NEW u \in Users, NEW renewed \in BOOLEAN,
             codes' \in {[codes EXCEPT ![u] = F!Batch(s, renewed)], [codes EXCEPT ![u] = {}]}
      PROVE  \A v \in Users : \A k \in codes'[v] : k \in Codes(issued)
  <2>1. \A v \in Users : codes'[v] \in {codes[v], F!Batch(s, renewed), {}}
    BY <1>1, <1>5
  <2>2. \A k \in F!Batch(s, renewed) : k \in Codes(issued)
    <3>1. [of |-> s, renewed |-> renewed, dashed |-> TRUE] \in Codes(issued)
      BY Zenon
    <3> QED BY <3>1 DEF F!Batch
  <2> QED BY <1>4, <2>1, <2>2
<1>6. ASSUME NEW c \in FactorCalls, F!Leave(c)
      PROVE  \A d \in FactorCalls : FactorFits(factoring'[d])
  BY <1>1, <1>2, <1>6 DEF F!Leave
<1>7. ASSUME NEW c \in FactorCalls, NEW f, FactorFits(f), F!Enter(c, f)
      PROVE  SecretTypes'
  <2>1. \A d \in FactorCalls : FactorFits(factoring'[d])
    BY <1>2, <1>7 DEF F!Enter
  <2>2. UNCHANGED <<issued, codes, sessions, required>>
    BY <1>7 DEF F!Enter, F!factorRows
  <2> QED BY <1>3, <1>4, <2>1, <2>2
<1>8. ASSUME NEW c \in FactorCalls, F!OfferSecret(c)
      PROVE  SecretTypes'
  <2>1. issued' \in issued..MaxSecrets
    <3>1. issued < MaxSecrets
      BY <1>8, AccountsAssumption DEF F!OfferSecret, F!MoreSecrets, SecretTypes
    <3> QED BY <1>1, <1>8, <3>1, AccountsAssumption DEF F!OfferSecret
  <2>2. F!Leave(c) /\ UNCHANGED <<codes, sessions, required>>
    BY <1>8 DEF F!OfferSecret
  <2> QED BY <1>3, <1>4, <1>6, <2>1, <2>2
<1>9. ASSUME NEW c \in FactorCalls, F!Confirm(c)
      PROVE  SecretTypes'
  <2>1. F!Leave(c) /\ UNCHANGED <<issued, required>> /\ factoring[c].goal = "confirm"
    BY <1>9 DEF F!Confirm, F!Doing
  <2>2. factoring[c].secret \in 1..issued
    BY <1>1, <2>1 DEF FactorFits
  <2>3. PICK u, s : u = factoring[c].user /\ s = factoring[c].secret /\ s \in 1..issued
    BY <2>2
  <2>4. \/ UNCHANGED <<codes, sessions>>
        \/ /\ codes' = [codes EXCEPT ![u] = F!Batch(s, FALSE)]
           /\ sessions' = [sessions EXCEPT ![u] = {s}]
    BY <1>9, <2>3 DEF F!Confirm
  <2>5. sessions' \in [Users -> SUBSET (1..issued)]
    <3>1. {s} \in SUBSET (1..issued)
      BY <2>3
    <3>2. ASSUME NEW r \in SUBSET (1..issued), sessions' = [sessions EXCEPT ![u] = r]
          PROVE  sessions' \in [Users -> SUBSET (1..issued)]
      BY <1>4, <3>2
    <3> QED BY <1>4, <2>4, <3>1, <3>2
  <2>6. \A v \in Users : \A k \in codes'[v] : k \in Codes(issued)
    <3>1. CASE u \in Users
      <4>1. CASE codes' = codes
        BY <1>4, <4>1
      <4>2. CASE codes' = [codes EXCEPT ![u] = F!Batch(s, FALSE)]
        BY <1>5, <2>3, <3>1, <4>2, Zenon
      <4> QED BY <2>4, <4>1, <4>2
    <3>2. CASE u \notin Users
      BY <1>1, <1>4, <2>4, <3>2
    <3> QED BY <3>1, <3>2
  <2> QED BY <1>3, <1>4, <1>6, <2>1, <2>5, <2>6
<1>10. ASSUME NEW c \in FactorCalls, F!Verify(c)
       PROVE  SecretTypes'
  <2>1. PICK f : f = factoring[c]
    OBVIOUS
  <2>2. /\ f.pc = "verify" /\ FactorFits(f) /\ f.secret # 0 /\ f.factor.kind \in {"totp", "recovery"}
    BY <1>1, <1>10, <2>1 DEF F!Verify, FactorFits
  <2>3. UNCHANGED <<issued, sessions, required>>
    BY <1>10 DEF F!Verify
  <2>4. f.factor.kind = "recovery" => ~F!Accepted(c)
    <3>1. SUFFICES ASSUME f.factor.kind = "recovery", F!Accepted(c) PROVE FALSE
      OBVIOUS
    <3>2. F!Normalized(f.factor.code) \in codes[f.user]
      BY <2>1, <3>1 DEF F!Accepted
    <3>3. f.user \in Users
      BY <2>1, <2>2 DEF FactorTypes, F!NoFactorCall
    <3>4. F!Normalized(f.factor.code).dashed = TRUE
      BY <1>4, <3>2, <3>3
    <3>5. DOMAIN f.factor.code = DOMAIN f.factor.code
      OBVIOUS
    <3> QED BY <2>2, <3>1, <3>4 DEF F!Normalized
  <2>5. codes' = codes
    BY <1>10, <2>1, <2>4 DEF F!Verify
  <2>6. CASE F!Accepted(c)
    <3>1. f.factor.kind = "totp" /\ f.factor.secret # 0
      BY <2>1, <2>2, <2>4, <2>6 DEF F!Accepted
    <3>2. PICK g : g = [f EXCEPT !.pc = "write", !.factor = F!NoFactor, !.secret = f.factor.secret]
      OBVIOUS
    <3>3. factoring' = [factoring EXCEPT ![c] = g]
      BY <1>1, <1>10, <2>1, <2>6, <3>1, <3>2 DEF F!Verify
    <3>4. FactorFits(g)
      <4>1. Factored(f)
        BY <2>1 DEF FactorTypes
      <4> QED BY <2>2, <3>1, <3>2, <4>1 DEF Factored, F!NoFactor, FactorFits
    <3>5. \A d \in FactorCalls : FactorFits(factoring'[d])
      BY <1>2, <3>3, <3>4
    <3> QED BY <1>3, <1>4, <2>3, <2>5, <3>5
  <2>7. CASE ~F!Accepted(c)
    <3>1. F!Leave(c)
      BY <1>10, <2>7 DEF F!Verify
    <3> QED BY <1>3, <1>4, <1>6, <2>3, <2>5, <3>1
  <2> QED BY <2>6, <2>7
<1>11. ASSUME NEW c \in FactorCalls,
              F!OpenSession(c) \/ F!RenewCodes(c) \/ F!Disable(c) \/ F!SetPolicy(c)
       PROVE  SecretTypes'
  <2>1. F!Leave(c) /\ issued' = issued
    BY <1>11 DEF F!OpenSession, F!RenewCodes, F!Disable, F!SetPolicy
  <2>2. required' \in BOOLEAN
    <3>1. factoring[c].value \in BOOLEAN
      BY <1>1 DEF FactorFits
    <3>2. required' = required \/ required' = factoring[c].value
      BY <1>11 DEF F!OpenSession, F!RenewCodes, F!Disable, F!SetPolicy
    <3> QED BY <1>4, <3>1, <3>2
  <2>3. PICK u, s : u = factoring[c].user /\ s = factoring[c].secret
    OBVIOUS
  <2>4. factoring[c].goal \in {"login", "regenerate"} => s \in 1..issued
    BY <1>1, <2>3 DEF FactorFits
  <2>5. sessions' \in [Users -> SUBSET (1..issued)]
    <3>1. CASE F!OpenSession(c)
      <4>1. sessions' = [sessions EXCEPT ![u] = @ \cup {s}] /\ s \in 1..issued
        BY <2>3, <2>4, <3>1 DEF F!OpenSession, F!Doing
      <4> QED BY <1>4, <4>1
    <3>2. CASE F!Disable(c)
      BY <1>4, <2>3, <3>2 DEF F!Disable, F!AfterDisable
    <3>3. CASE F!RenewCodes(c) \/ F!SetPolicy(c)
      BY <1>4, <3>3 DEF F!RenewCodes, F!SetPolicy
    <3> QED BY <1>11, <3>1, <3>2, <3>3
  <2>6. \A v \in Users : \A k \in codes'[v] : k \in Codes(issued)
    <3>1. CASE F!RenewCodes(c)
      <4>1. codes' = [codes EXCEPT ![u] = F!Batch(s, TRUE)] /\ s \in 1..issued
        BY <2>3, <2>4, <3>1 DEF F!RenewCodes, F!Doing
      <4>2. CASE u \in Users
        BY <1>5, <4>1, <4>2
      <4>3. CASE u \notin Users
        BY <1>1, <1>4, <4>1, <4>3
      <4> QED BY <4>2, <4>3
    <3>2. CASE F!Disable(c)
      <4>1. \A v \in Users : codes'[v] \in {{}, codes[v]}
        BY <1>1, <3>2 DEF F!Disable
      <4> QED BY <1>4, <4>1
    <3>3. CASE F!OpenSession(c) \/ F!SetPolicy(c)
      BY <1>4, <3>3 DEF F!OpenSession, F!SetPolicy
    <3> QED BY <1>11, <3>1, <3>2, <3>3
  <2> QED BY <1>3, <1>4, <1>6, <2>1, <2>2, <2>5, <2>6
<1>12. ASSUME NEW c \in FactorCalls, NEW u \in Users,
              \/ F!BeginEnrollment(c, u) \/ F!BeginConfirm(c, u)
              \/ \E value \in BOOLEAN : F!BeginPolicy(c, u, value)
       PROVE  SecretTypes'
  <2>1. CASE F!BeginEnrollment(c, u)
    <3>1. PICK f : f = [F!NoFactorCall EXCEPT !.pc = "write", !.goal = "enroll", !.user = u]
      OBVIOUS
    <3>2. FactorFits(f)
      BY <3>1 DEF FactorFits, F!NoFactorCall, F!NoFactor, FactorGoals
    <3> QED BY <1>7, <2>1, <3>1, <3>2 DEF F!BeginEnrollment
  <2>2. CASE F!BeginConfirm(c, u)
    <3>1. PICK f : f = [F!NoFactorCall EXCEPT !.pc = "write", !.goal = "confirm", !.user = u,
                                              !.secret = challenge[u]]
      OBVIOUS
    <3>2. FactorFits(f)
      BY <2>2, <3>1 DEF F!BeginConfirm, FactorFits, F!NoFactorCall, F!NoFactor, FactorGoals
    <3> QED BY <1>7, <2>2, <3>1, <3>2 DEF F!BeginConfirm
  <2>3. ASSUME NEW value \in BOOLEAN, F!BeginPolicy(c, u, value) PROVE SecretTypes'
    <3>1. PICK f : f = [F!NoFactorCall EXCEPT !.pc = "write", !.goal = "policy", !.user = u,
                                              !.value = value]
      OBVIOUS
    <3>2. FactorFits(f)
      BY <3>1 DEF FactorFits, F!NoFactorCall, F!NoFactor, FactorGoals
    <3> QED BY <1>7, <2>3, <3>1, <3>2 DEF F!BeginPolicy
  <2> QED BY <1>12, <2>1, <2>2, <2>3
<1>13. ASSUME NEW c \in FactorCalls, NEW u \in Users, NEW goal \in {"login", "regenerate", "disable"},
              NEW factor \in F!Presented(u), F!BeginWithFactor(c, u, goal, factor)
       PROVE  SecretTypes'
  <2>1. PICK f : f = [F!NoFactorCall EXCEPT !.pc = "verify", !.goal = goal, !.user = u,
                                            !.factor = factor, !.secret = credential[u]]
    OBVIOUS
  <2>2. /\ factor.kind \in {"totp", "recovery"}
        /\ factor.kind = "recovery" => factor.code.dashed = TRUE
    <3>1. CASE \E k \in 1..issued : factor = F!Totp(k)
      BY <3>1 DEF F!Totp
    <3>2. ASSUME NEW k \in codes[u], factor = F!Recovery(k)
          PROVE  factor.kind = "recovery" /\ factor.code.dashed = TRUE
      <4>1. k \in Codes(issued)
        BY <1>4
      <4>2. factor.kind = "recovery" /\ factor.code = k
        BY <3>2 DEF F!Recovery
      <4>3. k.dashed \in {TRUE}
        BY <4>1
      <4> QED BY <4>2, <4>3
    <3> QED BY <3>1, <3>2 DEF F!Presented
  <2>3. FactorFits(f)
    BY <1>13, <2>1, <2>2 DEF F!BeginWithFactor, FactorFits, F!NoFactorCall, FactorGoals
  <2> QED BY <1>7, <1>13, <2>1, <2>3 DEF F!BeginWithFactor
<1>14. ASSUME NEW u \in Users, F!ExpiredChallenge(u) \/ \E s \in sessions[u] : F!SessionExpires(u, s)
       PROVE  SecretTypes'
  <2>1. UNCHANGED <<issued, codes, required, factoring>>
    BY <1>14 DEF F!ExpiredChallenge, F!SessionExpires
  <2>2. sessions' \in [Users -> SUBSET (1..issued)]
    BY <1>4, <1>14 DEF F!ExpiredChallenge, F!SessionExpires
  <2> QED BY <1>1, <1>3, <1>4, <2>1, <2>2
<1> QED
  BY <1>8, <1>9, <1>10, <1>11, <1>12, <1>13, <1>14 DEF F!FactorStep
\* The steps of proposals keep who hunts for what, and what is decided.
LEMMA TypesHunt ==
  ASSUME HuntTypes, ProjectInv, P!ProposalStep
  PROVE  HuntTypes'
<1> DEFINE Decision == [pc : {"idle", "create", "assign", "mark", "join"}, index : Nat,
                        verdict : {"none", "approved", "rejected"},
                        user : Users \cup {NoUser}, name : Names]
<1> USE DEF HuntTypes
<1>1. /\ proposals \in Seq(Proposed) /\ P!NoDecision \in Decision /\ P!NoDecision.index = 0
      /\ \A i \in 1..Len(proposals) : proposals[i].name \in Names /\ proposals[i].by \in Users
  <2>1. (CHOOSE n \in Names : TRUE) \in Names
    BY AccountsAssumption
  <2>2. proposals \in Seq(Proposed) /\ \A i \in 1..Len(proposals) : proposals[i] \in Proposed
    BY DEF ProjectInv, ProjectTypes
  <2> QED BY <2>1, <2>2 DEF P!NoDecision, Proposed
<1>2. \A c \in Deciders : DecisionHolds(c)
  BY DEF ProjectInv, ProjectRows
<1>3. ASSUME NEW c \in Deciders, NEW d \in Decision, d.index \in 0..Len(proposals),
             deciding' \in {deciding, [deciding EXCEPT ![c] = d]}, Len(proposals') = Len(proposals),
             hunting' \subseteq Names \X Users
      PROVE  HuntTypes'
  <2>1. deciding' \in [Deciders -> Decision]
    BY <1>3
  <2>2. \A e \in Deciders : deciding'[e] \in {d, deciding[e]}
    BY <1>3
  <2> QED BY <1>3, <2>1, <2>2
<1>4. ASSUME NEW c \in Deciders, P!Release(c), Len(proposals') = Len(proposals),
             hunting' \subseteq Names \X Users
      PROVE  HuntTypes'
  BY <1>1, <1>3, <1>4 DEF P!Release
<1>5. ASSUME NEW c \in Deciders, P!CreateFromProposal(c)
      PROVE  HuntTypes'
  <2>1. UNCHANGED <<hunting, proposals>>
    BY <1>5 DEF P!CreateFromProposal
  <2>2. PICK d : d = [deciding[c] EXCEPT !.pc = "assign"]
    OBVIOUS
  <2>3. d \in Decision /\ d.index \in 0..Len(proposals)
    BY <2>2
  <2>4. P!Release(c) \/ deciding' = [deciding EXCEPT ![c] = d]
    BY <1>5, <2>2 DEF P!CreateFromProposal
  <2> QED BY <1>3, <1>4, <2>1, <2>3, <2>4
<1>6. ASSUME NEW c \in Deciders, P!AssignApplicant(c)
      PROVE  HuntTypes'
  <2>1. deciding[c].index \in 1..Len(proposals)
    BY <1>2, <1>6 DEF P!AssignApplicant, DecisionHolds
  <2>2. hunting' \subseteq Names \X Users /\ proposals' = proposals
    BY <1>1, <1>6, <2>1 DEF P!AssignApplicant
  <2>3. PICK d : d = [deciding[c] EXCEPT !.pc = "mark"]
    OBVIOUS
  <2>4. d \in Decision /\ d.index \in 0..Len(proposals)
    BY <2>3
  <2>5. deciding' = [deciding EXCEPT ![c] = d]
    BY <1>6, <2>3 DEF P!AssignApplicant
  <2> QED BY <1>3, <2>2, <2>4, <2>5
<1>7. ASSUME NEW c \in Deciders, P!MarkProposal(c)
      PROVE  HuntTypes'
  <2>1. P!Release(c) /\ hunting' = hunting /\ Len(proposals') = Len(proposals)
    BY <1>1, <1>7 DEF P!MarkProposal
  <2> QED BY <1>4, <2>1
<1>8. ASSUME NEW c \in Deciders, P!JoinProject(c)
      PROVE  HuntTypes'
  <2>1. deciding[c].user \in Users /\ deciding[c].name \in Names
    BY <1>2, <1>8 DEF P!JoinProject, DecisionHolds
  <2>2. P!Release(c) /\ hunting' \subseteq Names \X Users /\ proposals' = proposals
    BY <1>8, <2>1 DEF P!JoinProject, P!Joined
  <2> QED BY <1>4, <2>2
<1>9. ASSUME NEW c \in Deciders, P!DecisionError(c)
      PROVE  HuntTypes'
  BY <1>4, <1>9 DEF P!DecisionError, P!catalogue
<1>10. ASSUME NEW c \in Deciders, NEW u \in Users, NEW i \in 1..Len(proposals),
              NEW verdict \in {"approved", "rejected"}, P!BeginDecision(c, u, i, verdict)
       PROVE  HuntTypes'
  <2>1. PICK d : d = [P!NoDecision EXCEPT !.pc = IF verdict = "approved" THEN "create" ELSE "mark",
                                          !.index = i, !.verdict = verdict]
    OBVIOUS
  <2>2. i \in Nat /\ i \in 0..Len(proposals)
    BY <1>1
  <2>3. d \in Decision /\ d.index = i
    BY <1>1, <2>1, <2>2
  <2>4. UNCHANGED <<hunting, proposals>> /\ deciding' = [deciding EXCEPT ![c] = d]
    BY <1>10, <2>1 DEF P!BeginDecision, P!catalogue
  <2> QED BY <1>3, <2>2, <2>3, <2>4
<1>11. ASSUME NEW c \in Deciders, NEW u \in Users, NEW name \in Names,
              NEW answer \in {"accepted", "rejected"}, P!Respond(c, u, name, answer)
       PROVE  HuntTypes'
  <2>1. PICK d : d = [P!NoDecision EXCEPT !.pc = "join", !.user = u, !.name = name]
    OBVIOUS
  <2>2. d \in Decision /\ d.index = 0 /\ Len(proposals) \in Nat
    <3>1. d.index = 0
      BY <2>1 DEF P!NoDecision
    <3>2. d \in Decision
      BY <1>1, <2>1
    <3> QED BY <1>1, <3>1, <3>2
  <2>3. UNCHANGED <<hunting, proposals>> /\ deciding' \in {deciding, [deciding EXCEPT ![c] = d]}
    BY <1>11, <2>1 DEF P!Respond
  <2>4. d.index \in 0..Len(proposals)
    BY <2>2
  <2> QED BY <1>3, <2>2, <2>3, <2>4
<1>12. ASSUME NEW u \in Users, NEW name \in Names,
              \/ P!CreateDirectly(u, name) \/ P!Propose(u, name)
              \/ \E h \in Users : P!AssignHunter(u, name, h) \/ P!InviteHunter(u, name, h)
       PROVE  HuntTypes'
  <2>1. deciding' = deciding /\ hunting' \subseteq Names \X Users
    BY <1>12 DEF P!CreateDirectly, P!Propose, P!AssignHunter, P!InviteHunter
  <2>2. Len(proposals') \in {Len(proposals), Len(proposals) + 1} /\ Len(proposals) \in Nat
    BY <1>1, <1>12 DEF P!CreateDirectly, P!Propose, P!AssignHunter, P!InviteHunter
  <2>3. \A c \in Deciders : deciding[c].index \in 0..Len(proposals')
    BY <2>2
  <2> QED BY <2>1, <2>3
<1> QED BY <1>5, <1>6, <1>7, <1>8, <1>9, <1>10, <1>11, <1>12 DEF P!ProposalStep

\* The steps of wallets keep their rows.
LEMMA TypesWallet ==
  ASSUME WalletRows, WalletTypes, W!ProvisioningStep
  PROVE  WalletRows'
<1> DEFINE Rows == [status : WalletStates, address : {0, 1}, byAdmin : BOOLEAN, recent : BOOLEAN]
<1> DEFINE Calls == [pc : Ensurings, user : Users \cup {NoUser}, address : {0, 1}]
<1> USE DEF WalletRows, WalletStates, Ensurings
<1>0. Holders \subseteq Users /\ W!NoEnsure \in Calls
  BY AccountsAssumption DEF W!NoEnsure
<1>1. \A c \in WalletCalls :
        /\ W!Finish(c) => ensuring' \in [WalletCalls -> Calls]
        /\ \A pc \in Ensurings : W!Proceed(c, pc) => ensuring' \in [WalletCalls -> Calls]
  BY <1>0 DEF W!Finish, W!Proceed
<1>2. \A u \in Users : W!StatusFor(wallet[u].address) \in {"ready", "provisioning"}
  BY DEF W!StatusFor
<1>3. ASSUME NEW u, NEW status \in WalletStates, W!SetStatus(u, status)
      PROVE  wallet' \in [Users -> Rows]
  <2>1. CASE u \in Users
    <3> PICK w \in Rows : w = wallet[u]
      BY <2>1
    <3> DEFINE x == [w EXCEPT !.status = status, !.byAdmin = FALSE]
    <3>1. wallet' = [wallet EXCEPT ![u] = x]
      BY <1>3, Zenon DEF W!SetStatus
    <3>2. x = [w EXCEPT !.status = status, !.byAdmin = FALSE]
      OBVIOUS
    <3> HIDE DEF x
    <3>3. x = [status |-> status, address |-> w.address, byAdmin |-> FALSE, recent |-> w.recent]
      BY <3>2
    <3>4. w.address \in {0, 1} /\ w.recent \in BOOLEAN
      OBVIOUS
    <3>5. x \in Rows
      BY <1>3, <3>3, <3>4
    <3> QED BY <3>1, <3>5
  <2>2. CASE u \notin Users
    BY <1>3, <2>2 DEF W!SetStatus
  <2> QED BY <2>1, <2>2
<1>4. ASSUME NEW c \in WalletCalls, NEW u \in Holders, W!Look(c, u)
      PROVE  WalletRows'
  <2>1. u \in Users /\ wallet[u] \in Rows
    BY <1>0
  <2>2. PICK found \in Rows :
          found = IF wallet[u].status # "none" THEN wallet[u]
                  ELSE [wallet[u] EXCEPT !.status = IF walletOn THEN "provisioning" ELSE "disabled"]
    BY <2>1
  <2>3. PICK next \in {"idle", "wake", "mark"} : next = W!AfterLook(found)
    BY DEF W!AfterLook
  <2>4. /\ wallet' = [wallet EXCEPT ![u] = found] /\ walletOn' = walletOn
        /\ \/ ensuring' = ensuring
           \/ ensuring' = [ensuring EXCEPT ![c] = [pc |-> next, user |-> u, address |-> wallet[u].address]]
    BY <1>4, <2>2, <2>3 DEF W!Look
  <2>5. wallet' \in [Users -> Rows]
    BY <2>1, <2>2, <2>4
  <2>6. [pc |-> next, user |-> u, address |-> wallet[u].address] \in Calls
    BY <2>1, <2>3
  <2>7. ensuring' \in [WalletCalls -> Calls]
    BY <2>4, <2>6
  <2> QED BY <2>4, <2>5, <2>7
<1>5. ASSUME NEW c \in WalletCalls, W!Wake(c)
      PROVE  WalletRows'
  <2>1. walletOn' = walletOn /\ W!StatusFor(ensuring[c].address) \in WalletStates
    BY <1>5 DEF W!Wake, W!StatusFor
  <2>2. wallet' \in [Users -> Rows]
    BY <1>3, <1>5, <2>1 DEF W!Wake
  <2>3. ensuring' \in [WalletCalls -> Calls]
    BY <1>1, <1>5 DEF W!Wake
  <2> QED BY <2>1, <2>2, <2>3
<1>6. ASSUME NEW c \in WalletCalls, W!Mark(c) \/ W!Fail(c)
      PROVE  WalletRows'
  <2>1. wallet' \in [Users -> Rows] /\ walletOn' = walletOn
    BY <1>6 DEF W!Mark, W!Fail
  <2>2. ensuring' \in [WalletCalls -> Calls]
    BY <1>1, <1>6 DEF W!Mark, W!Fail
  <2> QED BY <2>1, <2>2
<1>7. ASSUME NEW c \in WalletCalls, W!AskCustodian(c)
      PROVE  WalletRows'
  <2>1. UNCHANGED <<walletOn, wallet>> /\ ensuring[c].pc = "custody"
    BY <1>7 DEF W!AskCustodian
  <2>2. ensuring[c].user \in Users
    BY <2>1 DEF WalletTypes
  <2>3. W!Held(ensuring[c].user) = 1
    BY <2>2 DEF W!Held, WalletTypes
  <2>4. CASE W!Proceed(c, "fail")
    BY <1>1, <2>1, <2>4
  <2>5. CASE /\ custody' = [custody EXCEPT ![ensuring[c].user] = W!Held(ensuring[c].user)]
             /\ ensuring' = [ensuring EXCEPT ![c].pc = "store",
                                             ![c].address = custody'[ensuring[c].user]]
    <3>1. custody'[ensuring[c].user] = 1
      BY <2>2, <2>3, <2>5 DEF WalletTypes
    <3>2. ensuring' = [ensuring EXCEPT ![c].pc = "store", ![c].address = 1]
      BY <2>5, <3>1
    <3> PICK e \in Calls : e = ensuring[c]
      OBVIOUS
    <3> DEFINE x == [e EXCEPT !.pc = "store", !.address = 1]
    <3>3. ensuring' = [ensuring EXCEPT ![c] = x]
      BY <3>2, Zenon
    <3>4. x = [e EXCEPT !.pc = "store", !.address = 1]
      OBVIOUS
    <3> HIDE DEF x
    <3>5. x = [pc |-> "store", user |-> e.user, address |-> 1]
      BY <3>4
    <3>6. x \in Calls
      BY <3>5
    <3>7. ensuring' \in [WalletCalls -> Calls]
      BY <3>3, <3>6
    <3> QED BY <2>1, <3>7
  <2> QED BY <1>7, <2>4, <2>5 DEF W!AskCustodian
<1>8. ASSUME NEW c \in WalletCalls, W!Store(c)
      PROVE  WalletRows'
  <2>1. wallet' \in [Users -> Rows] /\ walletOn' = walletOn
    <3>1. ensuring[c].user \in Users /\ ensuring[c].address = 1
      BY <1>8 DEF W!Store, WalletTypes
    <3>2. wallet' = [wallet EXCEPT ![ensuring[c].user].status = "ready",
                                   ![ensuring[c].user].byAdmin = FALSE,
                                   ![ensuring[c].user].address = 1]
      BY <1>8, <3>1 DEF W!Store
    <3>3. wallet' \in [Users -> Rows]
      BY <3>1, <3>2
    <3> QED BY <1>8, <3>3 DEF W!Store
  <2>2. ensuring' \in [WalletCalls -> Calls]
    BY <1>1, <1>8 DEF W!Store
  <2> QED BY <2>1, <2>2
<1>9. ASSUME NEW c \in WalletCalls, W!FindPlatform(c) \/ W!CreatePlatform(c)
      PROVE  WalletRows'
  BY <1>1, <1>9 DEF W!FindPlatform, W!CreatePlatform
<1>10. ASSUME NEW u \in Holders, W!MinutePasses(u) \/ W!DisableWallet(u)
       PROVE  WalletRows'
  <2>1. UNCHANGED <<walletOn, ensuring>>
    BY <1>10 DEF W!MinutePasses, W!DisableWallet
  <2>2. \/ wallet' = wallet \/ wallet' = [wallet EXCEPT ![u].recent = FALSE]
        \/ wallet' = [wallet EXCEPT ![u].status = "disabled", ![u].byAdmin = TRUE]
    BY <1>10 DEF W!MinutePasses, W!DisableWallet
  <2>3. u \in Users /\ wallet[u] \in Rows
    BY <1>0
  <2> DEFINE x == [wallet[u] EXCEPT !.recent = FALSE]
             y == [wallet[u] EXCEPT !.status = "disabled", !.byAdmin = TRUE]
  <2>4. x \in Rows
    BY <2>3
  <2>5. y \in Rows
    BY <2>3
  <2>6. \/ wallet' = wallet \/ wallet' = [wallet EXCEPT ![u] = x]
        \/ wallet' = [wallet EXCEPT ![u] = y]
    BY <2>2, <2>3, Zenon
  <2> HIDE DEF x, y
  <2>7. wallet' \in [Users -> Rows]
    BY <2>3, <2>4, <2>5, <2>6
  <2> QED BY <2>1, <2>7
<1>11. ASSUME NEW u \in Holders, W!EnableWallet(u)
       PROVE  WalletRows'
  <2>1. UNCHANGED <<walletOn, ensuring>>
    BY <1>11 DEF W!EnableWallet
  <2>2. wallet' \in [Users -> Rows]
    BY <1>0, <1>2, <1>3, <1>11 DEF W!EnableWallet
  <2> QED BY <2>1, <2>2
<1>12. W!SwitchFeature => WalletRows'
  BY DEF W!SwitchFeature
<1> QED
  BY <1>4, <1>5, <1>6, <1>7, <1>8, <1>9, <1>10, <1>11, <1>12 DEF W!ProvisioningStep

\* Every step of every part keeps the types of the rows.
LEMMA TypesKept ==
  ASSUME RowTypes, AccountsInv, [Next]_vars
  PROVE  RowTypes'
<1> USE DEF RowTypes
<1>0. FactorTypes /\ OwnersInv /\ ProjectTypes /\ ProjectInv /\ WalletTypes
  BY DEF AccountsInv, FactorInv, ProjectInv, WalletInv
<1>1. GovernedTypes'
  <2>1. CASE UNCHANGED <<roles, account, governing>>
    BY <2>1 DEF GovernedTypes
  <2>2. CASE G!GovernanceStep
    BY <1>0, <2>2, TypesGovern
  <2>3. CASE R!ReferralStep /\ UNCHANGED governing
    BY <2>3, TypesSignUp
  <2> QED BY <2>1, <2>2, <2>3 DEF Next, vars, people, governanceVars
<1>2. SecretTypes'
  <2>1. CASE UNCHANGED factorVars
    BY <2>1 DEF SecretTypes, factorVars
  <2> QED BY <1>0, <2>1, TypesCascade, TypesFactor DEF Next, vars
<1>3. HuntTypes'
  <2>1. CASE UNCHANGED proposalVars
    BY <2>1 DEF HuntTypes, proposalVars
  <2> QED BY <1>0, <2>1, TypesCascade, TypesHunt DEF Next, vars
<1>4. WalletRows'
  <2>1. CASE UNCHANGED walletVars
    BY <2>1 DEF WalletRows, walletVars
  <2> QED BY <1>0, <2>1, TypesWallet DEF Next, vars
<1>5. BindTypes'
  <2>1. CASE UNCHANGED referralVars
    BY <2>1 DEF BindTypes, referralVars
  <2> QED BY <2>1, TypesCascade, TypesBind DEF Next, vars
<1>6. (scene \in Scenes)'
  BY DEF Next, vars
<1> QED BY <1>1, <1>2, <1>3, <1>4, <1>5, <1>6

\* The invariants give every variable its type.
LEMMA TypesHold ==
  ASSUME RowTypes, AccountsInv, BooksInv, DigestInv, SessionInv
  PROVE  TypeOK
<1>1. G!GovernanceTypeOK
  <2>1. \A u \in Users : \A i \in 1..Len(applications[u]) : applications[u][i] \in Applied
    BY DEF AccountsInv, OwnersInv
  <2> QED BY <2>1 DEF RowTypes, GovernedTypes, G!GovernanceTypeOK, Applied, Accountings
<1>2. F!FactorsTypeOK
  <2>1. SecretTypes /\ FactorTypes
    BY DEF RowTypes, AccountsInv, FactorInv
  <2>2. ASSUME NEW u \in Users
        PROVE  codes[u] \subseteq [of : 1..issued, renewed : BOOLEAN, dashed : BOOLEAN]
    BY <2>1, Zenon DEF SecretTypes
  <2> QED BY <2>1, <2>2 DEF SecretTypes, FactorFits, FactorGoals, FactorTypes, F!FactorsTypeOK
<1>3. P!ProposalsTypeOK
  <2>1. HuntTypes /\ ProjectTypes /\ ProjectRows
    BY DEF RowTypes, AccountsInv, ProjectInv
  <2>2. \A i \in 1..Len(proposals) : proposals[i] \in Proposed
    BY <2>1 DEF ProjectTypes
  <2>3. origin \in [Names -> 0..Len(proposals)]
    <3>1. \A n \in Names : origin[n] \in 0..Len(proposals)
      BY <2>1 DEF ProjectTypes, ProjectRows
    <3> QED BY <2>1, <3>1 DEF ProjectTypes
  <2>4. deciding \in [Deciders -> [pc : {"idle", "create", "assign", "mark", "join"},
                                   index : 0..Len(proposals),
                                   verdict : {"none", "approved", "rejected"},
                                   user : Users \cup {NoUser}, name : Names]]
    BY <2>1 DEF HuntTypes
  <2> QED BY <2>1, <2>2, <2>3, <2>4 DEF HuntTypes, ProjectTypes, Proposed, Answers, P!ProposalsTypeOK
<1>4. W!ProvisioningTypeOK
  <2>1. WalletRows /\ WalletTypes
    BY DEF RowTypes, AccountsInv, WalletInv
  <2>2. wallet \in [Users -> [status : WalletStates, address : Nat, byAdmin : BOOLEAN,
                              recent : BOOLEAN]]
    BY <2>1 DEF WalletRows
  <2>3. ensuring \in [WalletCalls -> [pc : Ensurings, user : Users \cup {NoUser}, address : Nat]]
    BY <2>1 DEF WalletRows
  <2> QED BY <2>1, <2>2, <2>3
          DEF WalletRows, WalletTypes, WalletStates, Ensurings, W!ProvisioningTypeOK
<1>5. T!TransfersTypeOK
  <2>1. Limits \subseteq Nat /\ today \in 0..LastDay
    BY AccountsAssumption DEF Limits, BooksInv
  <2>2. ASSUME NEW i \in 1..Len(entries)
        PROVE  entries[i] \in [from : Users, to : Users, key : Keys, amount : Amounts,
                               limit : Nat, barred : BOOLEAN, day : 0..LastDay]
    <3>1. entries[i] \in EntryRows /\ entries[i].day \in 0..today
      BY <2>2 DEF AccountsInv, TransferInv, BooksInv
    <3>2. entries[i].day \in 0..LastDay
      BY <2>1, <3>1, AccountsAssumption
    <3> QED BY <2>1, <3>1, <3>2 DEF EntryRows
  <2>3. ASSUME NEW c \in TransferCalls
        PROVE  transferring[c] \in [from : Users \cup {NoUser}, to : Users \cup {NoUser}, key : Keys,
                                    amount : Amounts \cup {0}, limit : Nat, barred : BOOLEAN]
    <3>1. transferring[c] \in Flights \/ transferring[c] = T!NoTransfer
      BY <2>3 DEF AccountsInv, TransferInv
    <3>2. (CHOOSE k \in Keys : TRUE) \in Keys
      BY AccountsAssumption
    <3>3. CASE transferring[c] \in Flights
      BY <2>1, <3>3 DEF Flights
    <3>4. PICK k \in Keys : T!NoTransfer = [from |-> NoUser, to |-> NoUser, key |-> k, amount |-> 0,
                                            limit |-> 0, barred |-> FALSE]
      BY <3>2 DEF T!NoTransfer
    <3>5. CASE transferring[c] = T!NoTransfer
      BY <3>4, <3>5
    <3> QED BY <3>1, <3>3, <3>5
  <2> QED BY <2>1, <2>2, <2>3 DEF BooksInv, KycRows, T!TransfersTypeOK
<1>6. R!ReferralsTypeOK
  BY DEF RowTypes, BindTypes, AccountsInv, ReferInv, R!ReferralsTypeOK
<1>7. D!DigestTypeOK
  <2>1. now \in 0..LastSlot
    BY AccountsAssumption DEF DigestInv, EmailTypes
  <2>2. ASSUME NEW u \in Readers PROVE \A i \in 1..Len(emails[u]) : emails[u][i] \in 0..LastSlot
    <3>1. emails[u] \in Seq(0..LastSlot)
      BY DEF DigestInv, EmailTypes
    <3>2. ASSUME NEW numbers, NEW e \in Seq(numbers), NEW i \in 1..Len(e) PROVE e[i] \in numbers
      OBVIOUS
    <3> QED BY <3>1, <3>2
  <2> QED BY <2>1, <2>2 DEF DigestInv, EmailTypes, D!DigestTypeOK
<1>8. Console!ConsoleTypeOK
  <2>1. SessionTypes /\ SessionBounds /\ FlightsAgree
    BY DEF SessionInv
  <2>2. tokens \in Seq([of : 1..signIns, age : {"fresh", "leeway", "expired"},
                        spent : BOOLEAN, revoked : BOOLEAN])
    <3>1. \A t \in 1..Len(tokens) : tokens[t] \in [of : 1..signIns, age : {"fresh", "leeway", "expired"},
                                                    spent : BOOLEAN, revoked : BOOLEAN]
      <4>1. SUFFICES ASSUME NEW t \in 1..Len(tokens)
                     PROVE  tokens[t] \in [of : 1..signIns, age : {"fresh", "leeway", "expired"},
                                           spent : BOOLEAN, revoked : BOOLEAN]
        OBVIOUS
      <4>2. tokens[t] \in Tokens /\ tokens[t].of \in 1..signIns
        BY <2>1 DEF SessionTypes, SessionBounds
      <4> QED BY <4>2 DEF Tokens
    <3>2. tokens \in Seq(Tokens)
      BY <2>1 DEF SessionTypes
    <3> QED BY <3>1, <3>2, OfElements
  <2>3. granted \in Seq(1..signIns)
    <3>1. granted \in Seq(Nat) /\ \A k \in 1..Len(granted) : granted[k] \in 1..signIns
      BY <2>1 DEF SessionTypes, SessionBounds
    <3> QED BY <3>1, OfElements
  <2>4. jar \in [access : 0..Len(tokens), refresh : 0..Len(tokens), factor : 0..Len(granted)]
    BY <2>1 DEF SessionTypes, SessionBounds
  <2>5. ASSUME NEW c \in Callers
        PROVE  requests[c] \in
                 [pc : Console!Pcs, kind : Console!Kinds, access : 0..Len(tokens),
                  refresh : 0..Len(tokens), factor : 0..Len(granted), got : 0..Len(tokens),
                  cleared : BOOLEAN, second : BOOLEAN, status : Console!Statuses, tries : 0..2,
                  again : BOOLEAN, done : 0..2]
    <3>1. requests[c] \in Requests /\ Known(requests[c])
      BY <2>1 DEF SessionTypes, SessionBounds
    <3> QED BY <3>1 DEF Requests, Known
  <2>6. DOMAIN requests = Callers
    BY <2>1 DEF SessionTypes
  <2> QED BY <2>1, <2>2, <2>3, <2>4, <2>5, <2>6
          DEF SessionTypes, FlightsAgree, Callers, Console!ConsoleTypeOK
<1> QED BY <1>1, <1>2, <1>3, <1>4, <1>5, <1>6, <1>7, <1>8 DEF RowTypes, TypeOK

\* Every variable has its type, whatever hazards a scene has: no call names a
\* row that was not made, and no request a token or a second-factor session
\* that was not given.
THEOREM TypeCorrect == Spec => []TypeOK
<1>1. Init => RowTypes
  BY TypesAtFirst
<1>2. RowTypes /\ AccountsInv /\ [Next]_vars => RowTypes'
  BY TypesKept
<1>3. Spec => []RowTypes
  BY <1>1, <1>2, AccountsCorrect, PTL DEF Spec
<1>4. RowTypes /\ AccountsInv /\ BooksInv /\ DigestInv /\ SessionInv => TypeOK
  BY TypesHold
<1> QED BY <1>3, <1>4, AccountsCorrect, BooksCorrect, DigestCorrect, SessionCorrect, PTL
=============================================================================
