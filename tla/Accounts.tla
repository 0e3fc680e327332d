-------------------------------- MODULE Accounts -------------------------------
(***************************************************************************)
(* What belongs to an account: its roles, its second factor, its projects  *)
(* and proposals, its wallet, transfers and tier, its referrer, the digests *)
(* it is sent, and an administrator's session in the console.  A profile   *)
(* that is deleted takes its rows with it.                                 *)
(* scene says which parts are at work and which hazards may happen.        *)
(***************************************************************************)
EXTENDS Integers, Sequences, FiniteSetsExt, Totals

CONSTANTS
  Scenes,  \* bound: the scenes that are looked at
  Users, NoUser, Governors, FirstRoles, MaxApplications, RoleMoves, Newcomers,
  FactorCalls, MaxSecrets,
  Names, Deciders, MaxProposals,
  WalletCalls, Holders,
  TransferCalls, Payers, Applicants, Amounts, Keys, FirstBalance, LimitOf, Tiers, MaxEntries, LastDay,
  Binders,
  Readers, Day, Week, Target, Zone, Weekly, SendWindow, LastSlot, MaxEmails,
  ConsoleCalls, Tab, MaxTokens, MaxSignIns, MaxFactors

ASSUME AccountsAssumption ==
  /\ NoUser \notin Users /\ Newcomers \subseteq Users /\ Readers \subseteq Users
  /\ Holders \subseteq Users /\ Payers \subseteq Users
  /\ IsFiniteSet(Users)
  /\ FirstRoles \in [Users -> SUBSET {"owner", "dev", "admin", "hunter", "user"}]
  /\ \E u \in Users \ Newcomers : "owner" \in FirstRoles[u]
  /\ RoleMoves \subseteq {"owner", "dev", "admin", "hunter", "user"} /\ MaxSecrets \in Nat \ {0}
  /\ Amounts \subseteq Nat \ {0} /\ FirstBalance \in [Users -> Nat] /\ Keys # {} /\ Names # {}
  /\ "basic" \in DOMAIN LimitOf /\ \A t \in DOMAIN LimitOf : LimitOf[t] \in Nat
  /\ LastDay \in Nat /\ Day \in Nat \ {0} /\ Week \in Nat /\ SendWindow \in Nat /\ LastSlot \in Nat
  /\ Target \in [Readers -> 0..(Day - 1)] /\ Zone \in [Readers -> Nat]
  /\ Tab \notin ConsoleCalls /\ MaxSignIns \in Nat \ {0}

VARIABLES
  scene, roles, account,
  applications, governing,
  issued, credential, challenge, codes, sessions, required, factoring,
  projects, origin, hunting, invites, proposals, deciding,
  walletOn, wallet, custody, barred, ensuring, platform,
  balance, entries, today, kyc, transferring,
  referrer, early, bindings, binding,
  slot, running, now, todo, unmarked, lastSent, emails,
  jar, tokens, signIns, signedIn, leaving, granted, flights, requests

G == INSTANCE Governance
F == INSTANCE TwoFactor
P == INSTANCE Proposals
W == INSTANCE Provisioning
T == INSTANCE Transfers
R == INSTANCE Referrals
D == INSTANCE Digest
Console == INSTANCE ConsoleSession

people == <<roles, account>>
governanceVars == <<applications, governing>>
factorVars == <<issued, credential, challenge, codes, sessions, required, factoring>>
proposalVars == <<projects, origin, hunting, invites, proposals, deciding>>
walletVars == <<walletOn, wallet, custody, barred, ensuring, platform>>
transferVars == <<balance, entries, today, kyc, transferring>>
referralVars == <<referrer, early, bindings, binding>>
digestVars == <<slot, running, now, todo, unmarked, lastSent, emails>>
consoleVars == <<jar, tokens, signIns, signedIn, leaving, granted, flights, requests>>
vars == <<scene, people, governanceVars, factorVars, proposalVars, walletVars,
          transferVars, referralVars, digestVars, consoleVars>>

Init ==
  /\ scene \in Scenes
  /\ G!GovernanceInit /\ F!FactorsInit /\ P!ProposalsInit /\ W!ProvisioningInit
  /\ T!TransfersInit /\ R!ReferralsInit /\ D!DigestInit /\ Console!ConsoleInit

Next ==
  /\ UNCHANGED scene
  /\ \/ /\ G!GovernanceStep /\ F!FactorsCascade /\ P!ProposalsCascade /\ R!ReferralsCascade
        /\ UNCHANGED <<walletVars, transferVars, digestVars, consoleVars>>
     \/ /\ F!FactorStep
        /\ UNCHANGED <<people, governanceVars, proposalVars, walletVars, transferVars,
                       referralVars, digestVars, consoleVars>>
     \/ /\ P!ProposalStep
        /\ UNCHANGED <<people, governanceVars, factorVars, walletVars, transferVars,
                       referralVars, digestVars, consoleVars>>
     \/ /\ W!ProvisioningStep
        /\ UNCHANGED <<people, governanceVars, factorVars, proposalVars, transferVars,
                       referralVars, digestVars, consoleVars>>
     \/ /\ T!TransferStep
        /\ UNCHANGED <<people, governanceVars, factorVars, proposalVars, walletVars,
                       referralVars, digestVars, consoleVars>>
     \/ /\ R!ReferralStep
        /\ UNCHANGED <<governanceVars, factorVars, proposalVars, walletVars, transferVars,
                       digestVars, consoleVars>>
     \/ /\ D!DigestStep
        /\ UNCHANGED <<people, governanceVars, factorVars, proposalVars, walletVars,
                       transferVars, referralVars, consoleVars>>
     \/ /\ Console!ConsoleStep
        /\ UNCHANGED <<people, governanceVars, factorVars, proposalVars, walletVars,
                       transferVars, referralVars, digestVars>>

Spec == Init /\ [][Next]_vars

-------------------------------------------------------------------------------
Without(hazards) == scene \cap hazards = {}

\* Every variable has its type.
TypeOK ==
  /\ scene \in Scenes
  /\ G!GovernanceTypeOK /\ F!FactorsTypeOK /\ P!ProposalsTypeOK /\ W!ProvisioningTypeOK
  /\ T!TransfersTypeOK /\ R!ReferralsTypeOK /\ D!DigestTypeOK /\ Console!ConsoleTypeOK

\* Role changes that do not overlap leave an owner, and an active one unless
\* an owner deactivates himself or a deactivated user is made one, however
\* demotions, deletions and reactivations alternate; and nobody has two
\* applications that wait for a decision.
OwnersRemain ==
  Without({"overlap_roles"}) =>
    /\ G!Owners # {}
    /\ Without({"self_deactivate", "promote_inactive"}) => G!ActiveOwners # {}
    /\ \A u \in Users : Cardinality(G!Pending(u)) <= 1

\* The second factor, if its calls do not overlap: a session and a recovery
\* code belong to the factor in force, and while the policy requires one and
\* no role is given, every administrator has one.  Calls that overlap or not, a
\* secret that is enrolled is not offered for enrolment any more.
TwoFactorAgrees ==
  /\ \A u \in Users : credential[u] # 0 => challenge[u] # credential[u]
  /\ Without({"overlap_factors"}) =>
       /\ \A u \in Users :
            /\ sessions[u] \subseteq {credential[u]} \ {0}
            /\ {k.of : k \in codes[u]} \subseteq {credential[u]} \ {0}
       /\ required /\ Without({"roles", "applications"}) =>
            \A u \in Users : F!Eligible(u) => credential[u] # 0

InDecision(i) == \E c \in Deciders : deciding[c].index = i
Joining(n, u) == \E c \in Deciders : deciding[c].user = u /\ deciding[c].name = n

\* The owner of a project has a profile.  An approved proposal has its
\* project, made from it and from no other; if
\* decisions neither overlap nor fail half way, a project made from a proposal
\* is that of an approved one, with its applicant among the hunters, and who
\* accepted an invitation is among the hunters.
ProjectsAgree ==
  /\ \A n \in Names : projects[n] # NoUser => account[projects[n]] # "gone"
  /\ \A i \in 1..Len(proposals) :
       proposals[i].status = "approved" => origin[proposals[i].name] = i
  /\ Without({"overlap_decisions", "decision_error"}) =>
       /\ \A n \in Names : origin[n] # 0 /\ ~InDecision(origin[n]) =>
            LET p == proposals[origin[n]] IN
            p.status = "gone" \/ (p.status = "approved" /\ <<n, p.by>> \in hunting)
       /\ \A n \in Names, u \in Users :
            invites[n][u] = "accepted" /\ ~Joining(n, u) => <<n, u>> \in hunting

\* However the calls that provision a wallet overlap or fail, the custodian
\* holds at most one for a user, and it is the one the row names.  A wallet an
\* administrator disabled stays disabled, and neither sends nor receives in
\* transfers that begin later, unless a call that was under way wakes it, or it
\* was already disabled because the feature was off; and there is one platform
\* account unless two requests look for it at once.
WalletsAgree ==
  /\ \A u \in Users :
       /\ custody[u] <= 1
       /\ wallet[u].address # 0 => custody[u] = 1 /\ wallet[u].address = 1
       /\ wallet[u].status = "ready" => wallet[u].address # 0
  /\ Without({"late_provision", "feature_switched"}) =>
       /\ \A u \in Users : barred[u] => wallet[u].status = "disabled"
       /\ \A i \in 1..Len(entries) : ~entries[i].barred
  /\ Without({"overlap_platform"}) => platform <= 1

Sent(u) == Total(T!AmountOf, {i \in 1..Len(entries) : entries[i].from = u})
Received(u) == Total(T!AmountOf, {i \in 1..Len(entries) : entries[i].to = u})
UsedUpTo(i) == Total(T!AmountOf, T!OfDay(entries[i].from, entries[i].day) \cap 1..i)

\* A balance is what it was, plus what was received, less what was sent; a key
\* moves money once; and if a user's transfers do not overlap, each kept its
\* day within the limit it was checked against, also over midnight and a
\* change of tier.  An approved identity has a tier with limits of its own.
TransferBooks ==
  /\ \A u \in Users : balance[u] = FirstBalance[u] + Received(u) - Sent(u)
  /\ \A i, j \in 1..Len(entries) : entries[i].key = entries[j].key => i = j
  /\ Without({"overlap_transfers"}) =>
       \A i \in 1..Len(entries) : entries[i].limit > 0 => UsedUpTo(i) <= entries[i].limit
  /\ \A u \in Users : kyc[u].status = "approved" => kyc[u].tier \in DOMAIN LimitOf

\* Nobody is his own referrer; and if bindings do not overlap, a profile is
\* given one referrer in its life and no two users are each other's.
ReferralsAgree ==
  /\ \A u \in Users : referrer[u] = NoUser \/ referrer[u] # u
  /\ Without({"overlap_binds"}) =>
       \A u \in Users :
         /\ bindings[u] = IF referrer[u] = NoUser THEN 0 ELSE 1
         /\ referrer[u] # NoUser => referrer[referrer[u]] # u

WindowOf(u, t) == D!LocalDate(u, t) - (IF D!LocalSlot(u, t) < Target[u] THEN 1 ELSE 0)

\* A user is marked only for a digest that went out.  If every email is
\* marked, a daily reader gets one a date, and two in one window only when it
\* reaches past midnight; a weekly one gets none within a week.
DigestOnce ==
  /\ \A u \in Readers : lastSent[u] # -1 => \E i \in 1..Len(emails[u]) : emails[u][i] = lastSent[u]
  /\ Without({"mark_error", "restart"}) =>
       \A u \in Readers : \A i, j \in 1..Len(emails[u]) :
         i < j => IF u \in Weekly THEN emails[u][j] - emails[u][i] >= Week
                  ELSE /\ D!LocalDate(u, emails[u][i]) # D!LocalDate(u, emails[u][j])
                       /\ WindowOf(u, emails[u][i]) = WindowOf(u, emails[u][j]) => D!Wraps(u)

\* The console's cookies are of one refresh, and a request is carried out
\* twice only if its answer was an error or got lost.  If signing in and out
\* and second factors meet no request: neither a session nor a second factor
\* that was left comes back, no race of refreshes ends a session, and once all
\* is answered the second factor is the newest, and the refresh token not a
\* spent one, unless an answer was lost or one with new tokens overtaken or
\* dropped.  Requests one at a time never send the administrator to sign in.
SessionAgrees ==
  /\ jar.access \in {0, jar.refresh}
  /\ Without({"backend_error", "lost_answer"}) => \A c \in ConsoleCalls : requests[c].done <= 1
  /\ Without({"overlap_sign"}) =>
       /\ jar.refresh # 0 => tokens[jar.refresh].of = signedIn
       /\ jar.factor # 0 => granted[jar.factor] = signedIn
       /\ signedIn # 0 => jar.refresh # 0
       /\ Without({"lost_answer"}) /\ (\A c \in DOMAIN requests : Console!Idle(c)) =>
            jar.factor \in {0, Len(granted)}
       /\ Without({"refresh_error", "lost_answer", "late_answer", "wrong_code"}) =>
            /\ jar.refresh # 0 /\ (\A c \in DOMAIN requests : Console!Idle(c)) => ~tokens[jar.refresh].spent
            /\ Without({"overlap_calls", "backend_401", "backend_error"}) /\ signedIn # 0 =>
                 \A c \in ConsoleCalls : requests[c].pc # "away"
=============================================================================
