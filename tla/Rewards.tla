-------------------------------- MODULE Rewards -------------------------------
(***************************************************************************)
(* Mining, quests with their badges, and tips, over what they share: the   *)
(* points of a profile, their ledger, and the tip account a claim pays     *)
(* into.  scene says which parts are at work and which hazards may happen. *)
(***************************************************************************)
EXTENDS Integers, Sequences, FiniteSetsExt, Totals

CONSTANTS
  Scenes,  \* bound: the scenes that are looked at
  Users, NoUser, Atomic,
  Members, \* the users who mine and do quests; any user may tip
  Calls, CycleHours, Projections, BaseProjection, MaxClock, MaxSessions,
  Quests, NoQuest, Automatic, RewardPoints, FirstReward, FirstBadge, Badges, NoBadge, Given,
  Milestones, Stewards, Submitters, Reviewers, MaxSubmissions,
  Hunters, Policies, DefaultPolicy, Amounts, Keys, Points, Token, Switchers

ASSUME RewardsAssumption ==
  /\ CycleHours \in Nat \ {0, 1} /\ Atomic \in Nat /\ MaxClock \in Nat
  /\ Projections \subseteq Nat /\ BaseProjection \in Projections /\ RewardPoints \subseteq Nat
  /\ Automatic \subseteq Quests /\ FirstBadge \in [Quests -> Badges \cup {NoBadge}]
  /\ FirstReward \in [Quests -> RewardPoints] /\ DefaultPolicy \in Policies
  /\ NoBadge = 0 /\ Badges \subseteq Nat \ {0}
  /\ Hunters \subseteq Users /\ Members \subseteq Users
  /\ NoUser \notin Users /\ NoQuest \notin Quests /\ Given \notin Quests
  /\ Policies \subseteq [bps : Nat, minFee : Nat, maxFee : Nat, minTip : Nat, maxTip : Nat,
                         senderPays : BOOLEAN]
  /\ Amounts \subseteq Nat /\ Keys # {} /\ Points # Token

VARIABLES
  scene, points, ledger, opened, tipBalance, funded,
  clock, sessions, hours, call,
  reward, rewardBadge, former, status, submissions, granted, lapses, submitter, reviewer,
  held, primary, steward,
  vault, tips, asking, policy, active, switching

M == INSTANCE Mining WITH Users <- Members
Q == INSTANCE Quests WITH Users <- Members
T == INSTANCE Tips

miningVars == <<clock, sessions, hours, call>>
questVars == <<reward, rewardBadge, former, status, submissions, granted, lapses, submitter,
               reviewer, held, primary, steward>>
tipVars == <<vault, tips, asking, policy, active, switching>>
vars == <<scene, points, ledger, opened, tipBalance, funded, miningVars, questVars, tipVars>>

Init ==
  /\ scene \in Scenes
  /\ points = [u \in Users |-> 0]
  /\ ledger = [u \in Users |-> [gained |-> 0, reversed |-> 0]]
  /\ opened = {}
  /\ tipBalance = [u \in Users |-> 0] /\ funded = [u \in Users |-> 0]
  /\ M!Init /\ Q!QuestsInit /\ T!Init
  /\ reward = FirstReward /\ rewardBadge = FirstBadge

Next ==
  /\ UNCHANGED scene
  /\ \/ M!Step /\ UNCHANGED <<questVars, tipVars>>
     \/ (Q!QuestStep \/ Q!BadgeStep) /\ UNCHANGED <<opened, tipBalance, funded, miningVars, tipVars>>
     \/ T!Step /\ UNCHANGED <<points, ledger, miningVars, questVars>>

Spec == Init /\ [][Next]_vars

-------------------------------------------------------------------------------
\* Every variable has its type.
TypeOK ==
  /\ scene \in Scenes
  /\ points \in [Users -> Nat]
  /\ ledger \in [Users -> [gained : Nat, reversed : Nat]]
  /\ M!MiningTypeOK /\ Q!QuestsTypeOK /\ T!TipsTypeOK

Without(hazards) == scene \cap hazards = {}

\* A claimed session has been accrued for its whole cycle, each hour once and
\* closed with it, and was paid once, what those hours are worth; an open one
\* has paid nothing and has no closed hour.  This is so although the hours are
\* written, and summed, outside the transaction that closes the session, by
\* calls that overlap.  A user whose calls do not overlap has at most one
\* session that is not claimed, whatever fails.
EveryHourPaid ==
  /\ \A u \in Members : \A i \in 1..Len(sessions[u]) :
       LET s == sessions[u][i]  rows == M!HoursOf(u, i) IN
       IF s.claimed
       THEN /\ {h.hour : h \in rows} = 1..CycleHours /\ \A h \in rows : h.claimed
            /\ s.paid = M!Worth(u, i, rows)
       ELSE s.paid = 0 /\ \A h \in rows : ~h.claimed
  /\ Without({"overlap_calls"}) => \A u \in Members : Cardinality(M!Unclaimed(u)) <= 1

\* The points of a profile are the sum of its ledger, unless a revocation has
\* written back a balance that changed since it read it, or one that did not
\* cover the reversal; the latter takes an edited reward, a submission that
\* is reviewed twice, or points another revocation overwrote.
PointsMatchLedger ==
  /\ lapses = {} => \A u \in Users : points[u] = ledger[u].gained - ledger[u].reversed
  /\ Without({"edit_reward", "overlap_reviews"}) /\ "overwritten" \notin lapses
       => "clamped" \notin lapses

Overlaps == {"overlap_submit", "early_review", "overlap_reviews", "submit_error"}

\* A user holds the reward of a quest exactly while he has completed it, once,
\* through any number of submissions, rejections, revocations and reviews that
\* failed half way.
RewardedOnce ==
  Without(Overlaps) =>
    \A u \in Members, q \in Quests :
      granted[u][q] = IF status[u][q] = "completed" THEN 1 ELSE 0

WithVerdict(u, q, verdict) ==
  {i \in 1..Len(submissions[u][q]) : submissions[u][q][i] = verdict}
Touched(u, q) ==
  \/ \E s \in Submitters : submitter[s].user = u /\ submitter[s].quest = q
  \/ \E r \in Reviewers : reviewer[r].user = u /\ reviewer[r].quest = q

\* Between calls, a quest waits for its verification exactly when one of its
\* submissions is pending, and a reviewed quest is completed exactly when one
\* is approved: otherwise nobody can review or submit it any more.
SubmissionsAgree ==
  Without(Overlaps \cup {"review_error"}) =>
    \A u \in Members, q \in Quests \ Automatic :
      ~Touched(u, q) =>
        /\ Cardinality(WithVerdict(u, q, "pending")) =
             (IF status[u][q] = "pending_verification" THEN 1 ELSE 0)
        /\ Cardinality(WithVerdict(u, q, "approved")) =
             (IF status[u][q] = "completed" THEN 1 ELSE 0)

\* A profile shows a badge its user holds, unless badge operations meet one
\* another, a failure or a review.  A badge a quest gave is held only while
\* that quest is completed, unless the quest has been given another badge since:
\* then a revocation looks for the new one.  Who completed a quest that kept its
\* badge has it, unless it was another quest's or an administrator's to take.
BadgesAgree ==
  /\ Without({"overlap_badges", "badge_error"}) /\ ~({"badges", "quests"} \subseteq scene) =>
       \A u \in Members :
         primary[u] # NoBadge /\ ~(\E k \in Stewards : steward[k].user = u)
           => Q!Holds(u, primary[u])
  /\ Without(Overlaps) =>
       \A u \in Members, q \in Quests, b \in Badges :
         /\ Q!GivenBy(u, b, q) => status[u][q] = "completed" \/ b \in former[q]
         /\ /\ status[u][q] = "completed" /\ rewardBadge[q] = b /\ former[q] = {}
            /\ "badges" \notin scene
            /\ \A o \in Quests \ {q} : b \notin {rewardBadge[o]} \cup former[o]
            => Q!Holds(u, b)

TipDebit == [t \in tips |-> t.debit]
TipFee == [t \in tips |-> t.fee]
TipNet == [t \in tips |-> t.debit - t.fee]

\* An account holds what was paid into it, and the tips received less their
\* fees, less the tips sent with theirs; the vault holds every fee; no account
\* was given more than its user ever gained; one key is one tip; and nobody
\* tips himself, or one who may not be tipped.  Exactly one currency is active,
\* unless switches to different ones overlap.
TipBooks ==
  /\ \A u \in Users :
       /\ tipBalance[u] = funded[u] + Total(TipNet, {t \in tips : t.to = u})
                                    - Total(TipDebit, {t \in tips : t.from = u})
       /\ funded[u] <= Atomic * ledger[u].gained
       /\ u \notin opened => tipBalance[u] = 0
  /\ vault = Total(TipFee, tips)
  /\ \A t, o \in tips : t.key = o.key => t = o
  /\ \A t \in tips : /\ t.to \in Hunters \ {t.from} /\ t.debit > t.fee
                     /\ t.amount = IF t.senderPays THEN t.debit - t.fee ELSE t.debit
  /\ Without({"clashing_switches"}) => Cardinality(active) = 1
=============================================================================
