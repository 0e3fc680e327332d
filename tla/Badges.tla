-------------------------------- MODULE Badges --------------------------------
(***************************************************************************)
(* The badges a user holds and the one his profile shows.  Quest rewards   *)
(* move badges inside the transaction of the reward; grants, revocations   *)
(* and milestones are several statements each, outside any transaction.    *)
(***************************************************************************)
EXTENDS Integers, Sequences, SequencesExt

CONSTANTS
  Users, NoUser, Quests,
  Badges,      \* 1..n: a larger badge has the higher priority
  NoBadge,     \* 0
  Given,       \* origin of a badge no quest gave
  Milestones,  \* the points a badge is awarded for, of badges that have one
  Stewards     \* badge operations that may be in progress at once

VARIABLES
  scene, points,
  held,      \* UserBadge rows of a user, oldest first
  primary,   \* Profile.primaryBadgeId
  steward    \* the operations in progress

Holds(u, b) == \E i \in 1..Len(held[u]) : held[u][i].badge = b
\* A user has at most one row of a badge.
Without(rows, b) ==
  IF \E i \in DOMAIN rows : rows[i].badge = b
  THEN RemoveAt(rows, CHOOSE i \in DOMAIN rows : rows[i].badge = b)
  ELSE rows

\* isBadgeHigherPriority: an unset primary gives way to any badge.
Outranks(b, current) == current = NoBadge \/ b > current
Ranked(u, b) == IF Outranks(b, primary[u]) THEN b ELSE primary[u]

\* checkAndAwardBadge inside the transaction of a quest reward.
Award(u, b, origin) ==
  IF b = NoBadge \/ Holds(u, b)
  THEN UNCHANGED <<held, primary>>
  ELSE /\ held' = [held EXCEPT ![u] = Append(@, [badge |-> b, by |-> origin])]
       /\ primary' = [primary EXCEPT ![u] = Ranked(u, b)]

GivenBy(u, b, q) ==
  \E i \in 1..Len(held[u]) : held[u][i] = [badge |-> b, by |-> q]

Fallback_Unchanged(rest, b, current) == current
Fallback(rest, b, current) ==
  IF current # b THEN current ELSE IF rest = <<>> THEN NoBadge ELSE Last(rest).badge

\* The part of revokeQuestRewards that takes the badge back; the profile then
\* shows the badge earned last.
TakeBack(u, b, q) ==
  IF b = NoBadge \/ ~GivenBy(u, b, q)
  THEN UNCHANGED <<held, primary>>
  ELSE LET rest == Without(held[u], b) IN
       /\ held' = [held EXCEPT ![u] = rest]
       /\ primary' = [primary EXCEPT ![u] = Fallback(rest, b, @)]

-------------------------------------------------------------------------------
NoStep == [pc |-> "idle", user |-> NoUser, badge |-> NoBadge]
Rest(k) == steward' = [steward EXCEPT ![k] = NoStep]
At(k, pc) == steward[k].pc = pc
Busy == {k \in Stewards : steward[k].pc # "idle"}
MayStart(k) ==
  /\ "badges" \in scene /\ At(k, "idle")
  /\ "overlap_badges" \in scene \/ Busy = {}
Take(k, pc, u, b) ==
  steward' = [steward EXCEPT ![k] = [pc |-> pc, user |-> u, badge |-> b]]

\* grantBadge and the milestones of checkMiningMilestones: the row ...
GrantBadge(k, u, b) ==
  /\ MayStart(k) /\ ~Holds(u, b)
  /\ Take(k, "rank", u, b)
  /\ held' = [held EXCEPT ![u] = Append(@, [badge |-> b, by |-> Given])]
  /\ UNCHANGED primary

CheckMilestone(k, u, b) ==
  /\ b \in DOMAIN Milestones /\ points[u] >= Milestones[b]
  /\ GrantBadge(k, u, b)

\* ... and then ensurePrimaryBadgePriority.
RankBadge(k) ==
  LET u == steward[k].user  b == steward[k].badge IN
  /\ At(k, "rank")
  /\ primary' = [primary EXCEPT ![u] = Ranked(u, b)]
  /\ Rest(k)
  /\ UNCHANGED held

\* revokeBadge: the primary badge is unset first, then the row is deleted.
UnsetPrimary(k, u, b) ==
  /\ MayStart(k) /\ Holds(u, b)
  /\ primary' = IF primary[u] = b THEN [primary EXCEPT ![u] = NoBadge] ELSE primary
  /\ Take(k, "delete", u, b)
  /\ UNCHANGED held

DeleteBadge(k) ==
  LET u == steward[k].user IN
  /\ At(k, "delete")
  /\ held' = [held EXCEPT ![u] = Without(@, steward[k].badge)]
  /\ Rest(k)
  /\ UNCHANGED primary

\* setUserPrimaryBadge: looks at the row, then writes the profile.
ChoosePrimary(k, u, b) ==
  /\ MayStart(k) /\ Holds(u, b)
  /\ Take(k, "choose", u, b)
  /\ UNCHANGED <<held, primary>>

WritePrimary(k) ==
  /\ At(k, "choose")
  /\ primary' = [primary EXCEPT ![steward[k].user] = steward[k].badge]
  /\ Rest(k)
  /\ UNCHANGED held

\* A failing statement, or a restart, ends an operation where it stands.
StewardError(k) ==
  /\ "badge_error" \in scene /\ ~At(k, "idle")
  /\ Rest(k)
  /\ UNCHANGED <<held, primary>>

Init ==
  /\ held = [u \in Users |-> <<>>]
  /\ primary = [u \in Users |-> NoBadge]
  /\ steward = [k \in Stewards |-> NoStep]

Step ==
  \E k \in Stewards :
    \/ \E u \in Users, b \in Badges :
         GrantBadge(k, u, b) \/ CheckMilestone(k, u, b) \/ UnsetPrimary(k, u, b)
         \/ ChoosePrimary(k, u, b)
    \/ RankBadge(k) \/ DeleteBadge(k) \/ WritePrimary(k) \/ StewardError(k)

BadgesTypeOK ==
  /\ held \in [Users -> Seq([badge : Badges, by : Quests \cup {Given}])]
  /\ primary \in [Users -> Badges \cup {NoBadge}]
  /\ steward \in [Stewards -> [pc : {"idle", "rank", "delete", "choose"},
                               user : Users \cup {NoUser},
                               badge : Badges \cup {NoBadge}]]
=============================================================================
