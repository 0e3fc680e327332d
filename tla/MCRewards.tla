------------------------------- MODULE MCRewards -------------------------------
(* Small instances of Rewards for TLC. *)
EXTENDS Rewards, TLC

CONSTANTS u1, u2, q1, q2, c1, c2, s1, s2, r1, r2, k1, k2, w1, w2, a1, a2

MCFirstBadge == (q1 :> 1) @@ (q2 :> 2)
MCFirstReward == (q1 :> 1) @@ (q2 :> 2)
MCMilestones == 1 :> 2
SenderPays == [bps |-> 500, minFee |-> 0, maxFee |-> 4, minTip |-> 1, maxTip |-> 9, senderPays |-> TRUE]
RecipientPays == [bps |-> 5000, minFee |-> 1, maxFee |-> 2, minTip |-> 1, maxTip |-> 9, senderPays |-> FALSE]
MCPolicies == {SenderPays, RecipientPays}

MCScenes == {
  {"mining", "overlap_calls"},
  {"mining", "call_error", "boosts"},
  {"mining", "quests"},
  {"quests", "review_error"},
  {"quests", "overlap_submit", "early_review", "submit_error"},
  {"quests", "edit_reward"},
  {"quests", "edit_badge"},
  {"quests", "overlap_reviews"},
  {"badges", "overlap_badges", "badge_error", "auto"}, {"badges", "auto"},
  {"badges", "overlap_badges", "quests"},
  {"tips", "mining"},
  {"tips", "tip_policy", "tip_error", "auto"},
  {"tip_switch"},
  {"tip_switch", "clashing_switches"}}

Symmetries == Permutations({c1, c2}) \cup Permutations({r1, r2})
================================================================================
