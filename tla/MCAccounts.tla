------------------------------- MODULE MCAccounts ------------------------------
(* Small instances of Accounts for TLC. *)
EXTENDS Accounts, TLC

CONSTANTS u1, u2, u3, c1, c2, n1, k1, k2

MCFirstRoles == (u1 :> {"owner", "user"}) @@ (u2 :> {"admin", "user"}) @@ (u3 :> {"hunter", "user"})
MCFirstBalance == (u1 :> 3) @@ (u2 :> 1) @@ (u3 :> 0)
MCLimits == ("basic" :> 2) @@ ("gold" :> 3)
MCTarget == (u1 :> 3) @@ (u2 :> 1) @@ (u3 :> 1)
MCZone == (u1 :> 0) @@ (u2 :> 2) @@ (u3 :> 1)

MCScenes == {
  {"roles", "removal"},
  {"applications", "role_error"},
  {"roles", "self_deactivate"},
  {"roles", "removal", "promote_inactive"},
  {"removal", "self_deactivate"},
  {"removal", "overlap_roles"},
  {"applications", "overlap_roles"},
  {"factors"},
  {"factors", "overlap_factors"},
  {"factors", "removal"},
  {"proposals", "removal"},
  {"proposals", "invites"},
  {"proposals", "decision_error"},
  {"proposals", "overlap_decisions"},
  {"wallets", "platform"},
  {"wallets", "platform", "custody_error", "late_provision", "feature_switched", "overlap_platform"},
  {"wallets", "transfers"},
  {"transfers", "kyc"},
  {"transfers", "overlap_transfers"},
  {"referrals"}, {"referrals", "removal"},
  {"referrals", "overlap_binds"},
  {"digest", "no_content"},
  {"digest", "mark_error", "restart"},
  {"console", "overlap_calls"},
  {"console", "overlap_calls", "split", "late_answer"},
  {"console", "overlap_sign", "sign_out"},
  {"console", "sign_out", "codes", "wrong_code"},
  {"console", "backend_401", "backend_error", "lost_answer", "refresh_error"}}

Symmetries == Permutations({c1, c2})
================================================================================
