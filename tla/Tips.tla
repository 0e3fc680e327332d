--------------------------------- MODULE Tips ---------------------------------
(***************************************************************************)
(* Tips between users: accounts opened on first use, a fee that goes to a  *)
(* vault, the policy and the tipping currency an administrator may change. *)
(* A tip itself is one serializable transaction; the policy is read before *)
(* it.  The accounts are those of the points currency: nothing ever pays   *)
(* into an account of the token currency, so a tip in it finds no balance. *)
(***************************************************************************)
EXTENDS Integers, FiniteSetsExt

CONSTANTS
  Users, NoUser,
  Hunters,     \* the users who may receive tips
  Atomic,      \* atomic units of a point
  Policies, DefaultPolicy,  \* records bps, minFee, maxFee, minTip, maxTip, senderPays
  Amounts,     \* atomic amounts a tip is asked for
  Keys,        \* idempotency keys
  Points, Token,  \* the two tipping currencies
  Switchers    \* administrators that may switch the currency at once

VARIABLES
  scene, points,
  opened, tipBalance, funded,  \* the points accounts, and what was paid into them
  vault,     \* balance of the fee vault account
  tips,      \* TipTransaction rows
  asking,    \* a user's call: what it read before its transaction
  policy,    \* TipFeeConfig of the points currency
  active,    \* currencies with isActiveTippingCurrency
  switching  \* administrators' calls

tipRows == <<opened, tipBalance, funded, vault, tips>>

Larger(a, b) == IF a >= b THEN a ELSE b
Smaller(a, b) == IF a <= b THEN a ELSE b
CeilDiv(n, d) == (n + d - 1) \div d
Fee(amount, p) == Smaller(Larger(CeilDiv(amount * p.bps, 10000), p.minFee), p.maxFee)
Debit(amount, fee, senderPays) == IF senderPays THEN amount + fee ELSE amount
Credit(amount, fee, senderPays) == IF senderPays THEN amount ELSE amount - fee

NoAsk == [pc |-> "idle", to |-> NoUser, key |-> CHOOSE k \in Keys : TRUE,
          amount |-> 0, fee |-> 0, senderPays |-> TRUE, seen |-> 0]
Answer(u) == asking' = [asking EXCEPT ![u] = NoAsk]

\* getMyOverview and the account listing read the points and then upsert the
\* account, which is given the points as its balance if it is new.
ReadPoints(u) ==
  /\ "tips" \in scene /\ asking[u].pc = "idle"
  /\ asking' = [asking EXCEPT ![u].pc = "open", ![u].seen = points[u]]
  /\ UNCHANGED <<tipRows, policy, active, switching>>

Opening_Again(u, seen) == Atomic * seen
Opening(u, seen) == IF u \in opened THEN 0 ELSE Atomic * seen

OpenAccount(u) ==
  /\ asking[u].pc = "open"
  /\ opened' = opened \cup {u}
  /\ tipBalance' = [tipBalance EXCEPT ![u] = @ + Opening(u, asking[u].seen)]
  /\ funded' = [funded EXCEPT ![u] = @ + Opening(u, asking[u].seen)]
  /\ Answer(u)
  /\ UNCHANGED <<vault, tips, policy, active, switching>>

\* The checks of sendTip: the policy's limits, a hunter other than the sender,
\* a fee smaller than the amount if the recipient pays it.
Allowed(u, to, amount, p) ==
  /\ to \in Hunters \ {u}
  /\ amount >= p.minTip /\ amount <= p.maxTip
  /\ Credit(amount, Fee(amount, p), p.senderPays) > 0

AskTip(u, to, key, amount) ==
  /\ "tips" \in scene /\ asking[u].pc = "idle"
  /\ Points \in active /\ Allowed(u, to, amount, policy)
  /\ asking' = [asking EXCEPT ![u] =
       [pc |-> "send", to |-> to, key |-> key, amount |-> amount,
        fee |-> Fee(amount, policy), senderPays |-> policy.senderPays, seen |-> 0]]
  /\ UNCHANGED <<tipRows, policy, active, switching>>

Covers_Amount(balance, ask) == balance >= ask.amount
Covers(balance, ask) == balance >= Debit(ask.amount, ask.fee, ask.senderPays)

\* One serializable transaction: a tip of that key is returned as it is,
\* whoever sent it; otherwise both accounts are opened if need be, and the
\* tip is sent if the balance covers it.
SendTip(u) ==
  LET ask == asking[u]  to == ask.to
      debit == Debit(ask.amount, ask.fee, ask.senderPays)
      credit == Credit(ask.amount, ask.fee, ask.senderPays)
      gift == [v \in Users |-> IF v \in {u, to} THEN Opening(v, points[v]) ELSE 0]
      sendable == Covers(tipBalance[u] + gift[u], ask)
      repeated == \E t \in tips : t.key = ask.key
  IN
  /\ ask.pc = "send"
  /\ Answer(u)
  /\ IF repeated \/ ~sendable
     THEN UNCHANGED tipRows
     ELSE /\ opened' = opened \cup {u, to}
          /\ funded' = [v \in Users |-> funded[v] + gift[v]]
          /\ tipBalance' = [v \in Users |-> tipBalance[v] + gift[v]
                             - (IF v = u THEN debit ELSE 0) + (IF v = to THEN credit ELSE 0)]
          /\ vault' = vault + ask.fee
          /\ tips' = tips \cup {[key |-> ask.key, from |-> u, to |-> to,
                                 amount |-> ask.amount, fee |-> ask.fee,
                                 debit |-> debit, senderPays |-> ask.senderPays]}
  /\ UNCHANGED <<policy, active, switching>>

TipError(u) ==
  /\ "tip_error" \in scene /\ asking[u].pc # "idle"
  /\ Answer(u)
  /\ UNCHANGED <<tipRows, policy, active, switching>>

\* updateCurrencySettings
SetPolicy(p) ==
  /\ "tip_policy" \in scene
  /\ policy' = p
  /\ UNCHANGED <<tipRows, asking, active, switching>>

\* setActiveCurrency: the flags it clears are those of the rows it finds set.
NoSwitch == [pc |-> "idle", target |-> Points, found |-> {}]
SwitchScan(w, target) ==
  /\ "tip_switch" \in scene /\ switching[w].pc = "idle"
  /\ "clashing_switches" \in scene \/
       \A o \in Switchers : switching[o].pc = "idle" \/ switching[o].target = target
  /\ switching' = [switching EXCEPT ![w] =
                     [pc |-> "switch", target |-> target, found |-> active]]
  /\ UNCHANGED <<tipRows, asking, policy, active>>

Switched(target, found) == (active \ found) \cup {target}

SwitchCommit(w) ==
  /\ switching[w].pc = "switch"
  /\ active' = Switched(switching[w].target, switching[w].found)
  /\ switching' = [switching EXCEPT ![w] = NoSwitch]
  /\ UNCHANGED <<tipRows, asking, policy>>

-------------------------------------------------------------------------------
\* bootstrapDefaults has run: every request waits for it.
Init ==
  /\ vault = 0 /\ tips = {}
  /\ asking = [u \in Users |-> NoAsk]
  /\ policy = DefaultPolicy
  /\ active = {Points}
  /\ switching = [w \in Switchers |-> NoSwitch]

Step ==
  \/ \E u \in Users :
       \/ ReadPoints(u) \/ OpenAccount(u) \/ SendTip(u) \/ TipError(u)
       \/ \E to \in Users, key \in Keys, amount \in Amounts : AskTip(u, to, key, amount)
  \/ \E p \in Policies : SetPolicy(p)
  \/ \E w \in Switchers :
       SwitchCommit(w) \/ \E target \in {Points, Token} : SwitchScan(w, target)

Tip == [key : Keys, from : Users, to : Users, amount : Nat, fee : Nat,
        debit : Nat, senderPays : BOOLEAN]

TipsTypeOK ==
  /\ opened \subseteq Users
  /\ tipBalance \in [Users -> Nat] /\ funded \in [Users -> Nat] /\ vault \in Nat
  /\ tips \subseteq Tip
  /\ asking \in [Users -> [pc : {"idle", "open", "send"}, to : Users \cup {NoUser},
       key : Keys, amount : Nat, fee : Nat, senderPays : BOOLEAN, seen : Nat]]
  /\ policy \in Policies
  /\ active \subseteq {Points, Token}
  /\ switching \in [Switchers -> [pc : {"idle", "switch"}, target : {Points, Token},
                                  found : SUBSET {Points, Token}]]
=============================================================================
