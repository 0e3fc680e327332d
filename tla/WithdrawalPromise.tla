--------------------------- MODULE WithdrawalPromise --------------------------
(***************************************************************************)
(* What a withdrawal promises its user, without ledger accounts, reviews,  *)
(* workers or retries: the amount leaves the spendable balance once; then  *)
(* either it is delivered on chain, at most once, and the request is paid, *)
(* or it was never delivered and it is given back.                         *)
(***************************************************************************)
EXTENDS Integers

CONSTANTS Requests, Accounts, AcctOf, Amount, InitialBalance

VARIABLES outcome, balance, delivered

Init ==
  /\ outcome = [r \in Requests |-> "none"]
  /\ balance = InitialBalance
  /\ delivered = [r \in Requests |-> 0]

Ask(r) ==
  /\ outcome[r] = "none"
  /\ balance[AcctOf[r]] >= Amount[r]
  /\ outcome' = [outcome EXCEPT ![r] = "held"]
  /\ balance' = [balance EXCEPT ![AcctOf[r]] = @ - Amount[r]]
  /\ UNCHANGED delivered

Deliver(r) ==
  /\ outcome[r] = "held"
  /\ delivered[r] = 0
  /\ delivered' = [delivered EXCEPT ![r] = 1]
  /\ UNCHANGED <<outcome, balance>>

Pay(r) ==
  /\ outcome[r] = "held"
  /\ delivered[r] = 1
  /\ outcome' = [outcome EXCEPT ![r] = "paid"]
  /\ UNCHANGED <<balance, delivered>>

Refund(r) ==
  /\ outcome[r] = "held"
  /\ delivered[r] = 0
  /\ outcome' = [outcome EXCEPT ![r] = "refunded"]
  /\ balance' = [balance EXCEPT ![AcctOf[r]] = @ + Amount[r]]
  /\ UNCHANGED delivered

Next == \E r \in Requests : Ask(r) \/ Deliver(r) \/ Pay(r) \/ Refund(r)

Spec == Init /\ [][Next]_<<outcome, balance, delivered>>
=============================================================================
