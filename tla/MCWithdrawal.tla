----------------------------- MODULE MCWithdrawal -----------------------------
(* Small instances of Withdrawal.  The requests of one user share every       *)
(* account; the balance pays for any two of three, the daily limit for two    *)
(* only if the smallest is one of them.                                       *)
EXTENDS WithdrawalProperties

CONSTANTS r1, r2, r3, alice, usdt

OneUser == {alice}
TwoRequests == {r1, r2}
ThreeRequests == {r1, r2, r3}
OneAsset == {BNT}
TwoAssets == {BNT, usdt}
OwnerMC == [r \in Requests |-> alice]
AllBNT == [r \in Requests |-> BNT]
SecondInUsdt == [r \in Requests |-> IF r = r1 THEN BNT ELSE usdt]
AmountMC == [r \in Requests |-> 2]
UnevenMC == [r \in Requests |-> IF r = r1 THEN 2 ELSE 3]
FeeMC == [r \in Requests |-> IF r = r1 THEN 1 ELSE 0]
PriceMC == [c \in Assets |-> 1]
BalanceMC == [a \in Accounts |-> 6]
NoKeys == {}
=============================================================================
