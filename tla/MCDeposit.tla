------------------------------- MODULE MCDeposit -------------------------------
(* Small instances of DepositPipeline: one deposit and everyone who may       *)
(* credit it, or two and three, two of them in one block, with a range and    *)
(* pages smaller than what there is.                                          *)
EXTENDS DepositPipeline

CONSTANTS alice, bob, d1, d2, d3

Both == {alice, bob}
OnlyAlice == {alice}
AllAlice == [d \in Deposits |-> alice]
OneEach == [d \in Deposits |-> IF d = d2 THEN bob ELSE alice]
OneDeposit == {d1}
TwoDeposits == {d1, d2}
ThreeDeposits == {d1, d2, d3}
OnlyD2 == {d2}
NoDeposits == {}
TwoAndOne == [d \in Deposits |-> IF d = d1 THEN 2 ELSE 1]
SameBlock == [d \in Deposits |-> 1]
TwoBlocks == [d \in Deposits |-> IF d = d1 THEN 1 ELSE 2]
=============================================================================
