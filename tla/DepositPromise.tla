----------------------------- MODULE DepositPromise -----------------------------
(***************************************************************************)
(* What a deposit promises its user and the treasury, without a chain,     *)
(* scans, streams, jobs or retries: its value is added to the owner's      *)
(* balance once and stays there; only then do the coins move to the        *)
(* treasury, at most once; and it is closed when they lie there.           *)
(***************************************************************************)
EXTENDS Integers

CONSTANTS Users, Deposits, OwnerOf, Value, InTreasury

VARIABLES outcome, balance, moved

Init ==
  /\ outcome = [d \in Deposits |-> "awaited"]
  /\ balance = [u \in Users |-> 0]
  /\ moved = [d \in Deposits |-> 0]

Credit(d) ==
  /\ outcome[d] = "awaited"
  /\ outcome' = [outcome EXCEPT ![d] = "credited"]
  /\ balance' = [balance EXCEPT ![OwnerOf[d]] = @ + Value[d]]
  /\ UNCHANGED moved

Move(d) ==
  /\ outcome[d] = "credited"
  /\ moved[d] = 0 /\ d \notin InTreasury
  /\ moved' = [moved EXCEPT ![d] = 1]
  /\ UNCHANGED <<outcome, balance>>

Close(d) ==
  /\ outcome[d] = "credited"
  /\ moved[d] = 1 \/ d \in InTreasury
  /\ outcome' = [outcome EXCEPT ![d] = "swept"]
  /\ UNCHANGED <<balance, moved>>

Next == \E d \in Deposits : Credit(d) \/ Move(d) \/ Close(d)

Spec == Init /\ [][Next]_<<outcome, balance, moved>>
=============================================================================
