-------------------------- MODULE WithdrawalRefinement --------------------------
(***************************************************************************)
(* The withdrawal path implements WithdrawalPromise: in the disturbances   *)
(* the code is written for, overlapping creation calls, restarts and, for  *)
(* real transfers, calls that fail before they had an effect, every step   *)
(* asks, delivers, pays or refunds one request, or changes none of it.     *)
(***************************************************************************)
EXTENDS WithdrawalBooks

\* The environment the code withstands: none of the other hazards, failing calls
\* only where transfers are real, since a simulated one whose settlement throws is
\* still in the pass that reverts, and requests in the asset whose accounts a
\* rejection moves.
Mild ==
  /\ Hazards \subseteq {"race_submit", "crash", "io_error"}
  /\ "io_error" \in Hazards => "mock" \notin Modes
  /\ \A r \in Requests : AssetOf[r] = BNT

\* No transfer of a request is or can become a payment.
Dead(r) == \A i \in 1..Len(txs[r]) : txs[r][i] = "failed"

\* Real transfers are settled in the pass over broadcast requests alone.
SettledLater ==
  worker.pc = "receipt" \/ (worker.pc = "finalize" /\ mode # "mock") =>
    worker.phase = "broadcasting"

RefundInv ==
  /\ SettledLater
  /\ \A u \in Users : enabled[u]
  /\ \A r \in Requests : status[r] = "reverted" => Dead(r)
  /\ worker.pc = "revert" => Dead(worker.cur)

-------------------------------------------------------------------------------
(* A refund is only begun when nothing was sent.                             *)

\* An open request is covered by the hold and locked accounts.
LEMMA OpenIsCovered ==
  ASSUME IsFiniteSet(Filings), HoldsCoverOpenRequests, LockedIsHeld,
         NEW r \in Requests, status[r] \in Open
  PROVE  Covered(r)
<1> DEFINE a == Acct(r)  T == OpenNow \ {r}  P == {q \in T : Acct(q) = a}
<1>1. a \in Accounts /\ \A q \in Requests : Amount[q] \in Nat
  BY PayloadType, PayloadAssumption
<1>2. /\ T \in SUBSET Requests /\ IsFiniteSet(T) /\ r \notin T /\ OpenNow = T \cup {r}
      /\ P \subseteq T
  <2>1. OpenNow \subseteq Filings /\ T \subseteq Filings
    BY DEF OpenNow, Filings, Open
  <2> QED BY <2>1, FS_Subset DEF OpenNow
<1>3. HeldAmong(T, a) \in Nat
  <2>1. IsFiniteSet(P) /\ \A q \in P : Amount[q] \in Nat
    BY <1>1, <1>2, FS_Subset
  <2> HIDE DEF P
  <2>2. Total(Amount, P) \in Nat
    BY <2>1, TotalOfPart
  <2> QED BY <2>2 DEF HeldAmong, P
<1>4. HeldAmong(OpenNow, a) = HeldAmong(T, a) + Amount[r]
  <2> HIDE DEF T
  <2>1. \A U : U = T \cup {r} =>
          HeldAmong(U, a) = HeldAmong(T, a) + (IF Acct(r) = a THEN Amount[r] ELSE 0)
    BY <1>2, OneMoreHeld
  <2> QED BY <1>2, <2>1
<1>5. HeldFor(a) = HeldAmong(OpenNow, a)
  <2>1. {q \in Requests : Acct(q) = a /\ status[q] \in Open} = {q \in OpenNow : Acct(q) = a}
    BY DEF OpenNow
  <2> QED BY Zenon, <2>1 DEF HeldFor, HeldAmong
<1>6. hold[a] = HeldFor(a) /\ locked[a] = hold[a]
  BY <1>1 DEF HoldsCoverOpenRequests, LockedIsHeld
<1> HIDE DEF a, T, P
<1>7. hold[a] >= Amount[r] /\ locked[a] >= Amount[r]
  BY <1>1, <1>3, <1>4, <1>5, <1>6
<1> QED BY <1>7 DEF Covered, a

\* A transfer is added by the worker that sends, or decided by the chain.
LEMMA TransfersMove ==
  ASSUME [Next]_vars
  PROVE  \/ UNCHANGED txs
         \/ Transfer \/ TransferLateError
         \/ \E r \in Requests, o \in {"success", "failed"} : Mine(r, o)
<1>1. ASSUME NEW r \in Requests, Submit(r) PROVE UNCHANGED txs
  BY <1>1 DEF Submit, SubmitCheck, SubmitHold, SubmitNothing
<1>2. ASSUME NEW v \in Reviewers, Decide(v) PROVE UNCHANGED txs
  BY <1>2 DEF Decide, Approve, RejectRead, RejectCommit, RejectRefused
<1>3. CASE WorkerStep
  <2>1. ASSUME NEW r \in Requests, Claim(r) \/ ClaimLost(r) \/ CheckBroadcast(r)
        PROVE  UNCHANGED txs
    BY <2>1 DEF Claim, ClaimLost, CheckBroadcast
  <2>2. CASE \/ ListBroadcasting \/ EndTick \/ Prepare \/ TransferRefused
             \/ NoReceipt \/ Receipt
             \/ RecordHash \/ (\E stored \in BOOLEAN : RecordError(stored))
             \/ Finalize \/ FinalizeStale \/ FinalizeError
             \/ Revert \/ RevertStale \/ AbortTick
    BY <2>2 DEF ListBroadcasting, EndTick, Prepare, TransferRefused, NoReceipt, Receipt,
                RecordHash, RecordError, Finalize, FinalizeStale, FinalizeError, Revert,
                RevertStale, AbortTick
  <2> QED BY <1>3, <2>1, <2>2 DEF WorkerStep
<1>4. ASSUME NEW v \in Reviewers, NEW r \in Requests, NEW d \in {"approve", "reject"},
             ReviewRead(v, r, d)
      PROVE  UNCHANGED txs
  BY <1>4 DEF ReviewRead
<1>5. CASE ListApproved \/ Crash \/ (\E u \in Users : SetWallet(u)) \/ UNCHANGED vars
  BY <1>5 DEF ListApproved, Crash, SetWallet, vars
<1> QED BY <1>1, <1>2, <1>3, <1>4, <1>5 DEF Next

\* What a step makes of the transfers of one request.
LEMMA TransfersOf ==
  ASSUME TypeOK, SettlementInv, [Next]_vars, NEW r \in Requests
  PROVE  \/ txs'[r] = txs[r]
         \/ /\ UNCHANGED <<status, ledger>>
            /\ \A q \in Requests \ {r} : txs'[q] = txs[q]
            /\ \/ /\ txs[r] = <<>> /\ status[r] = "broadcasting" /\ worker.pc = "send"
                  /\ worker.cur = r
                  /\ txs'[r] = <<"simulated">> \/ txs'[r] = <<"pending">>
               \/ /\ Len(txs[r]) = 1 /\ txs[r][1] = "pending" /\ Len(txs'[r]) = 1
                  /\ txs'[r][1] \in {"success", "failed"} /\ UNCHANGED worker
<1> SUFFICES ASSUME txs'[r] # txs[r]
             PROVE  /\ UNCHANGED <<status, ledger>>
                    /\ \A q \in Requests \ {r} : txs'[q] = txs[q]
                    /\ \/ /\ txs[r] = <<>> /\ status[r] = "broadcasting" /\ worker.pc = "send"
                          /\ worker.cur = r
                          /\ txs'[r] = <<"simulated">> \/ txs'[r] = <<"pending">>
                       \/ /\ Len(txs[r]) = 1 /\ txs[r][1] = "pending" /\ Len(txs'[r]) = 1
                          /\ txs'[r][1] \in {"success", "failed"} /\ UNCHANGED worker
  OBVIOUS
<1>1. CASE Transfer \/ TransferLateError
  <2>1. /\ UNCHANGED <<status, ledger>> /\ Here("send") /\ SendTx(worker.cur)
    BY <1>1 DEF Transfer, TransferLateError, requestVars
  <2>2. worker.cur \in Requests /\ txs \in [Requests -> Seq(TxStates)]
    BY <2>1, WorkerMoves DEF Here, TypeOK
  <2>3. worker.cur = r /\ \A q \in Requests \ {r} : txs'[q] = txs[q]
    BY <2>1, <2>2 DEF SendTx
  <2>4. txs[r] = <<>> /\ status[r] = "broadcasting" /\ worker.pc = "send"
    BY <2>1, <2>3 DEF Here, SettlementInv, InHand
  <2>5. txs'[r] = Append(<<>>, IF mode = "mock" THEN "simulated" ELSE "pending")
    BY <2>1, <2>2, <2>3, <2>4 DEF SendTx
  <2>6. txs'[r] = <<"simulated">> \/ txs'[r] = <<"pending">>
    BY <2>5
  <2> QED BY <2>1, <2>3, <2>4, <2>6
<1>2. ASSUME NEW p \in Requests, NEW o \in {"success", "failed"}, Mine(p, o)
      PROVE  /\ UNCHANGED <<status, ledger>> /\ UNCHANGED worker
             /\ \A q \in Requests \ {r} : txs'[q] = txs[q]
             /\ Len(txs[r]) = 1 /\ txs[r][1] = "pending" /\ Len(txs'[r]) = 1
             /\ txs'[r][1] \in {"success", "failed"}
  <2>1. PICK i \in 1..Len(txs[p]) :
          /\ txs[p][i] = "pending" /\ txs' = [txs EXCEPT ![p][i] = o]
          /\ UNCHANGED <<status, ledger>> /\ UNCHANGED worker
    BY <1>2 DEF Mine, requestVars
  <2>2. p = r /\ \A q \in Requests \ {r} : txs'[q] = txs[q]
    BY <2>1 DEF TypeOK
  <2>3. txs[r] \in Seq(TxStates) /\ Len(txs[r]) <= 1
    BY DEF TypeOK, SettlementInv, SentOnce
  <2>4. Len(txs[r]) \in Nat /\ i = 1 /\ Len(txs[r]) = 1
    <3>1. Len(txs[r]) \in Nat
      BY <2>3
    <3>2. i \in 1..Len(txs[r])
      BY <2>1, <2>2
    <3>3. \A n \in Nat : i \in 1..n /\ n <= 1 => i = 1 /\ n = 1
      OBVIOUS
    <3> QED BY <2>3, <3>1, <3>2, <3>3
  <2>5. txs'[r] = [txs[r] EXCEPT ![1] = o]
    BY <2>1, <2>2, <2>4 DEF TypeOK
  <2>6. Len(txs'[r]) = 1 /\ txs'[r][1] = o
    BY <2>3, <2>4, <2>5
  <2> QED BY <2>1, <2>2, <2>4, <2>6
<1> QED BY <1>1, <1>2, TransfersMove

\* What the invariant below says of a step that leaves a request's transfers dead.
LEMMA DeadStays ==
  ASSUME TypeOK, SettlementInv, [Next]_vars, NEW r \in Requests, Dead(r),
         status[r] # "broadcasting" \/ worker.pc # "send" \/ worker.cur # r
  PROVE  Dead(r)'
<1>1. CASE txs'[r] = txs[r]
  BY <1>1 DEF Dead
<1>2. CASE Len(txs[r]) = 1 /\ txs[r][1] = "pending"
  BY <1>2 DEF Dead
<1> QED BY <1>1, <1>2, TransfersOf

\* The worker turns to a refund only of a request none of whose transfers lives.
LEMMA RefundsBegin ==
  ASSUME Mild, TypeOK, SettlementInv, IsFiniteSet(Filings), HoldsCoverOpenRequests,
         LockedIsHeld, RefundInv, WorkerStep, worker'.pc = "revert"
  PROVE  worker'.cur \in Requests /\ Dead(worker'.cur) /\ UNCHANGED txs
<1>1. worker.pc # "next" => worker.cur \in Requests
  BY WorkerMoves DEF TypeOK
<1>2. \A r : txs[r] = <<>> => Dead(r)
  BY DEF Dead
<1>3. CASE Prepare \/ TransferRefused
  <2>1. Goto("revert") /\ UNCHANGED txs /\ worker.pc \in {"claimed", "send"}
    BY <1>3 DEF Prepare, TransferRefused, Here, Goto, TypeOK, WorkerStates
  <2>2. worker'.cur = worker.cur /\ txs[worker.cur] = <<>>
    BY <2>1, WorkerFields DEF SettlementInv, InHand, TypeOK
  <2> QED BY <1>1, <1>2, <2>1, <2>2
<1>4. CASE Receipt
  <2>1. /\ UNCHANGED txs /\ worker.pc = "receipt" /\ Mined(worker.cur)
        /\ ~Succeeded(worker.cur) /\ worker'.cur = worker.cur
    BY <1>4, WorkerFields DEF Receipt, Here, TypeOK
  <2>2. hash[worker.cur] = 1 /\ Len(txs[worker.cur]) = 1
    BY <2>1 DEF SettlementInv, InHand
  <2>3. txs[worker.cur][1] = "failed"
    BY <2>1, <2>2 DEF Mined, Succeeded, TxState
  <2> QED BY <1>1, <2>1, <2>2, <2>3 DEF Dead
<1>5. ~FinalizeError
  <2> SUFFICES ASSUME FinalizeError PROVE FALSE
    OBVIOUS
  <2>1. worker.pc = "finalize" /\ worker.phase = "approved"
    BY WorkerFields DEF FinalizeError, Here, Asleep, TypeOK
  <2>2. mode = "mock" /\ "io_error" \notin Hazards
    BY <2>1 DEF RefundInv, SettledLater, Mild, TypeOK
  <2>3. status[worker.cur] = "broadcasting" /\ ~Covered(worker.cur)
    BY <2>2 DEF FinalizeError
  <2> QED BY <1>1, <2>1, <2>3, OpenIsCovered DEF Open
<1>6. ASSUME NEW r \in Requests, CheckBroadcast(r) PROVE FALSE
  <2>1. enabled[Owner[r]]
    BY PayloadAssumption DEF RefundInv
  <2> QED BY <1>6, <2>1, WorkerFields DEF CheckBroadcast, At, TypeOK
<1>7. ~TransferLateError /\ \A stored \in BOOLEAN : ~RecordError(stored)
  BY DEF TransferLateError, RecordError, Mild
<1>8. ~(ListBroadcasting \/ EndTick \/ AbortTick)
  BY DEF ListBroadcasting, EndTick, AbortTick, Listing, Asleep
<1>9. ASSUME NEW r \in Requests PROVE ~(Claim(r) \/ ClaimLost(r))
  BY WorkerFields DEF Claim, ClaimLost, At, TypeOK
<1>10. ~(Transfer \/ RecordHash \/ NoReceipt \/ Finalize \/ FinalizeStale \/ Revert \/ RevertStale)
  BY WorkerFields DEF Transfer, RecordHash, NoReceipt, Finalize, FinalizeStale, Revert,
                      RevertStale, TypeOK
<1> QED BY <1>3, <1>4, <1>5, <1>6, <1>7, <1>8, <1>9, <1>10 DEF WorkerStep

\* No administrator disables a wallet, and the mode is set at start.
LEMMA SwitchesKept ==
  ASSUME Mild, [Next]_vars
  PROVE  UNCHANGED settings
<1> USE DEF settings
<1>1. ASSUME NEW r \in Requests, Submit(r) PROVE UNCHANGED settings
  BY <1>1 DEF Submit, SubmitCheck, SubmitHold, SubmitNothing
<1>2. ASSUME NEW v \in Reviewers, Decide(v) PROVE UNCHANGED settings
  BY <1>2 DEF Decide, Approve, RejectRead, RejectCommit, RejectRefused
<1>3. CASE WorkerStep
  <2>1. ASSUME NEW r \in Requests, Claim(r) \/ ClaimLost(r) \/ CheckBroadcast(r)
        PROVE  UNCHANGED settings
    BY <2>1 DEF Claim, ClaimLost, CheckBroadcast
  <2>2. CASE \/ ListBroadcasting \/ EndTick \/ Prepare \/ Transfer
             \/ TransferRefused \/ TransferLateError \/ NoReceipt \/ Receipt
             \/ RecordHash \/ (\E stored \in BOOLEAN : RecordError(stored))
             \/ Finalize \/ FinalizeStale \/ FinalizeError
             \/ Revert \/ RevertStale \/ AbortTick
    BY <2>2 DEF ListBroadcasting, EndTick, Prepare, Transfer, TransferRefused,
                TransferLateError, NoReceipt, Receipt, RecordHash, RecordError,
                Finalize, FinalizeStale, FinalizeError, Revert, RevertStale, AbortTick
  <2> QED BY <1>3, <2>1, <2>2 DEF WorkerStep
<1>4. ASSUME NEW v \in Reviewers, NEW r \in Requests, NEW d \in {"approve", "reject"},
             ReviewRead(v, r, d)
      PROVE  UNCHANGED settings
  BY <1>4 DEF ReviewRead
<1>5. ASSUME NEW r \in Requests, NEW o \in {"success", "failed"}, Mine(r, o)
      PROVE  UNCHANGED settings
  BY <1>5 DEF Mine
<1>6. CASE ListApproved \/ Crash \/ (\E u \in Users : SetWallet(u)) \/ UNCHANGED vars
  BY <1>6 DEF ListApproved, Crash, SetWallet, vars, Mild
<1> QED BY <1>1, <1>2, <1>3, <1>4, <1>5, <1>6 DEF Next

\* The pass in which a request is settled.
LEMMA SettledLaterStep ==
  ASSUME TypeOK, SettledLater, [Next]_vars, UNCHANGED mode
  PROVE  SettledLater'
<1> USE DEF SettledLater
<1>1. CASE UNCHANGED worker
  BY <1>1
<1>2. CASE ListApproved \/ Crash
  BY <1>2 DEF ListApproved, Crash, Listing, Asleep
<1>3. CASE WorkerStep
  <2> USE DEF TypeOK, WorkerStates
  <2>1. CASE ListBroadcasting \/ EndTick \/ NoReceipt \/ Finalize \/ FinalizeStale
             \/ Revert \/ RevertStale \/ AbortTick
    <3>1. CASE ListBroadcasting
      BY <3>1 DEF ListBroadcasting, Listing
    <3>2. CASE EndTick \/ AbortTick
      BY <3>2 DEF EndTick, AbortTick, Asleep
    <3>3. CASE NoReceipt \/ Finalize \/ FinalizeStale \/ Revert \/ RevertStale
      <4>1. NextInList
        BY <3>3 DEF NoReceipt, Finalize, FinalizeStale, Revert, RevertStale
      <4> QED BY <4>1 DEF NextInList
    <3> QED BY <2>1, <3>1, <3>2, <3>3
  <2>2. ASSUME NEW r \in Requests, Claim(r) \/ ClaimLost(r) \/ CheckBroadcast(r)
        PROVE  SettledLater'
    BY <2>2 DEF Claim, ClaimLost, CheckBroadcast, At, Take, Skip
  <2>3. CASE Prepare \/ Transfer \/ TransferRefused \/ TransferLateError
             \/ \E stored \in BOOLEAN : RecordError(stored)
    BY <2>3 DEF Prepare, Transfer, TransferRefused, TransferLateError, RecordError, Goto
  <2>4. CASE RecordHash
    BY <2>4 DEF RecordHash, Goto, NextInList
  <2>5. CASE Receipt
    BY <2>5 DEF Receipt, Here, Goto
  <2>6. CASE FinalizeError
    BY <2>6 DEF FinalizeError, Here, Goto, Asleep
  <2> QED BY <1>3, <2>1, <2>2, <2>3, <2>4, <2>5, <2>6 DEF WorkerStep
<1> QED BY <1>1, <1>2, <1>3, WorkersKept

LEMMA RefundInvCorrect ==
  ASSUME Mild
  PROVE  Spec => []RefundInv
<1>1. Init => RefundInv
  BY DEF Init, RefundInv, SettledLater, Asleep
<1>2. ASSUME TypeOK, SettlementInv, IsFiniteSet(Filings),
             HoldsCoverOpenRequests, LockedIsHeld, RefundInv, [Next]_vars
      PROVE  RefundInv'
  <2>1. UNCHANGED enabled /\ SettledLater'
    <3>1. UNCHANGED <<enabled, mode>>
      BY <1>2, SwitchesKept DEF settings
    <3> QED BY <1>2, <3>1, SettledLaterStep DEF RefundInv
  <2>2. ASSUME NEW r \in Requests, status'[r] = "reverted" PROVE Dead(r)'
    <3>1. CASE status[r] = "reverted"
      BY <1>2, <3>1, DeadStays DEF RefundInv
    <3>2. CASE status[r] # "reverted"
      <4>1. Revert /\ worker.cur = r
        BY <1>2, <2>2, <3>2, StatusMoves
        DEF SubmitHold, RejectCommit, Finalize, Revert, Open, TypeOK
      <4>2. Dead(r) /\ UNCHANGED txs
        BY <1>2, <4>1 DEF Revert, Here, RefundInv
      <4> QED BY <4>2 DEF Dead
    <3> QED BY <3>1, <3>2
  <2>3. ASSUME worker'.pc = "revert" PROVE \A i \in 1..Len(txs'[worker'.cur]) : txs'[worker'.cur][i] = "failed"
    <3>1. CASE UNCHANGED worker
      <4>1. worker.cur \in Requests /\ Dead(worker.cur) /\ worker.pc # "send"
        BY <1>2, <2>3, <3>1, WorkerMoves DEF RefundInv, TypeOK
      <4>2. PICK r \in Requests : r = worker.cur
        BY <4>1
      <4>3. Dead(r) /\ worker.pc # "send"
        BY <4>1, <4>2
      <4>4. Dead(r)'
        BY <1>2, <4>3, DeadStays
      <4> QED BY <3>1, <4>2, <4>4 DEF Dead
    <3>2. CASE WorkerStep
      BY <1>2, <2>3, <3>2, RefundsBegin DEF Dead
    <3>3. CASE ListApproved \/ Crash
      BY <2>3, <3>3 DEF ListApproved, Crash, Listing, Asleep
    <3> QED BY <1>2, <3>1, <3>2, <3>3, WorkersKept
  <2> QED BY <1>2, <2>1, <2>2, <2>3 DEF RefundInv, Dead
<1>3. "race_review" \notin Hazards /\ "race_reject" \notin Hazards
  BY DEF Mild
<1> QED BY <1>1, <1>2, <1>3, FilingsFinite, HoldsCoverOpenRequestsCorrect,
           LockedIsHeldCorrect, SettlementCorrect, PTL DEF Spec, Mild

\* Money that was given back was not paid out and cannot be any more: a rejected
\* request was never sent, and a reverted one has failed transfers only.  It is
\* what the run of a late error refutes for the environment `Mild` leaves out.
THEOREM RefundedUnpaidCorrect ==
  ASSUME Mild
  PROVE  Spec => []RefundedUnpaid
<1>1. SettlementInv /\ RefundInv => RefundedUnpaid
  <2> SUFFICES ASSUME SettlementInv, RefundInv, NEW r \in Requests,
                      status[r] \in {"rejected", "reverted"}, NEW i \in 1..Len(txs[r])
               PROVE  txs[r][i] \notin {"success", "pending"}
    BY DEF RefundedUnpaid, Transfers
  <2>1. CASE status[r] = "rejected"
    <3>1. txs[r] = <<>>
      BY <2>1 DEF SettlementInv, SentOnce
    <3> QED BY <3>1
  <2>2. CASE status[r] = "reverted"
    BY <2>2 DEF RefundInv, Dead
  <2> QED BY <2>1, <2>2
<1>2. "race_review" \notin Hazards
  BY DEF Mild
<1> QED BY <1>1, <1>2, RefundInvCorrect, SettlementCorrect, PTL

-------------------------------------------------------------------------------
(* The promise, step by step.                                                *)

Delivered(r) == Cardinality(Transfers(r, {"success", "simulated"}))

\* With one transfer at most, what was delivered is whether it was paid.
LEMMA DeliveredIsPaid ==
  ASSUME TypeOK, SettlementInv, NEW r \in Requests
  PROVE  Delivered(r) = IF Paid(r) THEN 1 ELSE 0
<1>1. Len(txs[r]) \in Nat /\ Len(txs[r]) <= 1
  BY DEF TypeOK, SettlementInv, SentOnce
<1>2. Transfers(r, {"success", "simulated"}) = IF Paid(r) THEN {1} ELSE {}
  <2>1. \A n \in Nat : n <= 1 => 1..n = IF n = 1 THEN {1} ELSE {}
    OBVIOUS
  <2>2. 1..Len(txs[r]) = IF Len(txs[r]) = 1 THEN {1} ELSE {}
    BY <1>1, <2>1
  <2> QED BY <2>2 DEF Transfers, Paid
<1>3. Cardinality({1}) = 1 /\ Cardinality({}) = 0
  BY FS_Singleton, FS_EmptySet
<1>4. CASE Paid(r)
  <2>1. Transfers(r, {"success", "simulated"}) = {1}
    BY <1>2, <1>4
  <2>2. Delivered(r) = 1
    BY Zenon, <1>3, <2>1 DEF Delivered
  <2> QED BY <1>4, <2>2
<1>5. CASE ~Paid(r)
  <2>1. Transfers(r, {"success", "simulated"}) = {}
    BY <1>2, <1>5
  <2>2. Delivered(r) = 0
    BY Zenon, <1>3, <2>1 DEF Delivered
  <2> QED BY <1>5, <2>2
<1> QED BY <1>4, <1>5

DeliveredOnce == \A r \in Requests : Delivered(r) = IF Paid(r) THEN 1 ELSE 0
outcomes == [r \in Requests |-> OutcomeOf(r)]
deliveries == [r \in Requests |-> Delivered(r)]

\* A step of one request is a step of the promise.
LEMMA PromiseSteps ==
  ASSUME NEW r \in Requests
  PROVE  /\ /\ outcomes[r] = "none" /\ available[Acct(r)] >= Amount[r]
            /\ outcomes' = [outcomes EXCEPT ![r] = "held"]
            /\ available' = [available EXCEPT ![Acct(r)] = @ - Amount[r]]
            /\ UNCHANGED deliveries
            => Promise!Next
         /\ /\ outcomes[r] = "held" /\ deliveries[r] = 0
            /\ deliveries' = [deliveries EXCEPT ![r] = 1]
            /\ UNCHANGED <<outcomes, available>>
            => Promise!Next
         /\ /\ outcomes[r] = "held" /\ deliveries[r] = 1
            /\ outcomes' = [outcomes EXCEPT ![r] = "paid"]
            /\ UNCHANGED <<available, deliveries>>
            => Promise!Next
         /\ /\ outcomes[r] = "held" /\ deliveries[r] = 0
            /\ outcomes' = [outcomes EXCEPT ![r] = "refunded"]
            /\ available' = [available EXCEPT ![Acct(r)] = @ + Amount[r]]
            /\ UNCHANGED deliveries
            => Promise!Next
<1>1. [q \in Requests |-> Acct(q)][r] = Acct(r)
  OBVIOUS
<1> QED BY <1>1 DEF Promise!Next, Promise!Ask, Promise!Deliver, Promise!Pay, Promise!Refund,
                    outcomes, deliveries, Delivered

\* The outcomes after a step that changes the status of one request.
LEMMA OutcomesMove ==
  ASSUME TypeOK, NEW r \in Requests, NEW s \in Statuses,
         status' = [status EXCEPT ![r] = s]
  PROVE  /\ s \in Open => outcomes' = [outcomes EXCEPT ![r] = "held"]
         /\ s = "confirmed" => outcomes' = [outcomes EXCEPT ![r] = "paid"]
         /\ s \in {"rejected", "reverted"} => outcomes' = [outcomes EXCEPT ![r] = "refunded"]
<1>1. \A q \in Requests : status'[q] = IF q = r THEN s ELSE status[q]
  BY DEF TypeOK
<1>2. \A q \in Requests : q # r => OutcomeOf(q)' = OutcomeOf(q)
  BY <1>1 DEF OutcomeOf
<1>3. status'[r] = s
  BY <1>1
<1>4. /\ s \in Open => OutcomeOf(r)' = "held"
      /\ s = "confirmed" => OutcomeOf(r)' = "paid"
      /\ s \in {"rejected", "reverted"} => OutcomeOf(r)' = "refunded"
  BY <1>3 DEF OutcomeOf, Open
<1>5. outcomes' = [q \in Requests |-> IF q = r THEN OutcomeOf(r)' ELSE outcomes[q]]
  BY <1>2 DEF outcomes
<1> QED BY <1>4, <1>5 DEF outcomes

\* The withdrawal path keeps its promise: the amount leaves the spendable balance
\* once, and either is delivered at most once and the request paid, or was never
\* delivered and is given back.
THEOREM KeepsPromiseCorrect ==
  ASSUME Mild
  PROVE  Spec => KeepsPromise
<1>1. Init => Promise!Init
  <2> SUFFICES ASSUME Init PROVE Promise!Init
    OBVIOUS
  <2>1. \A r \in Requests : Transfers(r, {"success", "simulated"}) = {}
    BY DEF Init, Transfers
  <2>2. \A r \in Requests : Cardinality(Transfers(r, {"success", "simulated"})) = 0
    BY Zenon, <2>1, FS_EmptySet
  <2>3. \A r \in Requests : OutcomeOf(r) = "none"
    BY DEF Init, OutcomeOf, Open
  <2> QED BY <2>2, <2>3 DEF Init, Promise!Init
<1>2. ASSUME TypeOK, TypeOK', SettlementInv, DeliveredOnce, DeliveredOnce', ReadsHold, RefundInv,
             [Next]_vars
      PROVE  Promise!Next \/ UNCHANGED <<outcomes, available, deliveries>>
  <2>1. \A r \in Requests :
          /\ deliveries[r] = IF Paid(r) THEN 1 ELSE 0
          /\ deliveries'[r] = IF Paid(r)' THEN 1 ELSE 0
    BY <1>2 DEF deliveries, DeliveredOnce
  <2>2. UNCHANGED txs => UNCHANGED deliveries
    BY DEF deliveries, Delivered, Transfers
  <2>3. \A r \in Requests : status[r] \in Open => outcomes[r] = "held"
    BY DEF outcomes, OutcomeOf, Open
  <2>4. CASE UNCHANGED <<status, ledger>>
    <3>1. UNCHANGED <<outcomes, available>>
      BY <2>4 DEF outcomes, OutcomeOf, ledger
    <3>2. CASE UNCHANGED txs
      BY <2>2, <3>1, <3>2
    <3>3. CASE \E r \in Requests : txs'[r] # txs[r]
      <4> PICK r \in Requests : txs'[r] # txs[r]
        BY <3>3
      <4>1. /\ \A q \in Requests \ {r} : txs'[q] = txs[q]
            /\ \/ /\ txs[r] = <<>> /\ status[r] = "broadcasting"
                  /\ txs'[r] = <<"simulated">> \/ txs'[r] = <<"pending">>
               \/ /\ Len(txs[r]) = 1 /\ txs[r][1] = "pending" /\ Len(txs'[r]) = 1
                  /\ txs'[r][1] \in {"success", "failed"}
        BY <1>2, TransfersOf
      <4>2. status[r] = "broadcasting" /\ ~Paid(r)
        <5>1. status[r] \in {"broadcasting", "confirmed", "reverted"}
          BY <1>2, <4>1 DEF SettlementInv, SentOnce
        <5>2. ~Paid(r)
          BY <4>1 DEF Paid
        <5>3. status[r] # "confirmed"
          BY <1>2, <5>2 DEF SettlementInv, SentOnce
        <5>4. status[r] # "reverted"
          BY <1>2, <4>1 DEF RefundInv, Dead
        <5> QED BY <5>1, <5>2, <5>3, <5>4
      <4>3. \A q \in Requests \ {r} : deliveries'[q] = deliveries[q]
        BY <4>1 DEF deliveries, Delivered, Transfers
      <4>4. outcomes[r] = "held" /\ deliveries[r] = 0
        BY <2>1, <2>3, <4>2 DEF Open
      <4>5. CASE Paid(r)'
        <5>1. deliveries' = [deliveries EXCEPT ![r] = 1]
          BY <2>1, <4>3, <4>5 DEF deliveries
        <5> QED BY <3>1, <4>4, <5>1, PromiseSteps
      <4>6. CASE ~Paid(r)'
        <5>1. UNCHANGED deliveries
          BY <2>1, <4>2, <4>3, <4>6 DEF deliveries
        <5> QED BY <3>1, <5>1
      <4> QED BY <4>5, <4>6
    <3> QED BY <1>2, <3>2, <3>3 DEF TypeOK
  <2>5. ASSUME NEW r \in Requests, NEW s \in Open, status[r] \in Open,
               status' = [status EXCEPT ![r] = s], UNCHANGED <<ledger, txs>>
        PROVE  UNCHANGED <<outcomes, available, deliveries>>
    <3>1. outcomes' = [outcomes EXCEPT ![r] = "held"]
      BY <1>2, <2>5, OutcomesMove DEF Open, Statuses
    <3>2. outcomes' = outcomes
      BY <2>3, <2>5, <3>1 DEF outcomes
    <3> QED BY <2>2, <2>5, <3>2 DEF ledger
  <2>6. ASSUME NEW r \in Requests, SubmitHold(r) PROVE Promise!Next
    <3>1. /\ status[r] = "none" /\ available[Acct(r)] >= Amount[r]
          /\ available' = [available EXCEPT ![Acct(r)] = @ - Amount[r]]
          /\ UNCHANGED txs /\ status' = [status EXCEPT ![r] = "pending_review"]
      BY <2>6 DEF SubmitHold, IsNew, Affordable
    <3>2. outcomes' = [outcomes EXCEPT ![r] = "held"]
      BY <1>2, <3>1, OutcomesMove DEF Open, Statuses
    <3>3. outcomes[r] = "none"
      BY <3>1 DEF outcomes, OutcomeOf, Open
    <3> QED BY <2>2, <3>1, <3>2, <3>3, PromiseSteps
  <2>7. ASSUME NEW r \in Requests, NEW s \in {"rejected", "reverted"}, status[r] \in Open,
               ~Paid(r), status' = [status EXCEPT ![r] = s], UNCHANGED txs,
               available' = [available EXCEPT ![Acct(r)] = @ + Amount[r]]
        PROVE  Promise!Next
    <3>1. outcomes' = [outcomes EXCEPT ![r] = "refunded"]
      BY <1>2, <2>7, OutcomesMove DEF Statuses
    <3>2. outcomes[r] = "held" /\ deliveries[r] = 0
      BY <2>1, <2>3, <2>7
    <3> QED BY <2>2, <2>7, <3>1, <3>2, PromiseSteps
  <2>8. ASSUME NEW v \in Reviewers, RejectCommit(v), status[review[v].req] \in Open
        PROVE  Promise!Next
    <3> PICK r : r = review[v].req
      OBVIOUS
    <3>1. /\ r \in Requests /\ available' = [available EXCEPT ![RejectAcct(r)] = @ + Amount[r]]
      BY <1>2, <2>8, RejectPosts
    <3>2. /\ status[r] = "pending_review" /\ UNCHANGED txs
          /\ status' = [status EXCEPT ![r] = "rejected"]
      BY <1>2, <2>8 DEF RejectCommit, SettlementInv, ReviewsPending
    <3>3. ~Paid(r)
      BY <1>2, <3>1, <3>2 DEF Paid, SettlementInv, SentOnce
    <3>4. RejectAcct(r) = Acct(r)
      BY <3>1 DEF Mild, RejectAcct, Acct
    <3> QED BY <2>7, <2>8, <3>1, <3>2, <3>3, <3>4
  <2>9. ASSUME Revert, status[worker.cur] \in Open, entries' # entries PROVE Promise!Next
    <3> PICK r : r = worker.cur
      OBVIOUS
    <3>1. r \in Requests /\ available' = [available EXCEPT ![Acct(r)] = @ + Amount[r]]
      BY <1>2, <2>9, RevertPosts
    <3>2. status' = [status EXCEPT ![r] = "reverted"] /\ UNCHANGED txs /\ Dead(r)
      BY <1>2, <2>9 DEF Revert, Here, RefundInv
    <3>3. ~Paid(r)
      BY <3>2 DEF Paid, Dead
    <3> QED BY <2>7, <2>9, <3>1, <3>2, <3>3
  <2>10. ASSUME Finalize, status[worker.cur] \in Open, entries' # entries PROVE Promise!Next
    <3> PICK r : r = worker.cur
      OBVIOUS
    <3>1. /\ r \in Requests /\ worker.pc = "finalize"
          /\ status' = [status EXCEPT ![r] = "confirmed"] /\ UNCHANGED txs
          /\ UNCHANGED available
      BY <1>2, <2>10, WorkerMoves DEF Finalize, FinalizePost, Here, ledger, TypeOK
    <3>2. Paid(r)
      BY <1>2, <3>1 DEF SettlementInv, InHand
    <3>3. outcomes' = [outcomes EXCEPT ![r] = "paid"]
      BY <1>2, <3>1, OutcomesMove DEF Statuses
    <3>4. outcomes[r] = "held" /\ deliveries[r] = 1
      BY <2>1, <2>3, <2>10, <3>1, <3>2
    <3> QED BY <2>2, <3>1, <3>3, <3>4, PromiseSteps
  <2> QED BY <1>2, <2>4, <2>5, <2>6, <2>8, <2>9, <2>10, StatusMoves
<1>3. UNCHANGED <<outcomes, available, deliveries>> =>
        UNCHANGED <<[r \in Requests |-> OutcomeOf(r)], available,
                    [r \in Requests |-> Cardinality(Transfers(r, {"success", "simulated"}))]>>
  BY DEF outcomes, deliveries, Delivered
<1>4. "race_review" \notin Hazards /\ "race_reject" \notin Hazards
  BY DEF Mild
<1>5. TypeOK /\ SettlementInv => DeliveredOnce
  BY DeliveredIsPaid DEF DeliveredOnce
<1> QED BY <1>1, <1>2, <1>3, <1>4, <1>5, RefundInvCorrect, ReadsHoldCorrect, SettlementCorrect, PTL
        DEF Spec, KeepsPromise, Promise!Spec
=============================================================================
