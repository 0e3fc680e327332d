---------------------------- MODULE WithdrawalBooks ----------------------------
(***************************************************************************)
(* Proofs about the ledger of Withdrawal: what the accounts hold, against  *)
(* the entries posted to them and the requests that are open.              *)
(***************************************************************************)
EXTENDS WithdrawalProofs, TotalsProofs

-------------------------------------------------------------------------------
(* Which steps touch the ledger, and what becomes of a reading.              *)

\* Four steps post to the ledger; every other leaves it alone.
LEMMA LedgerMoves ==
  ASSUME [Next]_vars
  PROVE  \/ UNCHANGED ledger
         \/ \E r \in Requests : SubmitHold(r)
         \/ \E v \in Reviewers : RejectCommit(v)
         \/ Finalize \/ Revert
<1>1. ASSUME NEW r \in Requests, Submit(r)
      PROVE  UNCHANGED ledger \/ SubmitHold(r)
  BY <1>1 DEF Submit, SubmitCheck, SubmitNothing
<1>2. ASSUME NEW v \in Reviewers, Decide(v)
      PROVE  UNCHANGED ledger \/ RejectCommit(v)
  BY <1>2 DEF Decide, Approve, RejectRead, RejectRefused
<1>3. CASE WorkerStep
  <2>1. ASSUME NEW r \in Requests, Claim(r) \/ ClaimLost(r) \/ CheckBroadcast(r)
        PROVE  UNCHANGED ledger
    BY <2>1 DEF Claim, ClaimLost, CheckBroadcast
  <2>2. CASE \/ ListBroadcasting \/ EndTick \/ Prepare \/ Transfer
             \/ TransferRefused \/ TransferLateError \/ NoReceipt \/ Receipt
             \/ RecordHash \/ (\E stored \in BOOLEAN : RecordError(stored))
             \/ FinalizeStale \/ FinalizeError \/ RevertStale \/ AbortTick
    BY <2>2 DEF ListBroadcasting, EndTick, Prepare, Transfer, TransferRefused,
                TransferLateError, NoReceipt, Receipt, RecordHash, RecordError,
                FinalizeStale, FinalizeError, RevertStale, AbortTick
  <2> QED BY <1>3, <2>1, <2>2 DEF WorkerStep
<1>4. ASSUME NEW v \in Reviewers, NEW r \in Requests, NEW d \in {"approve", "reject"},
             ReviewRead(v, r, d)
      PROVE  UNCHANGED ledger
  BY <1>4 DEF ReviewRead
<1>5. ASSUME NEW r \in Requests, NEW o \in {"success", "failed"}, Mine(r, o)
      PROVE  UNCHANGED ledger
  BY <1>5 DEF Mine
<1>6. CASE ListApproved \/ Crash \/ (\E u \in Users : SetWallet(u)) \/ UNCHANGED vars
  BY <1>6 DEF ListApproved, Crash, SetWallet, vars, ledger
<1> QED BY <1>1, <1>2, <1>3, <1>4, <1>5, <1>6 DEF Next

\* Only the review calls and a restart move a review, ...
LEMMA ReviewsKept ==
  ASSUME [Next]_vars
  PROVE  \/ UNCHANGED review
         \/ \E v \in Reviewers : Decide(v)
         \/ \E v \in Reviewers, r \in Requests, d \in {"approve", "reject"} :
              ReviewRead(v, r, d)
         \/ Crash
<1>1. ASSUME NEW r \in Requests, Submit(r) PROVE UNCHANGED review
  BY <1>1 DEF Submit, SubmitCheck, SubmitHold, SubmitNothing
<1>2. CASE WorkerStep
  <2>1. ASSUME NEW r \in Requests, Claim(r) \/ ClaimLost(r) \/ CheckBroadcast(r)
        PROVE  UNCHANGED review
    BY <2>1 DEF Claim, ClaimLost, CheckBroadcast
  <2>2. CASE \/ ListBroadcasting \/ EndTick \/ Prepare \/ Transfer
             \/ TransferRefused \/ TransferLateError \/ NoReceipt \/ Receipt
             \/ RecordHash \/ (\E stored \in BOOLEAN : RecordError(stored))
             \/ Finalize \/ FinalizeStale \/ FinalizeError
             \/ Revert \/ RevertStale \/ AbortTick
    BY <2>2 DEF ListBroadcasting, EndTick, Prepare, Transfer, TransferRefused,
                TransferLateError, NoReceipt, Receipt, RecordHash, RecordError,
                Finalize, FinalizeStale, FinalizeError, Revert, RevertStale, AbortTick
  <2> QED BY <1>2, <2>1, <2>2 DEF WorkerStep
<1>3. ASSUME NEW r \in Requests, NEW o \in {"success", "failed"}, Mine(r, o)
      PROVE  UNCHANGED review
  BY <1>3 DEF Mine
<1>4. CASE ListApproved \/ (\E u \in Users : SetWallet(u)) \/ UNCHANGED vars
  BY <1>4 DEF ListApproved, SetWallet, vars
<1> QED BY <1>1, <1>2, <1>3, <1>4 DEF Next

\* ... and only its own steps and a restart move the worker.
LEMMA WorkersKept ==
  ASSUME [Next]_vars
  PROVE  UNCHANGED worker \/ WorkerStep \/ ListApproved \/ Crash
<1>1. ASSUME NEW r \in Requests, Submit(r) PROVE UNCHANGED worker
  BY <1>1 DEF Submit, SubmitCheck, SubmitHold, SubmitNothing
<1>2. ASSUME NEW v \in Reviewers, Decide(v) PROVE UNCHANGED worker
  BY <1>2 DEF Decide, Approve, RejectRead, RejectCommit, RejectRefused
<1>3. ASSUME NEW v \in Reviewers, NEW r \in Requests, NEW d \in {"approve", "reject"},
             ReviewRead(v, r, d)
      PROVE  UNCHANGED worker
  BY <1>3 DEF ReviewRead
<1>4. ASSUME NEW r \in Requests, NEW o \in {"success", "failed"}, Mine(r, o)
      PROVE  UNCHANGED worker
  BY <1>4 DEF Mine
<1>5. CASE (\E u \in Users : SetWallet(u)) \/ UNCHANGED vars
  BY <1>5 DEF SetWallet, vars
<1> QED BY <1>1, <1>2, <1>3, <1>4, <1>5 DEF Next

\* No step takes a request's row away.
LEMMA RowsStay ==
  ASSUME TypeOK, [Next]_vars, NEW r \in Requests, status[r] # "none"
  PROVE  status'[r] # "none"
<1>1. ASSUME NEW q \in Requests, Submit(q) PROVE status'[r] # "none"
  BY <1>1 DEF Submit, SubmitCheck, SubmitHold, SubmitNothing, requestVars, TypeOK
<1>2. ASSUME NEW v \in Reviewers, Decide(v) PROVE status'[r] # "none"
  BY <1>2 DEF Decide, Approve, RejectRead, RejectCommit, RejectRefused, requestVars, TypeOK
<1>3. CASE WorkerStep
  <2>1. ASSUME NEW q \in Requests, Claim(q) \/ ClaimLost(q) \/ CheckBroadcast(q)
        PROVE  status'[r] # "none"
    BY <2>1 DEF Claim, ClaimLost, CheckBroadcast, requestVars, TypeOK
  <2>2. CASE RecordHash \/ (\E stored \in BOOLEAN : RecordError(stored)) \/ Finalize \/ Revert
    BY <2>2 DEF RecordHash, RecordError, Finalize, Revert, TypeOK
  <2>3. CASE \/ ListBroadcasting \/ EndTick \/ Prepare \/ Transfer
             \/ TransferRefused \/ TransferLateError \/ NoReceipt \/ Receipt
             \/ FinalizeStale \/ FinalizeError \/ RevertStale \/ AbortTick
    BY <2>3 DEF ListBroadcasting, EndTick, Prepare, Transfer, TransferRefused,
                TransferLateError, NoReceipt, Receipt, FinalizeStale, FinalizeError,
                RevertStale, AbortTick, requestVars
  <2> QED BY <1>3, <2>1, <2>2, <2>3 DEF WorkerStep
<1>4. ASSUME NEW v \in Reviewers, NEW q \in Requests, NEW d \in {"approve", "reject"},
             ReviewRead(v, q, d)
      PROVE  UNCHANGED status
  BY <1>4 DEF ReviewRead, requestVars
<1>5. ASSUME NEW q \in Requests, NEW o \in {"success", "failed"}, Mine(q, o)
      PROVE  UNCHANGED status
  BY <1>5 DEF Mine, requestVars
<1>6. CASE ListApproved \/ Crash \/ (\E u \in Users : SetWallet(u)) \/ UNCHANGED vars
  BY <1>6 DEF ListApproved, Crash, SetWallet, vars, requestVars
<1> QED BY <1>1, <1>2, <1>3, <1>4, <1>5, <1>6 DEF Next

\* A review keeps its request, and begins with a pending one.
LEMMA ReviewsMove ==
  ASSUME TypeOK, [Next]_vars, NEW v \in Reviewers, review'[v].pc # "idle"
  PROVE  \/ review[v].pc # "idle" /\ review'[v].req = review[v].req
         \/ review'[v].req \in Requests /\ status[review'[v].req] \in Pending
<1>1. ASSUME NEW w \in Reviewers, Decide(w)
      PROVE  review[v].pc # "idle" /\ review'[v].req = review[v].req
  <2>1. CASE RejectRead(w)
    BY <1>1, <2>1 DEF RejectRead, TypeOK
  <2>2. CASE review' = [review EXCEPT ![w] = Idle]
    BY <2>2 DEF TypeOK, Idle
  <2> QED BY <1>1, <2>1, <2>2 DEF Decide, Approve, RejectCommit, RejectRefused
<1>2. ASSUME NEW w \in Reviewers, NEW r \in Requests, NEW d \in {"approve", "reject"},
             ReviewRead(w, r, d)
      PROVE  \/ review[v].pc # "idle" /\ review'[v].req = review[v].req
             \/ review'[v].req \in Requests /\ status[review'[v].req] \in Pending
  BY <1>2 DEF ReviewRead, TypeOK
<1>3. Crash => FALSE
  BY DEF Crash, Idle
<1>4. CASE UNCHANGED review
  BY <1>4
<1> QED BY <1>1, <1>2, <1>3, <1>4, ReviewsKept DEF Next

\* The worker keeps the request in its hands, or has just taken one.
LEMMA HandsMove ==
  ASSUME TypeOK, [Next]_vars, worker'.pc # "next"
  PROVE  \/ worker.pc # "next" /\ worker'.cur = worker.cur
         \/ worker'.cur \in Requests /\ status'[worker'.cur] = "broadcasting"
<1>1. ASSUME NEW r \in Requests, Claim(r) \/ ClaimLost(r) \/ CheckBroadcast(r)
      PROVE  \/ worker.pc # "next" /\ worker'.cur = worker.cur
             \/ worker'.cur \in Requests /\ status'[worker'.cur] = "broadcasting"
  BY <1>1, WorkerFields DEF Claim, ClaimLost, CheckBroadcast, Confirmable, At, requestVars, TypeOK
<1>2. CASE \/ Prepare \/ Transfer \/ TransferRefused \/ TransferLateError
           \/ RecordHash \/ (\E stored \in BOOLEAN : RecordError(stored))
           \/ NoReceipt \/ Receipt \/ Finalize \/ FinalizeStale \/ FinalizeError
           \/ Revert \/ RevertStale
  BY <1>2, WorkerFields DEF TypeOK, Prepare, Transfer, TransferRefused, TransferLateError, RecordHash,
              RecordError, NoReceipt, Receipt, Finalize, FinalizeStale, FinalizeError,
              Revert, RevertStale, Here
<1>3. CASE ListApproved \/ ListBroadcasting \/ EndTick \/ AbortTick \/ Crash
  BY <1>3 DEF ListApproved, ListBroadcasting, EndTick, AbortTick, Crash, Listing, Asleep
<1>4. CASE UNCHANGED worker
  BY <1>4
<1> QED BY <1>1, <1>2, <1>3, <1>4, WorkersKept DEF Next, WorkerStep

\* A rejection that is about to write has just read, or was about to before.
LEMMA Readings ==
  ASSUME TypeOK, [Next]_vars, NEW v \in Reviewers, review'[v].pc = "commit"
  PROVE  review'[v] = review[v] \/ RejectRead(v)
<1>1. ASSUME NEW w \in Reviewers, Decide(w)
      PROVE  review'[v] = review[v] \/ RejectRead(v)
  <2>1. CASE RejectRead(w)
    BY <2>1 DEF RejectRead, TypeOK
  <2>2. CASE review' = [review EXCEPT ![w] = Idle]
    BY <2>2 DEF TypeOK, Idle
  <2> QED BY <1>1, <2>1, <2>2 DEF Decide, Approve, RejectCommit, RejectRefused
<1>2. ASSUME NEW w \in Reviewers, NEW r \in Requests, NEW d \in {"approve", "reject"},
             ReviewRead(w, r, d)
      PROVE  review'[v] = review[v]
  BY <1>2 DEF ReviewRead, TypeOK
<1>3. Crash => FALSE
  BY DEF Crash, Idle
<1> QED BY <1>1, <1>2, <1>3, ReviewsKept

-------------------------------------------------------------------------------
(* No account is overdrawn, whatever overlaps: a rejection writes back       *)
(* balances that were large enough when it read them.                        *)

OverdraftInv ==
  /\ HoldInv
  /\ NotOverdrawn
  /\ \A v \in Reviewers : review[v].pc = "commit" =>
       review[v].snap.available >= 0 /\ review[v].snap.hold >= Amount[review[v].req]


\* The balances of a request's account, as numbers.
LEMMA BalanceType ==
  ASSUME TypeOK, NEW a \in Accounts
  PROVE  available[a] \in Int /\ locked[a] \in Int /\ hold[a] \in Int
BY DEF TypeOK

\* However calls, reviews and the worker overlap, fail or crash, no account of
\* a user is ever overdrawn.
THEOREM NotOverdrawnCorrect == Spec => []NotOverdrawn
<1> USE PayloadType, BalanceType
<1>1. Init => OverdraftInv
  <2>1. Init => HoldInv
    BY DEF Init, HoldInv, LockedIsHeld, Idle, NoSnap
  <2>2. Init => NotOverdrawn
    BY PayloadAssumption DEF Init, NotOverdrawn
  <2> QED BY <2>1, <2>2 DEF Init, OverdraftInv, Idle
<1>2. TypeOK /\ OverdraftInv /\ [Next]_vars /\ HoldInv' => OverdraftInv'
  <2> SUFFICES ASSUME TypeOK, OverdraftInv, [Next]_vars, HoldInv' PROVE OverdraftInv'
    OBVIOUS
  <2>1. NotOverdrawn'
    <3>1. CASE UNCHANGED ledger
      BY <3>1 DEF OverdraftInv, NotOverdrawn, ledger
    <3>2. ASSUME NEW r \in Requests, SubmitHold(r) PROVE NotOverdrawn'
      <4> DEFINE a == Acct(r)
      <4>1. a \in Accounts /\ Amount[r] \in Nat
        BY PayloadAssumption
      <4>2. /\ available[a] >= Amount[r]
            /\ available' = [available EXCEPT ![a] = @ - Amount[r]]
            /\ locked' = [locked EXCEPT ![a] = @ + Amount[r]]
            /\ hold' = [hold EXCEPT ![a] = @ + Amount[r]]
        BY <3>2 DEF SubmitHold, Affordable
      <4> HIDE DEF a
      <4>3. \A b \in Accounts : /\ available[b] \in Int /\ locked[b] \in Int /\ hold[b] \in Int
                               /\ available[b] >= 0 /\ locked[b] >= 0 /\ hold[b] >= 0
        BY DEF OverdraftInv, NotOverdrawn, TypeOK
      <4>4. /\ available'[a] = available[a] - Amount[r] /\ locked'[a] = locked[a] + Amount[r]
            /\ hold'[a] = hold[a] + Amount[r]
            /\ \A b \in Accounts \ {a} : /\ available'[b] = available[b] /\ locked'[b] = locked[b]
                                         /\ hold'[b] = hold[b]
        BY <4>1, <4>2 DEF TypeOK
      <4>5. available'[a] >= 0 /\ locked'[a] >= 0 /\ hold'[a] >= 0
        BY <4>1, <4>2, <4>3, <4>4
      <4> QED BY <4>3, <4>4, <4>5 DEF NotOverdrawn
    <3>3. ASSUME NEW v \in Reviewers, RejectCommit(v) PROVE NotOverdrawn'
      <4> DEFINE r == review[v].req  a == RejectAcct(r)  s == review[v].snap
      <4>1. r \in Requests /\ s.available \in Int /\ s.locked \in Int /\ s.hold \in Int
        BY <3>3, ReviewMoves DEF RejectCommit, TypeOK
      <4>2. s.available >= 0 /\ s.hold >= Amount[r] /\ s.locked = s.hold
        BY <3>3 DEF RejectCommit, OverdraftInv, HoldInv
      <4>3. Amount[r] \in Nat
        BY <4>1, PayloadAssumption
      <4>4. /\ available' = [available EXCEPT ![a] = s.available + Amount[r]]
            /\ locked' = [locked EXCEPT ![a] = s.locked - Amount[r]]
            /\ hold' = [hold EXCEPT ![a] = s.hold - Amount[r]]
        BY <3>3 DEF RejectCommit
      <4> HIDE DEF r, a, s
      <4>5. \A b \in Accounts : available[b] >= 0 /\ locked[b] >= 0 /\ hold[b] >= 0
        BY DEF OverdraftInv, NotOverdrawn
      <4>6. \A b \in Accounts :
              /\ available'[b] = IF b = a THEN s.available + Amount[r] ELSE available[b]
              /\ locked'[b] = IF b = a THEN s.locked - Amount[r] ELSE locked[b]
              /\ hold'[b] = IF b = a THEN s.hold - Amount[r] ELSE hold[b]
        BY <4>4 DEF TypeOK
      <4>7. s.available + Amount[r] >= 0 /\ s.locked - Amount[r] >= 0 /\ s.hold - Amount[r] >= 0
        BY <4>1, <4>2, <4>3
      <4> QED BY <4>5, <4>6, <4>7 DEF NotOverdrawn
    <3>4. CASE Finalize \/ Revert
      <4> DEFINE r == worker.cur
      <4>1. r \in Requests
        BY <3>4, WorkerMoves DEF Finalize, Revert, Here, TypeOK
      <4>2. CASE UNCHANGED ledger
        BY <4>2 DEF OverdraftInv, NotOverdrawn, ledger
      <4>3. CASE FinalizePost(r) \/ RevertPost(r)
        <5> DEFINE a == Acct(r)
        <5>1. a \in Accounts /\ Amount[r] \in Nat
          BY <4>1, PayloadAssumption
        <5>2. /\ hold[a] >= Amount[r] /\ locked[a] >= Amount[r]
              /\ \/ available' = available
                 \/ available' = [available EXCEPT ![a] = @ + Amount[r]]
              /\ locked' = [locked EXCEPT ![a] = @ - Amount[r]]
              /\ hold' = [hold EXCEPT ![a] = @ - Amount[r]]
          BY <4>3 DEF FinalizePost, RevertPost, Covered, Released
        <5> HIDE DEF a, r
        <5> QED BY <5>1, <5>2 DEF OverdraftInv, NotOverdrawn, TypeOK
      <4> QED BY <3>4, <4>2, <4>3 DEF Finalize, Revert
    <3> QED BY <3>1, <3>2, <3>3, <3>4, LedgerMoves
  <2>2. ASSUME NEW v \in Reviewers, review'[v].pc = "commit"
        PROVE  /\ review'[v].snap.available >= 0
               /\ review'[v].snap.hold >= Amount[review'[v].req]
    <3>1. CASE review'[v] = review[v]
      BY <2>2, <3>1 DEF OverdraftInv
    <3>2. CASE RejectRead(v)
      <4> DEFINE r == review[v].req  a == RejectAcct(r)
      <4>1. a \in Accounts /\ r \in Requests
        BY <3>2, ReviewMoves DEF RejectRead, TypeOK
      <4>2. /\ review'[v].req = r /\ hold[a] >= Amount[r]
            /\ review'[v].snap.available = available[a] /\ review'[v].snap.hold = hold[a]
        BY <3>2 DEF RejectRead, TypeOK
      <4> QED BY <4>1, <4>2 DEF OverdraftInv, NotOverdrawn
    <3> QED BY <2>2, <3>1, <3>2, Readings
  <2> QED BY <2>1, <2>2 DEF OverdraftInv
<1>3. OverdraftInv => NotOverdrawn
  BY DEF OverdraftInv
<1>4. Spec => []HoldInv
  BY HoldInvCorrect
<1> QED BY <1>1, <1>2, <1>3, <1>4, TypeCorrect, PTL DEF Spec

-------------------------------------------------------------------------------
(* What a rejection read stays true until it writes, if no other transaction *)
(* on the account may come between.                                          *)

ReadsHold ==
  \A v \in Reviewers : review[v].pc = "commit" =>
    LET a == RejectAcct(review[v].req)  s == review[v].snap IN
    /\ s.available = available[a] /\ s.locked = locked[a] /\ s.hold = hold[a]
    /\ \A w \in Reviewers \ {v} : review[w].pc = "commit" => RejectAcct(review[w].req) # a

\* A posting leaves the accounts that are being read alone.
LEMMA ReadAccountsKept ==
  ASSUME "race_reject" \notin Hazards, TypeOK, ReadsHold, [Next]_vars,
         NEW v \in Reviewers, review[v].pc = "commit", review'[v] = review[v],
         NEW a, a = RejectAcct(review[v].req)
  PROVE  available'[a] = available[a] /\ locked'[a] = locked[a] /\ hold'[a] = hold[a]
<1>1. a \in Accounts
  BY PayloadType, ReviewMoves DEF TypeOK
<1>2. CASE UNCHANGED ledger
  BY <1>2 DEF ledger
<1>3. ASSUME NEW r \in Requests, SubmitHold(r)
      PROVE  available'[a] = available[a] /\ locked'[a] = locked[a] /\ hold'[a] = hold[a]
  <2>1. Acct(r) # a
    BY <1>3 DEF SubmitHold, Undisturbed
  <2> QED BY <1>1, <1>3, <2>1 DEF SubmitHold, TypeOK
<1>4. ASSUME NEW w \in Reviewers, RejectCommit(w)
      PROVE  available'[a] = available[a] /\ locked'[a] = locked[a] /\ hold'[a] = hold[a]
  <2>1. w # v
    BY <1>4 DEF RejectCommit, Idle, TypeOK
  <2>2. RejectAcct(review[w].req) # a
    BY <1>4, <2>1 DEF RejectCommit, ReadsHold
  <2> QED BY <1>1, <1>4, <2>2 DEF RejectCommit, TypeOK
<1>5. CASE Finalize \/ Revert
  <2>1. Acct(worker.cur) # a
    BY <1>5 DEF Finalize, Revert, Undisturbed
  <2> QED BY <1>1, <1>2, <1>5, <2>1 DEF Finalize, FinalizePost, Revert, RevertPost, TypeOK
<1> QED BY <1>2, <1>3, <1>4, <1>5, LedgerMoves

\* A new reading finds no other one of its account.
LEMMA ReadingIsNew ==
  ASSUME "race_reject" \notin Hazards, TypeOK, NEW v \in Reviewers, RejectRead(v)
  PROVE  LET a == RejectAcct(review[v].req)  s == review'[v].snap IN
         /\ review'[v].req = review[v].req
         /\ s.available = available'[a] /\ s.locked = locked'[a] /\ s.hold = hold'[a]
         /\ \A w \in Reviewers \ {v} :
              review'[w] = review[w]
              /\ (review[w].pc = "commit" => RejectAcct(review[w].req) # a)
BY DEF RejectRead, Undisturbed, TypeOK, ledger

LEMMA ReadsHoldCorrect ==
  ASSUME "race_reject" \notin Hazards
  PROVE  Spec => []ReadsHold
<1>1. Init => ReadsHold
  BY DEF Init, ReadsHold, Idle
<1>2. TypeOK /\ ReadsHold /\ [Next]_vars => ReadsHold'
  <2> SUFFICES ASSUME TypeOK, ReadsHold, [Next]_vars,
                      NEW v \in Reviewers, review'[v].pc = "commit",
                      NEW a, a = RejectAcct(review'[v].req),
                      NEW s, s = review'[v].snap
               PROVE  /\ s.available = available'[a] /\ s.locked = locked'[a]
                      /\ s.hold = hold'[a]
                      /\ \A w \in Reviewers \ {v} : review'[w].pc = "commit" =>
                           RejectAcct(review'[w].req) # a
    BY DEF ReadsHold, RejectAcct
  <2>1. CASE RejectRead(v)
    BY <2>1, ReadingIsNew
  <2>2. CASE review'[v] = review[v]
    <3>1. s.available = available'[a] /\ s.locked = locked'[a] /\ s.hold = hold'[a]
      BY <2>2, ReadAccountsKept DEF ReadsHold
    <3>2. ASSUME NEW w \in Reviewers \ {v}, review'[w].pc = "commit"
          PROVE  RejectAcct(review'[w].req) # a
      <4>1. CASE review'[w] = review[w]
        BY <2>2, <3>2, <4>1 DEF ReadsHold
      <4>2. CASE RejectRead(w)
        BY <2>2, <3>2, <4>2, ReadingIsNew
      <4> QED BY <3>2, <4>1, <4>2, Readings
    <3> QED BY <3>1, <3>2
  <2> QED BY <2>1, <2>2, Readings
<1> QED BY <1>1, <1>2, TypeCorrect, PTL DEF Spec

-------------------------------------------------------------------------------
(* Double entry.                                                             *)

\* What was posted, reviewed or worked on was filed; a fee comes with a payment.
Filed ==
  /\ \A e \in entries : status[e.req] # "none"
  /\ \A r \in Requests : Entered("fee", r) => Entered("finalize", r)
  /\ \A v \in Reviewers : review[v].pc # "idle" => status[review[v].req] # "none"
  /\ worker.pc # "next" => status[worker.cur] # "none"

BooksInv ==
  /\ Filed
  /\ IsFiniteSet(entries)
  /\ BooksBalance

Booked(E, kinds, a) == Total(EntryAmount, {e \in E : e.kind \in kinds /\ EntryAcct(e) = a})
BookedPlatform(E, kind, c) == Total(EntryAmount, {e \in E : e.kind = kind /\ AssetOf[e.req] = c})

\* What one entry adds to an account.
Adds1(k, r, kinds, a) ==
  IF k \in kinds /\ a = (IF k = "reject" THEN RejectAcct(r) ELSE Acct(r))
  THEN (IF k = "fee" THEN Fee[r] ELSE Amount[r]) ELSE 0
AddsPlatform(k, r, kind, c) ==
  IF k = kind /\ c = AssetOf[r] THEN (IF k = "fee" THEN Fee[r] ELSE Amount[r]) ELSE 0

\* An entry that is posted counts where its kind and its account say.
LEMMA Booking ==
  ASSUME NEW E \in SUBSET EntryRows, IsFiniteSet(E),
         NEW k \in EntryKinds, NEW r \in Requests, Entry(k, r) \notin E
  PROVE  /\ \A kinds, a :
              /\ Booked(E, kinds, a) \in Int
              /\ Booked(E \cup {Entry(k, r)}, kinds, a)
                   = Booked(E, kinds, a) + Adds1(k, r, kinds, a)
         /\ \A kind, c :
              /\ BookedPlatform(E, kind, c) \in Int
              /\ BookedPlatform(E \cup {Entry(k, r)}, kind, c)
                   = BookedPlatform(E, kind, c) + AddsPlatform(k, r, kind, c)
         /\ IsFiniteSet(E \cup {Entry(k, r)})
<1> DEFINE z == Entry(k, r)
<1>1. z \in EntryRows /\ z.kind = k /\ z.req = r
  BY EntryType DEF Entry
<1>2. \A e \in EntryRows : EntryAmount[e] \in Int
  <2>1. \A e \in EntryRows : e.req \in Requests
    BY DEF EntryRows, Entry
  <2> QED BY <2>1, PayloadAssumption DEF EntryAmount
<1>3. EntryAmount[z] = IF k = "fee" THEN Fee[r] ELSE Amount[r]
  BY <1>1 DEF EntryAmount
<1>4. EntryAcct(z) = IF k = "reject" THEN RejectAcct(r) ELSE Acct(r)
  BY <1>1 DEF EntryAcct
<1> HIDE DEF z
<1>5. \A e \in E : EntryAmount[e] \in Int
  BY <1>2
<1>6. ASSUME NEW kinds, NEW a
      PROVE  /\ Booked(E, kinds, a) \in Int
             /\ Booked(E \cup {z}, kinds, a) = Booked(E, kinds, a) + Adds1(k, r, kinds, a)
  <2> DEFINE P == {e \in E \cup {z} : e.kind \in kinds /\ EntryAcct(e) = a}
  <2>1. /\ {e \in E : e.kind \in kinds /\ EntryAcct(e) = a} = E \cap P
        /\ {e \in E \cup {z} : e.kind \in kinds /\ EntryAcct(e) = a} = (E \cup {z}) \cap P
    OBVIOUS
  <2>2. /\ Booked(E, kinds, a) = Total(EntryAmount, E \cap P)
        /\ Booked(E \cup {z}, kinds, a) = Total(EntryAmount, (E \cup {z}) \cap P)
    BY Zenon, <2>1 DEF Booked
  <2>3. z \in P <=> k \in kinds /\ a = IF k = "reject" THEN RejectAcct(r) ELSE Acct(r)
    BY <1>1, <1>4
  <2> HIDE DEF P
  <2>4. /\ Total(EntryAmount, E \cap P) \in Int
        /\ Total(EntryAmount, (E \cup {z}) \cap P)
             = Total(EntryAmount, E \cap P) + (IF z \in P THEN EntryAmount[z] ELSE 0)
    BY <1>1, <1>2, <1>5, TotalOfSelected DEF z
  <2> QED BY <1>3, <2>2, <2>3, <2>4 DEF Adds1
<1>7. ASSUME NEW kind, NEW c
      PROVE  /\ BookedPlatform(E, kind, c) \in Int
             /\ BookedPlatform(E \cup {z}, kind, c)
                  = BookedPlatform(E, kind, c) + AddsPlatform(k, r, kind, c)
  <2> DEFINE P == {e \in E \cup {z} : e.kind = kind /\ AssetOf[e.req] = c}
  <2>1. /\ {e \in E : e.kind = kind /\ AssetOf[e.req] = c} = E \cap P
        /\ {e \in E \cup {z} : e.kind = kind /\ AssetOf[e.req] = c} = (E \cup {z}) \cap P
    OBVIOUS
  <2>2. /\ BookedPlatform(E, kind, c) = Total(EntryAmount, E \cap P)
        /\ BookedPlatform(E \cup {z}, kind, c) = Total(EntryAmount, (E \cup {z}) \cap P)
    BY Zenon, <2>1 DEF BookedPlatform
  <2>3. z \in P <=> k = kind /\ c = AssetOf[r]
    BY <1>1
  <2> HIDE DEF P
  <2>4. /\ Total(EntryAmount, E \cap P) \in Int
        /\ Total(EntryAmount, (E \cup {z}) \cap P)
             = Total(EntryAmount, E \cap P) + (IF z \in P THEN EntryAmount[z] ELSE 0)
    BY <1>1, <1>2, <1>5, TotalOfSelected DEF z
  <2> QED BY <1>3, <2>2, <2>3, <2>4 DEF AddsPlatform
<1>8. IsFiniteSet(E \cup {z})
  BY FS_AddElement
<1> QED BY <1>6, <1>7, <1>8 DEF z

\* What the four postings do to the ledger, in terms of entries and accounts.
LEMMA HoldPosts ==
  ASSUME TypeOK, Filed, NEW r \in Requests, SubmitHold(r), NEW a, a = Acct(r)
  PROVE  /\ Entry("hold", r) \notin entries
         /\ entries' = entries \cup {Entry("hold", r)}
         /\ status'[r] = "pending_review"
         /\ available' = [available EXCEPT ![a] = @ - Amount[r]]
         /\ hold' = [hold EXCEPT ![a] = @ + Amount[r]]
         /\ UNCHANGED <<treasury, feeVault>>
<1>1. Entry("hold", r).req = r
  BY DEF Entry
<1> QED BY <1>1 DEF SubmitHold, IsNew, Filed, TypeOK

LEMMA RejectPosts ==
  ASSUME TypeOK, ReadsHold, NEW v \in Reviewers, RejectCommit(v),
         NEW r, r = review[v].req, NEW a, a = RejectAcct(r)
  PROVE  /\ r \in Requests
         /\ Entry("reject", r) \notin entries
         /\ entries' = entries \cup {Entry("reject", r)}
         /\ status'[r] = "rejected"
         /\ available' = [available EXCEPT ![a] = @ + Amount[r]]
         /\ hold' = [hold EXCEPT ![a] = @ - Amount[r]]
         /\ UNCHANGED <<treasury, feeVault>>
<1>1. r \in Requests
  BY ReviewMoves DEF RejectCommit, TypeOK
<1>2. Entry("reject", r) \notin entries
  BY DEF RejectCommit, HasKey, Entry
<1>3. /\ review[v].snap.available = available[a] /\ review[v].snap.hold = hold[a]
  BY DEF RejectCommit, ReadsHold
<1> QED BY <1>1, <1>2, <1>3 DEF RejectCommit, TypeOK

LEMMA FinalizePosts ==
  ASSUME TypeOK, Filed, \A q \in LongKeys : Fee[q] = 0, Finalize, entries' # entries,
         NEW r, r = worker.cur, NEW a, a = Acct(r)
  PROVE  /\ r \in Requests
         /\ Entry("finalize", r) \notin entries /\ Entry("fee", r) \notin entries
         /\ entries' = IF Fee[r] = 0 THEN entries \cup {Entry("finalize", r)}
                       ELSE (entries \cup {Entry("finalize", r)}) \cup {Entry("fee", r)}
         /\ status'[r] = "confirmed"
         /\ UNCHANGED available
         /\ hold' = [hold EXCEPT ![a] = @ - Amount[r]]
         /\ treasury' = [treasury EXCEPT ![AssetOf[r]] = @ + (Amount[r] - Fee[r])]
         /\ feeVault' = [feeVault EXCEPT ![AssetOf[r]] = @ + Fee[r]]
<1>1. r \in Requests
  BY WorkerMoves DEF Finalize, Here, TypeOK
<1>2. ~HasKey("finalize", r) /\ FinalizePost(r)
  BY DEF Finalize, ledger
<1>3. Entry("finalize", r) \notin entries
  BY <1>2 DEF HasKey, Entry
<1>4. Entry("fee", r) \notin entries
  BY <1>1, <1>3 DEF Filed, Entered
<1>5. Fee[r] \in Nat
  BY <1>1, PayloadAssumption
<1>6. Fee[r] > 0 => EntryKey("fee", r) # EntryKey("finalize", r)
  BY <1>1 DEF EntryKey
<1>7. entries' = entries \cup {Entry("finalize", r)}
                 \cup (IF Fee[r] > 0 THEN {Entry("fee", r)} ELSE {})
  BY <1>2, <1>6 DEF FinalizePost
<1> QED BY <1>1, <1>2, <1>3, <1>4, <1>5, <1>7 DEF Finalize, FinalizePost, Net, TypeOK

LEMMA RevertPosts ==
  ASSUME TypeOK, Revert, entries' # entries, NEW r, r = worker.cur, NEW a, a = Acct(r)
  PROVE  /\ r \in Requests
         /\ Entry("revert", r) \notin entries
         /\ entries' = entries \cup {Entry("revert", r)}
         /\ status'[r] = "reverted"
         /\ available' = [available EXCEPT ![a] = @ + Amount[r]]
         /\ hold' = [hold EXCEPT ![a] = @ - Amount[r]]
         /\ UNCHANGED <<treasury, feeVault>>
<1>1. r \in Requests
  BY WorkerMoves DEF Revert, Here, TypeOK
<1>2. ~HasKey("revert", r) /\ RevertPost(r)
  BY DEF Revert, ledger
<1>3. Entry("revert", r) \notin entries
  BY <1>2 DEF HasKey, Entry
<1> QED BY <1>1, <1>2, <1>3 DEF Revert, RevertPost, Released, TypeOK

\* The worker's postings leave the ledger alone if they post no entry.
LEMMA Postings ==
  ASSUME [Next]_vars
  PROVE  \/ UNCHANGED ledger
         \/ \E r \in Requests : SubmitHold(r)
         \/ \E v \in Reviewers : RejectCommit(v)
         \/ (Finalize \/ Revert) /\ entries' # entries
<1>1. Finalize /\ entries' = entries => UNCHANGED ledger
  <2>1. FinalizePost(worker.cur) => Entry("finalize", worker.cur) \in entries'
    BY DEF FinalizePost
  <2>2. Entry("finalize", worker.cur) \in entries => HasKey("finalize", worker.cur)
    BY DEF HasKey, Entry
  <2> QED BY <2>1, <2>2 DEF Finalize
<1>2. Revert /\ entries' = entries => UNCHANGED ledger
  <2>1. RevertPost(worker.cur) => Entry("revert", worker.cur) \in entries'
    BY DEF RevertPost
  <2>2. Entry("revert", worker.cur) \in entries => HasKey("revert", worker.cur)
    BY DEF HasKey, Entry
  <2> QED BY <2>1, <2>2 DEF Revert
<1> QED BY <1>1, <1>2, LedgerMoves

\* Whatever overlaps, fails or crashes, what is posted or worked on was filed.
LEMMA FiledKept ==
  ASSUME TypeOK, ReadsHold, \A q \in LongKeys : Fee[q] = 0, Filed, [Next]_vars
  PROVE  Filed'
<1>1. \A e \in EntryRows : e.req \in Requests
  BY DEF EntryRows, Entry
<1>2. \A k, r : Entry(k, r).req = r
  BY DEF Entry
<1>3. \A k, r : Entered(k, r)' <=> Entry(k, r) \in entries'
  BY DEF Entered, Entry, EntryKey
<1>4. /\ \A e \in entries' : status'[e.req] # "none"
      /\ \A r \in Requests : Entered("fee", r)' => Entered("finalize", r)'
  <2>1. \A e \in entries : status'[e.req] # "none"
    BY <1>1, RowsStay DEF Filed, TypeOK
  <2>2. ASSUME NEW k \in EntryKinds \ {"fee"}, NEW q \in Requests,
               entries' = entries \cup {Entry(k, q)}, status'[q] # "none"
        PROVE  /\ \A e \in entries' : status'[e.req] # "none"
               /\ \A r \in Requests : Entered("fee", r)' => Entered("finalize", r)'
    BY <1>2, <2>1, <2>2, Posting DEF Filed
  <2>3. CASE UNCHANGED ledger
    BY <1>3, <2>1, <2>3 DEF ledger, Filed, Entered
  <2>4. CASE \E r \in Requests : SubmitHold(r)
    BY <2>2, <2>4, HoldPosts DEF EntryKinds
  <2>5. CASE \E v \in Reviewers : RejectCommit(v)
    BY <2>2, <2>5, RejectPosts DEF EntryKinds
  <2>6. CASE Revert /\ entries' # entries
    BY <2>2, <2>6, RevertPosts DEF EntryKinds
  <2>7. CASE Finalize /\ entries' # entries
    <3> DEFINE q == worker.cur
    <3>1. /\ q \in Requests /\ status'[q] = "confirmed"
          /\ entries' = IF Fee[q] = 0 THEN entries \cup {Entry("finalize", q)}
                        ELSE (entries \cup {Entry("finalize", q)}) \cup {Entry("fee", q)}
      BY <2>7, FinalizePosts
    <3> HIDE DEF q
    <3>2. \A e \in entries' : status'[e.req] # "none"
      BY <1>2, <2>1, <3>1
    <3>3. ASSUME NEW r \in Requests, Entered("fee", r)' PROVE Entered("finalize", r)'
      <4>1. Entry("fee", r) \in entries'
        BY <1>3, <3>3
      <4>2. Entry("fee", r) \in entries \/ r = q
        BY <3>1, <4>1, EntriesApart
      <4>3. Entry("finalize", r) \in entries'
        BY <3>1, <4>2 DEF Filed, Entered
      <4> QED BY <1>3, <4>3
    <3> QED BY <3>2, <3>3
  <2> QED BY <2>3, <2>4, <2>5, <2>6, <2>7, Postings
<1>5. ASSUME NEW v \in Reviewers, review'[v].pc # "idle"
      PROVE  status'[review'[v].req] # "none"
  <2>1. review'[v].req \in Requests /\ status[review'[v].req] # "none"
    BY <1>5, ReviewsMove, ReviewMoves DEF Filed, Pending, TypeOK
  <2> QED BY <2>1, RowsStay
<1>6. worker'.pc # "next" => status'[worker'.cur] # "none"
  <2>1. worker.pc # "next" => worker.cur \in Requests /\ status[worker.cur] # "none"
    BY WorkerMoves DEF Filed, TypeOK
  <2> QED BY <2>1, HandsMove, RowsStay
<1> QED BY <1>4, <1>5, <1>6 DEF Filed

\* The books of one account, given its entries.
UserBooks(E, a, avail, held) ==
  /\ avail = InitialBalance[a] - Booked(E, {"hold"}, a) + Booked(E, {"reject", "revert"}, a)
  /\ held = Booked(E, {"hold"}, a) - Booked(E, {"reject", "revert"}, a)
                                   - Booked(E, {"finalize"}, a)
PlatformBooks(E, c, paid, fees) ==
  /\ paid = BookedPlatform(E, "finalize", c) - BookedPlatform(E, "fee", c)
  /\ fees = BookedPlatform(E, "fee", c)

\* From the entries E to the entries F the account b of a user gains dx to spend
\* and dy on hold, the platform's accounts of asset c gain paid and fees.
PostsUser(E, F, b, dx, dy) ==
  \A a \in Accounts, x, y \in Int : UserBooks(E, a, x, y) =>
    IF a = b THEN UserBooks(F, a, x + dx, y + dy) ELSE UserBooks(F, a, x, y)
PostsPlatform(E, F, c, paid, fees) ==
  \A d \in Assets, x, y \in Int : PlatformBooks(E, d, x, y) =>
    IF d = c THEN PlatformBooks(F, d, x + paid, y + fees) ELSE PlatformBooks(F, d, x, y)

\* What each kind of entry adds to the accounts.
LEMMA EntryAddsUp ==
  ASSUME NEW E \in SUBSET EntryRows, IsFiniteSet(E), NEW k \in EntryKinds,
         NEW r \in Requests, Entry(k, r) \notin E
  PROVE  \A F : F = E \cup {Entry(k, r)} =>
         /\ IsFiniteSet(F) /\ F \in SUBSET EntryRows
         /\ k = "hold" => PostsUser(E, F, Acct(r), -Amount[r], Amount[r])
         /\ k = "reject" => PostsUser(E, F, RejectAcct(r), Amount[r], -Amount[r])
         /\ k = "revert" => PostsUser(E, F, Acct(r), Amount[r], -Amount[r])
         /\ k = "finalize" => PostsUser(E, F, Acct(r), 0, -Amount[r])
         /\ k = "fee" => PostsUser(E, F, Acct(r), 0, 0)
         /\ k \in {"hold", "reject", "revert"} => PostsPlatform(E, F, AssetOf[r], 0, 0)
         /\ k = "finalize" => PostsPlatform(E, F, AssetOf[r], Amount[r], 0)
         /\ k = "fee" => PostsPlatform(E, F, AssetOf[r], -Fee[r], Fee[r])
<1> TAKE F
<1>0. HAVE F = E \cup {Entry(k, r)}
<1>1. /\ IsFiniteSet(F) /\ F \in SUBSET EntryRows
      /\ Amount[r] \in Int /\ Fee[r] \in Int
      /\ \A a \in Accounts : InitialBalance[a] \in Int
  BY <1>0, EntryType, FS_AddElement, PayloadAssumption
<1>2. /\ \A kinds, a :
           /\ Booked(E, kinds, a) \in Int
           /\ Booked(E \cup {Entry(k, r)}, kinds, a)
                = Booked(E, kinds, a) + Adds1(k, r, kinds, a)
      /\ \A kind, c :
           /\ BookedPlatform(E, kind, c) \in Int
           /\ BookedPlatform(E \cup {Entry(k, r)}, kind, c)
                = BookedPlatform(E, kind, c) + AddsPlatform(k, r, kind, c)
  BY Zenon, Booking
<1>3. /\ \A kinds, a : Booked(F, kinds, a) = Booked(E, kinds, a) + Adds1(k, r, kinds, a)
      /\ \A kind, c : BookedPlatform(F, kind, c)
           = BookedPlatform(E, kind, c) + AddsPlatform(k, r, kind, c)
  BY Zenon, <1>0, <1>2
<1>4. ASSUME NEW a \in Accounts, NEW x \in Int, NEW y \in Int, UserBooks(E, a, x, y),
             NEW h \in Int, h = Adds1(k, r, {"hold"}, a),
             NEW g \in Int, g = Adds1(k, r, {"reject", "revert"}, a),
             NEW f \in Int, f = Adds1(k, r, {"finalize"}, a),
             NEW v, v = x - h + g, NEW w, w = y + h - g - f
      PROVE  UserBooks(F, a, v, w)
  <2> DEFINE eh == Booked(E, {"hold"}, a)  eg == Booked(E, {"reject", "revert"}, a)
             ef == Booked(E, {"finalize"}, a)
             fh == Booked(F, {"hold"}, a)  fg == Booked(F, {"reject", "revert"}, a)
             ff == Booked(F, {"finalize"}, a)
  <2>1. eh \in Int /\ eg \in Int /\ ef \in Int /\ InitialBalance[a] \in Int
    BY <1>1, <1>2
  <2>2. fh = eh + h /\ fg = eg + g /\ ff = ef + f
    BY <1>3, <1>4
  <2>3. x = InitialBalance[a] - eh + eg /\ y = eh - eg - ef
    BY <1>4 DEF UserBooks
  <2>4. UserBooks(F, a, v, w) <=> v = InitialBalance[a] - fh + fg /\ w = fh - fg - ff
    BY DEF UserBooks
  <2> HIDE DEF eh, eg, ef, fh, fg, ff
  <2> QED BY <1>4, <2>1, <2>2, <2>3, <2>4
<1>5. ASSUME NEW c \in Assets, NEW x \in Int, NEW y \in Int, PlatformBooks(E, c, x, y),
             NEW f \in Int, f = AddsPlatform(k, r, "finalize", c),
             NEW h \in Int, h = AddsPlatform(k, r, "fee", c),
             NEW v, v = x + f - h, NEW w, w = y + h
      PROVE  PlatformBooks(F, c, v, w)
  <2> DEFINE eh == BookedPlatform(E, "fee", c)  ef == BookedPlatform(E, "finalize", c)
             fh == BookedPlatform(F, "fee", c)  ff == BookedPlatform(F, "finalize", c)
  <2>1. eh \in Int /\ ef \in Int
    BY <1>2
  <2>2. fh = eh + h /\ ff = ef + f
    BY <1>3, <1>5
  <2>3. x = ef - eh /\ y = eh
    BY <1>5 DEF PlatformBooks
  <2>4. PlatformBooks(F, c, v, w) <=> v = ff - fh /\ w = fh
    BY DEF PlatformBooks
  <2> HIDE DEF eh, ef, fh, ff
  <2> QED BY <1>5, <2>1, <2>2, <2>3, <2>4
<1>6. ASSUME NEW b, b = IF k = "reject" THEN RejectAcct(r) ELSE Acct(r),
             NEW h \in Int, h = IF k = "hold" THEN Amount[r] ELSE 0,
             NEW g \in Int, g = IF k \in {"reject", "revert"} THEN Amount[r] ELSE 0,
             NEW f \in Int, f = IF k = "finalize" THEN Amount[r] ELSE 0,
             NEW dx, dx = g - h, NEW dy, dy = h - g - f
      PROVE  PostsUser(E, F, b, dx, dy)
  <2> SUFFICES ASSUME NEW a \in Accounts, NEW x \in Int, NEW y \in Int, UserBooks(E, a, x, y)
               PROVE  IF a = b THEN UserBooks(F, a, x + dx, y + dy) ELSE UserBooks(F, a, x, y)
    BY DEF PostsUser
  <2>1. CASE a = b
    <3>1. /\ h = Adds1(k, r, {"hold"}, a) /\ g = Adds1(k, r, {"reject", "revert"}, a)
          /\ f = Adds1(k, r, {"finalize"}, a)
      BY <1>6, <2>1 DEF Adds1
    <3>2. x + dx = x - h + g /\ y + dy = y + h - g - f
      BY <1>6
    <3>3. UserBooks(F, a, x + dx, y + dy)
      BY <1>4, <3>1, <3>2
    <3> QED BY <2>1, <3>3
  <2>2. CASE a # b
    <3>1. /\ 0 = Adds1(k, r, {"hold"}, a) /\ 0 = Adds1(k, r, {"reject", "revert"}, a)
          /\ 0 = Adds1(k, r, {"finalize"}, a)
      BY <1>6, <2>2 DEF Adds1
    <3>2. x = x - 0 + 0 /\ y = y + 0 - 0 - 0 /\ 0 \in Int
      OBVIOUS
    <3>3. UserBooks(F, a, x, y)
      BY <1>4, <3>1, <3>2
    <3> QED BY <2>2, <3>3
  <2> QED BY <2>1, <2>2
<1>7. /\ k = "hold" => PostsUser(E, F, Acct(r), -Amount[r], Amount[r])
      /\ k = "reject" => PostsUser(E, F, RejectAcct(r), Amount[r], -Amount[r])
      /\ k = "revert" => PostsUser(E, F, Acct(r), Amount[r], -Amount[r])
      /\ k = "finalize" => PostsUser(E, F, Acct(r), 0, -Amount[r])
      /\ k = "fee" => PostsUser(E, F, Acct(r), 0, 0)
  BY <1>1, <1>6
<1>8. ASSUME NEW f \in Int, f = IF k = "finalize" THEN Amount[r] ELSE 0,
             NEW h \in Int, h = IF k = "fee" THEN Fee[r] ELSE 0,
             NEW dx, dx = f - h
      PROVE  PostsPlatform(E, F, AssetOf[r], dx, h)
  <2> SUFFICES ASSUME NEW c \in Assets, NEW x \in Int, NEW y \in Int, PlatformBooks(E, c, x, y)
               PROVE  IF c = AssetOf[r] THEN PlatformBooks(F, c, x + dx, y + h)
                      ELSE PlatformBooks(F, c, x, y)
    BY DEF PostsPlatform
  <2>1. CASE c = AssetOf[r]
    <3>1. f = AddsPlatform(k, r, "finalize", c) /\ h = AddsPlatform(k, r, "fee", c)
      BY <1>8, <2>1 DEF AddsPlatform
    <3>2. x + dx = x + f - h
      BY <1>8
    <3>3. PlatformBooks(F, c, x + dx, y + h)
      BY <1>5, <3>1, <3>2
    <3> QED BY <2>1, <3>3
  <2>2. CASE c # AssetOf[r]
    <3>1. 0 = AddsPlatform(k, r, "finalize", c) /\ 0 = AddsPlatform(k, r, "fee", c)
      BY <2>2 DEF AddsPlatform
    <3>2. x = x + 0 - 0 /\ y = y + 0 /\ 0 \in Int
      OBVIOUS
    <3>3. PlatformBooks(F, c, x, y)
      BY <1>5, <3>1, <3>2
    <3> QED BY <2>2, <3>3
  <2> QED BY <2>1, <2>2
<1>9. /\ k \in {"hold", "reject", "revert"} => PostsPlatform(E, F, AssetOf[r], 0, 0)
      /\ k = "finalize" => PostsPlatform(E, F, AssetOf[r], Amount[r], 0)
      /\ k = "fee" => PostsPlatform(E, F, AssetOf[r], -Fee[r], Fee[r])
  <2>1. 0 = 0 - 0 /\ Amount[r] = Amount[r] - 0 /\ -Fee[r] = 0 - Fee[r] /\ 0 \in Int
    BY <1>1
  <2>2. k \in {"hold", "reject", "revert"} => PostsPlatform(E, F, AssetOf[r], 0, 0)
    BY <1>1, <1>8, <2>1
  <2>3. k = "finalize" => PostsPlatform(E, F, AssetOf[r], Amount[r], 0)
    BY <1>1, <1>8, <2>1
  <2>4. k = "fee" => PostsPlatform(E, F, AssetOf[r], -Fee[r], Fee[r])
    BY <1>1, <1>8, <2>1
  <2> QED BY <2>2, <2>3, <2>4
<1> QED BY <1>1, <1>7, <1>9

\* The accounts' books agree with the entries again when they gain just that.
LEMMA AccountsFollow ==
  ASSUME NEW E, NEW F, NEW b, NEW dx \in Int, NEW dy \in Int, PostsUser(E, F, b, dx, dy),
         NEW p \in [Accounts -> Int], NEW h \in [Accounts -> Int],
         \A a \in Accounts : UserBooks(E, a, p[a], h[a]),
         NEW q, \A a \in Accounts : q[a] = IF a = b THEN p[a] + dx ELSE p[a],
         NEW g, \A a \in Accounts : g[a] = IF a = b THEN h[a] + dy ELSE h[a]
  PROVE  \A a \in Accounts : UserBooks(F, a, q[a], g[a])
<1> TAKE a \in Accounts
<1>1. p[a] \in Int /\ h[a] \in Int /\ UserBooks(E, a, p[a], h[a])
  OBVIOUS
<1>2. IF a = b THEN UserBooks(F, a, p[a] + dx, h[a] + dy) ELSE UserBooks(F, a, p[a], h[a])
  BY <1>1 DEF PostsUser
<1>3. IF a = b THEN q[a] = p[a] + dx /\ g[a] = h[a] + dy ELSE q[a] = p[a] /\ g[a] = h[a]
  OBVIOUS
<1> QED BY Zenon, <1>2, <1>3

LEMMA VaultsFollow ==
  ASSUME NEW E, NEW F, NEW b, NEW dx \in Int, NEW dy \in Int, PostsPlatform(E, F, b, dx, dy),
         NEW p \in [Assets -> Int], NEW h \in [Assets -> Int],
         \A c \in Assets : PlatformBooks(E, c, p[c], h[c]),
         NEW q, \A a \in Assets : q[a] = IF a = b THEN p[a] + dx ELSE p[a],
         NEW g, \A a \in Assets : g[a] = IF a = b THEN h[a] + dy ELSE h[a]
  PROVE  \A c \in Assets : PlatformBooks(F, c, q[c], g[c])
<1> TAKE a \in Assets
<1>1. p[a] \in Int /\ h[a] \in Int /\ PlatformBooks(E, a, p[a], h[a])
  OBVIOUS
<1>2. IF a = b THEN PlatformBooks(F, a, p[a] + dx, h[a] + dy) ELSE PlatformBooks(F, a, p[a], h[a])
  BY <1>1 DEF PostsPlatform
<1>3. IF a = b THEN q[a] = p[a] + dx /\ g[a] = h[a] + dy ELSE q[a] = p[a] /\ g[a] = h[a]
  OBVIOUS
<1> QED BY Zenon, <1>2, <1>3

\* A posting whose entries add up in every account keeps the books.
LEMMA BooksKept ==
  ASSUME TypeOK, BooksInv, ReadsHold, \A q \in LongKeys : Fee[q] = 0, [Next]_vars
  PROVE  IsFiniteSet(entries)' /\ BooksBalance'
<1>1. /\ entries \in SUBSET EntryRows /\ IsFiniteSet(entries) /\ Filed
      /\ "reject" \in EntryKinds /\ "hold" \in EntryKinds /\ "revert" \in EntryKinds
      /\ "finalize" \in EntryKinds /\ "fee" \in EntryKinds
  BY DEF BooksInv, TypeOK, EntryKinds
<1>2. BooksBalance <=>
        /\ \A a \in Accounts : UserBooks(entries, a, available[a], hold[a])
        /\ \A c \in Assets : PlatformBooks(entries, c, treasury[c], feeVault[c])
  BY DEF BooksBalance, Posted, PostedPlatform, Booked, BookedPlatform, UserBooks, PlatformBooks
<1>3. BooksBalance' <=>
        /\ \A a \in Accounts : UserBooks(entries', a, available'[a], hold'[a])
        /\ \A c \in Assets : PlatformBooks(entries', c, treasury'[c], feeVault'[c])
  BY DEF BooksBalance, Posted, PostedPlatform, Booked, BookedPlatform, UserBooks,
         PlatformBooks, EntryAcct, Acct, RejectAcct
<1>4. /\ \A a \in Accounts : UserBooks(entries, a, available[a], hold[a])
      /\ \A c \in Assets : PlatformBooks(entries, c, treasury[c], feeVault[c])
  BY <1>2 DEF BooksInv
<1>5. /\ available \in [Accounts -> Int] /\ hold \in [Accounts -> Int]
      /\ treasury \in [Assets -> Int] /\ feeVault \in [Assets -> Int]
      /\ \A r \in Requests : /\ Amount[r] \in Int /\ Fee[r] \in Int
                            /\ (-Amount[r]) \in Int /\ (-Fee[r]) \in Int
  BY PayloadType DEF TypeOK
<1>6. CASE UNCHANGED ledger
  <2>1. /\ entries' = entries /\ available' = available /\ hold' = hold
        /\ treasury' = treasury /\ feeVault' = feeVault
    BY <1>6 DEF ledger
  <2>2. BooksBalance'
    BY Zenon, <1>3, <1>4, <2>1
  <2>3. IsFiniteSet(entries')
    BY Zenon, <1>1, <2>1
  <2> QED BY <2>2, <2>3
<1>7. ASSUME NEW r \in Requests, SubmitHold(r)
      PROVE  IsFiniteSet(entries)' /\ BooksBalance'
  <2> DEFINE b == Acct(r)  E == entries  F == entries'
  <2>1. /\ Entry("hold", r) \notin E /\ F = E \cup {Entry("hold", r)}
        /\ available' = [available EXCEPT ![b] = @ - Amount[r]]
        /\ hold' = [hold EXCEPT ![b] = @ + Amount[r]]
        /\ UNCHANGED <<treasury, feeVault>>
    BY <1>1, <1>7, HoldPosts
  <2> HIDE DEF E, F
  <2>2. E \in SUBSET EntryRows /\ IsFiniteSet(E)
    BY <1>1 DEF E
  <2>3. /\ IsFiniteSet(F) /\ PostsUser(E, F, b, -Amount[r], Amount[r])
        /\ PostsPlatform(E, F, AssetOf[r], 0, 0)
    BY <1>1, <2>1, <2>2, EntryAddsUp
  <2> HIDE DEF b
  <2>4. /\ \A a \in Accounts : available'[a] =
             IF a = b THEN available[a] + (-Amount[r]) ELSE available[a]
        /\ \A a \in Accounts : hold'[a] = IF a = b THEN hold[a] + Amount[r] ELSE hold[a]
    BY <1>5, <2>1
  <2>5. /\ \A a \in Accounts : UserBooks(E, a, available[a], hold[a])
        /\ \A c \in Assets : PlatformBooks(E, c, treasury[c], feeVault[c])
    BY <1>4 DEF E
  <2>6. \A a \in Accounts : UserBooks(F, a, available'[a], hold'[a])
    BY <1>5, <2>3, <2>4, <2>5, AccountsFollow
  <2>7. \A c \in Assets : PlatformBooks(F, c, treasury'[c], feeVault'[c])
    <3>1. \A c \in Assets : /\ treasury'[c] = IF c = AssetOf[r] THEN treasury[c] + 0 ELSE treasury[c]
                            /\ feeVault'[c] = IF c = AssetOf[r] THEN feeVault[c] + 0 ELSE feeVault[c]
      BY <1>5, <2>1
    <3> QED BY <1>5, <2>3, <2>5, <3>1, VaultsFollow
  <2> QED BY <1>3, <2>3, <2>6, <2>7 DEF F
<1>8. ASSUME NEW r \in Requests, NEW b,
             \/ \E v \in Reviewers : RejectCommit(v) /\ r = review[v].req /\ b = RejectAcct(r)
             \/ Revert /\ entries' # entries /\ r = worker.cur /\ b = Acct(r)
      PROVE  IsFiniteSet(entries)' /\ BooksBalance'
  <2> DEFINE E == entries  F == entries'
  <2>1. PICK k \in {"reject", "revert"} :
          /\ b = IF k = "reject" THEN RejectAcct(r) ELSE Acct(r)
          /\ Entry(k, r) \notin E /\ F = E \cup {Entry(k, r)}
          /\ available' = [available EXCEPT ![b] = @ + Amount[r]]
          /\ hold' = [hold EXCEPT ![b] = @ - Amount[r]]
          /\ UNCHANGED <<treasury, feeVault>>
    BY <1>8, RejectPosts, RevertPosts
  <2> HIDE DEF E, F
  <2>2. E \in SUBSET EntryRows /\ IsFiniteSet(E)
    BY <1>1 DEF E
  <2>3. /\ IsFiniteSet(F) /\ PostsUser(E, F, b, Amount[r], -Amount[r])
        /\ PostsPlatform(E, F, AssetOf[r], 0, 0)
    BY <1>1, <2>1, <2>2, EntryAddsUp
  <2>4. /\ \A a \in Accounts : available'[a] =
             IF a = b THEN available[a] + Amount[r] ELSE available[a]
        /\ \A a \in Accounts : hold'[a] = IF a = b THEN hold[a] + (-Amount[r]) ELSE hold[a]
    BY <1>5, <2>1
  <2>5. /\ \A a \in Accounts : UserBooks(E, a, available[a], hold[a])
        /\ \A c \in Assets : PlatformBooks(E, c, treasury[c], feeVault[c])
    BY <1>4 DEF E
  <2>6. \A a \in Accounts : UserBooks(F, a, available'[a], hold'[a])
    BY <1>5, <2>3, <2>4, <2>5, AccountsFollow
  <2>7. \A c \in Assets : PlatformBooks(F, c, treasury'[c], feeVault'[c])
    <3>1. \A c \in Assets : /\ treasury'[c] = IF c = AssetOf[r] THEN treasury[c] + 0 ELSE treasury[c]
                            /\ feeVault'[c] = IF c = AssetOf[r] THEN feeVault[c] + 0 ELSE feeVault[c]
      BY <1>5, <2>1
    <3> QED BY <1>5, <2>3, <2>5, <3>1, VaultsFollow
  <2> QED BY <1>3, <2>3, <2>6, <2>7 DEF F
<1>9. CASE Finalize /\ entries' # entries
  <2> DEFINE r == worker.cur  b == Acct(r)  c == AssetOf[r]
             E == entries  F == entries'  M == E \cup {Entry("finalize", r)}
  <2>1. /\ r \in Requests /\ b \in Accounts
        /\ Entry("finalize", r) \notin E /\ Entry("fee", r) \notin E
        /\ F = IF Fee[r] = 0 THEN M ELSE M \cup {Entry("fee", r)}
        /\ UNCHANGED available
        /\ hold' = [hold EXCEPT ![b] = @ - Amount[r]]
        /\ treasury' = [treasury EXCEPT ![c] = @ + (Amount[r] - Fee[r])]
        /\ feeVault' = [feeVault EXCEPT ![c] = @ + Fee[r]]
    BY <1>1, <1>9, FinalizePosts, PayloadType
  <2>2. Entry("fee", r) \notin M
    BY <2>1, EntriesApart
  <2>3. M = E \cup {Entry("finalize", r)}
    OBVIOUS
  <2> HIDE DEF E, F, M, r, b, c
  <2>4. E \in SUBSET EntryRows /\ IsFiniteSet(E)
    BY <1>1 DEF E
  <2>5. /\ IsFiniteSet(M) /\ M \in SUBSET EntryRows
        /\ PostsUser(E, M, b, 0, -Amount[r]) /\ PostsPlatform(E, M, c, Amount[r], 0)
    BY <1>1, <2>1, <2>3, <2>4, EntryAddsUp DEF b, c
  <2>6. /\ \A a \in Accounts : UserBooks(E, a, available[a], hold[a])
        /\ \A d \in Assets : PlatformBooks(E, d, treasury[d], feeVault[d])
    BY <1>4 DEF E
  <2> DEFINE paid == [treasury EXCEPT ![c] = @ + Amount[r]]
  <2>7. \A a \in Accounts : UserBooks(M, a, available'[a], hold'[a])
    <3>1. \A a \in Accounts :
            /\ available'[a] = IF a = b THEN available[a] + 0 ELSE available[a]
            /\ hold'[a] = IF a = b THEN hold[a] + (-Amount[r]) ELSE hold[a]
      BY <1>5, <2>1
    <3> QED BY <1>5, <2>1, <2>5, <2>6, <3>1, AccountsFollow
  <2>8. \A d \in Assets : PlatformBooks(M, d, paid[d], feeVault[d])
    <3>1. \A d \in Assets :
            /\ paid[d] = IF d = c THEN treasury[d] + Amount[r] ELSE treasury[d]
            /\ feeVault[d] = IF d = c THEN feeVault[d] + 0 ELSE feeVault[d]
      BY <1>5
    <3> HIDE DEF paid
    <3> QED BY <1>5, <2>1, <2>5, <2>6, <3>1, VaultsFollow
  <2>9. /\ paid \in [Assets -> Int] /\ available' \in [Accounts -> Int]
        /\ hold' \in [Accounts -> Int]
    <3>1. paid \in [Assets -> Int]
      <4>1. Amount[r] \in Int
        BY <1>5, <2>1
      <4>2. \A d \in Assets : treasury[d] + Amount[r] \in Int
        BY <1>5, <4>1
      <4>3. c \in Assets
        BY <2>1, PayloadType DEF c
      <4> QED BY <1>5, <4>2, <4>3
    <3>2. hold' \in [Accounts -> Int]
      BY <1>5, <2>1
    <3>3. available' \in [Accounts -> Int]
      BY <1>5, <2>1
    <3> QED BY <3>1, <3>2, <3>3
  <2>10. /\ \A d \in Assets : d = c => treasury'[d] = paid[d] + (-Fee[r]) /\ feeVault'[d] = feeVault[d] + Fee[r]
         /\ \A d \in Assets : d # c => treasury'[d] = paid[d] /\ feeVault'[d] = feeVault[d]
    BY <1>5, <2>1
  <2> HIDE DEF paid
  <2>11. CASE Fee[r] = 0
    <3>1. F = M
      BY <2>1, <2>11
    <3>2. \A d \in Assets : treasury'[d] = paid[d] /\ feeVault'[d] = feeVault[d]
      BY <1>5, <2>9, <2>10, <2>11
    <3>3. \A d \in Assets : PlatformBooks(M, d, treasury'[d], feeVault'[d])
      BY Zenon, <2>8, <3>2
    <3> QED BY Zenon, <1>3, <2>5, <2>7, <3>1, <3>3 DEF F
  <2>12. CASE Fee[r] # 0
    <3>1. F = M \cup {Entry("fee", r)}
      BY <2>1, <2>12
    <3>2. /\ IsFiniteSet(F) /\ PostsUser(M, F, b, 0, 0) /\ PostsPlatform(M, F, c, -Fee[r], Fee[r])
      BY <1>1, <2>1, <2>2, <2>5, <3>1, EntryAddsUp DEF b, c
    <3>3. \A a \in Accounts : UserBooks(F, a, available'[a], hold'[a])
      <4>1. \A a \in Accounts :
              /\ available'[a] = IF a = b THEN available'[a] + 0 ELSE available'[a]
              /\ hold'[a] = IF a = b THEN hold'[a] + 0 ELSE hold'[a]
        BY <2>9
      <4> QED BY <2>7, <2>9, <3>2, <4>1, AccountsFollow
    <3>4. \A d \in Assets : PlatformBooks(F, d, treasury'[d], feeVault'[d])
      <4>1. \A d \in Assets :
              /\ treasury'[d] = IF d = c THEN paid[d] + (-Fee[r]) ELSE paid[d]
              /\ feeVault'[d] = IF d = c THEN feeVault[d] + Fee[r] ELSE feeVault[d]
        BY <2>10
      <4>2. (-Fee[r]) \in Int /\ Fee[r] \in Int
        BY <1>5, <2>1
      <4> QED BY <1>5, <2>8, <2>9, <3>2, <4>1, <4>2, VaultsFollow
    <3> QED BY <1>3, <3>2, <3>3, <3>4 DEF F
  <2> QED BY <2>11, <2>12
<1>10. ASSUME NEW v \in Reviewers, RejectCommit(v)
       PROVE  IsFiniteSet(entries)' /\ BooksBalance'
  <2>1. review[v].req \in Requests
    BY <1>10, ReviewMoves DEF RejectCommit, TypeOK
  <2> QED BY <1>8, <1>10, <2>1
<1>11. CASE Revert /\ entries' # entries
  <2>1. worker.cur \in Requests
    BY <1>11, WorkerMoves DEF Revert, Here, TypeOK
  <2> QED BY <1>8, <1>11, <2>1
<1> QED BY <1>6, <1>7, <1>9, <1>10, <1>11, Postings

\* Every balance is its opening value plus and minus the entries posted to it,
\* whatever fails, crashes or overlaps, as long as no other transaction of the
\* account comes between the reading and the writing of a rejection, and no key
\* is cut whose withdrawal has a fee.
THEOREM BooksBalanceCorrect ==
  ASSUME "race_reject" \notin Hazards, \A q \in LongKeys : Fee[q] = 0
  PROVE  Spec => []BooksBalance
<1>1. Init => BooksInv
  <2>1. \A kinds, a : Booked({}, kinds, a) = 0
    <3> TAKE kinds, a
    <3>1. {e \in {} : e.kind \in kinds /\ EntryAcct(e) = a} = {}
      OBVIOUS
    <3> QED BY Zenon, <3>1, TotalOfNone DEF Booked
  <2>2. \A kind, c : BookedPlatform({}, kind, c) = 0
    <3> TAKE kind, c
    <3>1. {e \in {} : e.kind = kind /\ AssetOf[e.req] = c} = {}
      OBVIOUS
    <3> QED BY Zenon, <3>1, TotalOfNone DEF BookedPlatform
  <2>3. Init => BooksBalance
    <3> SUFFICES ASSUME Init PROVE BooksBalance
      OBVIOUS
    <3>1. /\ \A kinds, a : Posted(kinds, a) = 0
          /\ \A kind, c : PostedPlatform(kind, c) = 0
      BY Zenon, <2>1, <2>2 DEF Init, Posted, PostedPlatform, Booked, BookedPlatform
    <3> QED BY <3>1, PayloadAssumption DEF Init, BooksBalance
  <2>4. Init => Filed
    BY DEF Init, Filed, Entered, Idle, Asleep
  <2> QED BY <2>3, <2>4, FS_EmptySet DEF Init, BooksInv
<1>2. TypeOK /\ ReadsHold /\ BooksInv /\ [Next]_vars => BooksInv'
  BY FiledKept, BooksKept DEF BooksInv
<1>3. BooksInv => BooksBalance
  BY DEF BooksInv
<1> QED BY <1>1, <1>2, <1>3, TypeCorrect, ReadsHoldCorrect, PTL DEF Spec

-------------------------------------------------------------------------------
(* The hold account and the open requests.                                   *)

\* With reviews of one request one after the other, a request is filed, moves on
\* among the open statuses, or is decided by a posting to the ledger.
LEMMA StatusMoves ==
  ASSUME TypeOK, SettlementInv, [Next]_vars
  PROVE  \/ UNCHANGED <<status, ledger>>
         \/ /\ UNCHANGED <<ledger, txs>>
            /\ \E r \in Requests, s \in Open :
                 status[r] \in Open /\ status' = [status EXCEPT ![r] = s]
         \/ \E r \in Requests : SubmitHold(r)
         \/ \E v \in Reviewers : RejectCommit(v) /\ status[review[v].req] \in Open
         \/ Finalize /\ status[worker.cur] \in Open /\ entries' # entries
         \/ Revert /\ status[worker.cur] \in Open /\ entries' # entries
<1> USE DEF requestVars
<1>1. ASSUME NEW r \in Requests, Submit(r)
      PROVE  UNCHANGED <<status, ledger>> \/ SubmitHold(r)
  BY <1>1 DEF Submit, SubmitCheck, SubmitNothing
<1>2. ASSUME NEW v \in Reviewers, Decide(v)
      PROVE  \/ UNCHANGED <<status, ledger>>
             \/ RejectCommit(v) /\ status[review[v].req] \in Open
             \/ Approve(v)
  BY <1>2 DEF Decide, RejectRead, RejectCommit, RejectRefused, SettlementInv, ReviewsPending, Open
<1>3. ASSUME NEW v \in Reviewers, Approve(v)
      PROVE  /\ UNCHANGED <<ledger, txs>>
             /\ \E r \in Requests, s \in Open :
                  status[r] \in Open /\ status' = [status EXCEPT ![r] = s]
  <2>1. /\ review[v].req \in Requests /\ status[review[v].req] \in Open
        /\ "approved" \in Open
    BY <1>3, ReviewMoves DEF Approve, TypeOK, SettlementInv, ReviewsPending, Open
  <2> QED BY <1>3, <2>1 DEF Approve
<1>4. CASE WorkerStep
  <2>1. worker.pc # "next" => worker.cur \in Requests /\ status[worker.cur] = "broadcasting"
    BY WorkerMoves DEF SettlementInv, InHand, TypeOK
  <2>2. "broadcasting" \in Open /\ "approved" \in Open
    BY DEF Open
  <2>3. ASSUME NEW r \in Requests, Claim(r)
        PROVE  /\ UNCHANGED <<ledger, txs>>
               /\ status[r] \in Open /\ status' = [status EXCEPT ![r] = "broadcasting"]
    BY <2>2, <2>3 DEF Claim, ToBroadcast
  <2>4. ASSUME NEW r \in Requests, ClaimLost(r) \/ CheckBroadcast(r)
        PROVE  UNCHANGED <<status, ledger>>
    BY <2>4 DEF ClaimLost, CheckBroadcast
  <2>5. CASE RecordHash \/ (\E stored \in BOOLEAN : RecordError(stored))
    <3>1. /\ UNCHANGED <<ledger, txs>> /\ Here("sent")
          /\ status' = status \/ status' = [status EXCEPT ![worker.cur] = "broadcasting"]
      BY <2>5 DEF RecordHash, RecordError
    <3> QED BY <2>1, <2>2, <3>1 DEF Here
  <2>6. CASE Finalize
    <3>1. worker.cur \in Requests /\ status[worker.cur] = "broadcasting"
      BY <2>1, <2>6 DEF Finalize, Here
    <3>2. ~HasKey("finalize", worker.cur)
      BY <3>1, KeyTakenWhenDecided DEF SettlementInv, EntryKinds, Terminal
    <3>3. Entry("finalize", worker.cur) \notin entries
      BY <3>2 DEF HasKey, Entry
    <3>4. Entry("finalize", worker.cur) \in entries'
      BY <2>6, <3>2 DEF Finalize, FinalizePost
    <3> QED BY <2>2, <2>6, <3>1, <3>3, <3>4
  <2>7. CASE Revert
    <3>1. worker.cur \in Requests /\ status[worker.cur] = "broadcasting"
      BY <2>1, <2>7 DEF Revert, Here
    <3>2. ~HasKey("revert", worker.cur)
      BY <3>1, KeyTakenWhenDecided DEF SettlementInv, EntryKinds, Terminal
    <3>3. Entry("revert", worker.cur) \notin entries
      BY <3>2 DEF HasKey, Entry
    <3>4. Entry("revert", worker.cur) \in entries'
      BY <2>7, <3>2 DEF Revert, RevertPost
    <3> QED BY <2>2, <2>7, <3>1, <3>3, <3>4
  <2>8. CASE \/ ListBroadcasting \/ EndTick \/ Prepare \/ Transfer
             \/ TransferRefused \/ TransferLateError \/ NoReceipt \/ Receipt
             \/ FinalizeStale \/ FinalizeError \/ RevertStale \/ AbortTick
    BY <2>8 DEF ListBroadcasting, EndTick, Prepare, Transfer, TransferRefused,
                TransferLateError, NoReceipt, Receipt, FinalizeStale, FinalizeError,
                RevertStale, AbortTick
  <2>9. CASE \E r \in Requests : Claim(r)
    BY <2>2, <2>3, <2>9
  <2> QED BY <1>4, <2>4, <2>5, <2>6, <2>7, <2>8, <2>9 DEF WorkerStep
<1>5. ASSUME NEW v \in Reviewers, NEW r \in Requests, NEW d \in {"approve", "reject"},
             ReviewRead(v, r, d)
      PROVE  UNCHANGED <<status, ledger>>
  BY <1>5 DEF ReviewRead
<1>6. ASSUME NEW r \in Requests, NEW o \in {"success", "failed"}, Mine(r, o)
      PROVE  UNCHANGED <<status, ledger>>
  BY <1>6 DEF Mine
<1>7. CASE ListApproved \/ Crash \/ (\E u \in Users : SetWallet(u)) \/ UNCHANGED vars
  BY <1>7 DEF ListApproved, Crash, SetWallet, vars, ledger
<1>8. CASE \E v \in Reviewers : Decide(v)
  BY <1>2, <1>3, <1>8
<1> QED BY <1>1, <1>4, <1>5, <1>6, <1>7, <1>8 DEF Next

\* Only finitely many requests are filed at any time.
Filings == {r \in Requests : status[r] # "none"}

LEMMA FilingsFinite ==
  ASSUME "race_review" \notin Hazards
  PROVE  Spec => []IsFiniteSet(Filings)
<1>1. Init => IsFiniteSet(Filings)
  <2>1. Init => Filings = {}
    BY DEF Init, Filings
  <2> QED BY <2>1, FS_EmptySet
<1>2. TypeOK /\ SettlementInv /\ IsFiniteSet(Filings) /\ [Next]_vars => IsFiniteSet(Filings)'
  <2> SUFFICES ASSUME TypeOK, SettlementInv, IsFiniteSet(Filings), [Next]_vars
               PROVE  IsFiniteSet(Filings')
    OBVIOUS
  <2>1. PICK q : \A r \in Requests : status'[r] # status[r] => r = q \/ status[r] # "none"
    <3>1. \A s, r : status' = [status EXCEPT ![r] = s] =>
            \A p \in Requests : status'[p] # status[p] => p = r
      BY DEF TypeOK
    <3> QED BY <3>1, StatusMoves DEF SubmitHold, RejectCommit, Finalize, Revert
  <2>2. Filings' \subseteq Filings \cup {q}
    BY <2>1 DEF Filings
  <2>3. IsFiniteSet(Filings \cup {q})
    BY FS_AddElement
  <2> QED BY <2>2, <2>3, FS_Subset
<1> QED BY <1>1, <1>2, SettlementCorrect, PTL DEF Spec

\* What the requests of T keep on hold in an account, and one more of them.
OpenNow == {r \in Requests : status[r] \in Open}
HeldAmong(T, a) == Total(Amount, {r \in T : Acct(r) = a})

LEMMA OneMoreHeld ==
  ASSUME NEW T \in SUBSET Requests, IsFiniteSet(T), NEW z \in Requests \ T, NEW a
  PROVE  /\ HeldAmong(T, a) \in Int
         /\ \A U : U = T \cup {z} =>
              HeldAmong(U, a) = HeldAmong(T, a) + (IF Acct(z) = a THEN Amount[z] ELSE 0)
<1> DEFINE P == {r \in Requests : Acct(r) = a}  U == T \cup {z}
<1>1. {r \in T : Acct(r) = a} = T \cap P /\ {r \in U : Acct(r) = a} = U \cap P
  OBVIOUS
<1>2. HeldAmong(T, a) = Total(Amount, T \cap P) /\ HeldAmong(U, a) = Total(Amount, U \cap P)
  BY Zenon, <1>1 DEF HeldAmong
<1>3. z \in P <=> Acct(z) = a
  OBVIOUS
<1> HIDE DEF P
<1>4. \A r \in Requests : Amount[r] \in Int
  BY PayloadAssumption
<1>5. /\ Total(Amount, T \cap P) \in Int
      /\ Total(Amount, U \cap P)
           = Total(Amount, T \cap P) + (IF z \in P THEN Amount[z] ELSE 0)
  BY <1>4, TotalOfSelected
<1> HIDE DEF U
<1>6. HeldAmong(U, a) = HeldAmong(T, a) + (IF Acct(z) = a THEN Amount[z] ELSE 0)
  BY <1>2, <1>3, <1>5
<1> QED BY Zenon, <1>2, <1>5, <1>6 DEF U

\* The hold account of a user is at every moment the sum of his undecided
\* requests in that asset: nothing is stranded by a decision, nothing released
\* before it.  It takes review calls of one request one after the other, no
\* transaction inside a rejection's, and withdrawals in the asset of which a
\* rejection's account is.
THEOREM HoldsCoverOpenRequestsCorrect ==
  ASSUME "race_review" \notin Hazards, "race_reject" \notin Hazards,
         \A r \in Requests : AssetOf[r] = BNT
  PROVE  Spec => []HoldsCoverOpenRequests
<1> DEFINE Covers(T, h) == \A a \in Accounts : h[a] = HeldAmong(T, a)
<1>1. /\ HoldsCoverOpenRequests <=> Covers(OpenNow, hold)
      /\ HoldsCoverOpenRequests' <=> Covers(OpenNow', hold')
  <2>1. \A a : /\ {r \in Requests : Acct(r) = a /\ status[r] \in Open} = {r \in OpenNow : Acct(r) = a}
               /\ {r \in Requests : Acct(r) = a /\ status'[r] \in Open} = {r \in OpenNow' : Acct(r) = a}
    BY DEF OpenNow
  <2>2. \A a : /\ HeldFor(a) = HeldAmong(OpenNow, a)
               /\ Total(Amount, {r \in Requests : Acct(r) = a /\ status'[r] \in Open})
                    = HeldAmong(OpenNow', a)
    BY Zenon, <2>1 DEF HeldFor, HeldAmong
  <2> QED BY <2>2 DEF HoldsCoverOpenRequests, HeldFor, Acct
<1>2. Init => HoldsCoverOpenRequests
  <2> SUFFICES ASSUME Init PROVE Covers(OpenNow, hold)
    BY <1>1
  <2>1. \A a : {r \in OpenNow : Acct(r) = a} = {}
    BY DEF Init, OpenNow, Open
  <2>2. \A a : HeldAmong(OpenNow, a) = 0
    BY Zenon, <2>1, TotalOfNone DEF HeldAmong
  <2> QED BY <2>2 DEF Init
<1>3. ASSUME TypeOK, SettlementInv, ReadsHold, IsFiniteSet(Filings),
             HoldsCoverOpenRequests, [Next]_vars
      PROVE  HoldsCoverOpenRequests'
  <2>1. IsFiniteSet(OpenNow) /\ OpenNow \in SUBSET Requests
    <3>1. OpenNow \subseteq Filings
      BY DEF OpenNow, Filings, Open
    <3> QED BY <1>3, <3>1, FS_Subset DEF OpenNow
  <2>2. hold \in [Accounts -> Int] /\ \A r \in Requests : Amount[r] \in Int
    BY <1>3, PayloadAssumption DEF TypeOK
  <2>3. ASSUME NEW T, NEW h, T = OpenNow, h = hold, OpenNow' = T, hold' = h
        PROVE  Covers(OpenNow', hold')
    <3>1. Covers(OpenNow, hold)
      BY <1>1, <1>3
    <3> QED BY Zenon, <2>3, <3>1
  <2>4. ASSUME UNCHANGED hold, OpenNow' = OpenNow PROVE HoldsCoverOpenRequests'
    BY Zenon, <1>1, <2>3, <2>4
  <2>5. ASSUME NEW r \in Requests, r \notin OpenNow, OpenNow' = OpenNow \cup {r},
               hold' = [hold EXCEPT ![Acct(r)] = @ + Amount[r]]
        PROVE  HoldsCoverOpenRequests'
    <3> SUFFICES ASSUME NEW a \in Accounts PROVE hold'[a] = HeldAmong(OpenNow', a)
      BY <1>1
    <3> DEFINE b == Acct(r)
    <3>1. hold'[a] = hold[a] + (IF b = a THEN Amount[r] ELSE 0)
      BY <2>2, <2>5
    <3>2. hold[a] = HeldAmong(OpenNow, a)
      BY <1>1, <1>3
    <3>3. HeldAmong(OpenNow', a) = HeldAmong(OpenNow, a) + (IF b = a THEN Amount[r] ELSE 0)
      <4>1. \A U : U = OpenNow \cup {r} =>
              HeldAmong(U, a) = HeldAmong(OpenNow, a) + (IF b = a THEN Amount[r] ELSE 0)
        BY <2>1, <2>5, OneMoreHeld
      <4> QED BY Zenon, <2>5, <4>1
    <3> HIDE DEF b
    <3> QED BY <3>1, <3>2, <3>3
  <2>6. ASSUME NEW r \in Requests, r \in OpenNow, OpenNow' = OpenNow \ {r},
               hold' = [hold EXCEPT ![Acct(r)] = @ - Amount[r]]
        PROVE  HoldsCoverOpenRequests'
    <3> SUFFICES ASSUME NEW a \in Accounts PROVE hold'[a] = HeldAmong(OpenNow', a)
      BY <1>1
    <3> DEFINE b == Acct(r)  T == OpenNow \ {r}
    <3>1. hold'[a] = hold[a] - (IF b = a THEN Amount[r] ELSE 0)
      BY <2>2, <2>6
    <3>2. hold[a] = HeldAmong(OpenNow, a)
      BY <1>1, <1>3
    <3>3. /\ T \in SUBSET Requests /\ IsFiniteSet(T) /\ r \notin T /\ OpenNow = T \cup {r}
          /\ OpenNow' = T
      BY <2>1, <2>6, FS_Subset
    <3>4. /\ HeldAmong(OpenNow, a) = HeldAmong(T, a) + (IF b = a THEN Amount[r] ELSE 0)
          /\ HeldAmong(T, a) \in Int
      <4> HIDE DEF T
      <4>1. /\ HeldAmong(T, a) \in Int
            /\ \A U : U = T \cup {r} =>
                 HeldAmong(U, a) = HeldAmong(T, a) + (IF b = a THEN Amount[r] ELSE 0)
        BY <2>6, <3>3, OneMoreHeld
      <4> QED BY Zenon, <3>3, <4>1
    <3>5. HeldAmong(OpenNow', a) = HeldAmong(T, a)
      BY Zenon, <3>3
    <3> HIDE DEF b, T
    <3> QED BY <2>2, <2>6, <3>1, <3>2, <3>4, <3>5
  <2>7. \A r, s : status' = [status EXCEPT ![r] = s] =>
          \A q \in Requests : status'[q] = IF q = r THEN s ELSE status[q]
    BY <1>3 DEF TypeOK
  <2>8. ASSUME NEW r \in Requests, status[r] \in Open, NEW s \in Terminal,
               status' = [status EXCEPT ![r] = s]
        PROVE  r \in OpenNow /\ OpenNow' = OpenNow \ {r}
    <3>1. r \in OpenNow /\ s \notin Open
      BY <2>8 DEF OpenNow, Open, Terminal
    <3>2. \A q \in Requests : status'[q] \in Open <=> status[q] \in Open /\ q # r
      <4>1. \A q \in Requests : status'[q] = IF q = r THEN s ELSE status[q]
        BY <1>3, <2>8 DEF TypeOK
      <4> QED BY <2>8, <3>1, <4>1
    <3>3. OpenNow' = OpenNow \ {r}
      BY <3>2 DEF OpenNow
    <3> QED BY <3>1, <3>3
  <2>9. CASE UNCHANGED <<status, ledger>>
    BY <2>4, <2>9 DEF OpenNow, ledger
  <2>10. ASSUME NEW r \in Requests, NEW s \in Open, status[r] \in Open,
                status' = [status EXCEPT ![r] = s], UNCHANGED ledger
         PROVE  HoldsCoverOpenRequests'
    <3>1. OpenNow' = OpenNow
      BY <2>7, <2>10 DEF OpenNow
    <3> QED BY <2>4, <2>10, <3>1 DEF ledger
  <2>11. ASSUME NEW r \in Requests, SubmitHold(r) PROVE HoldsCoverOpenRequests'
    <3>1. /\ status[r] = "none" /\ status' = [status EXCEPT ![r] = "pending_review"]
          /\ hold' = [hold EXCEPT ![Acct(r)] = @ + Amount[r]]
      BY <2>11 DEF SubmitHold, IsNew
    <3>2. r \notin OpenNow /\ OpenNow' = OpenNow \cup {r}
      <4>1. "none" \notin Open /\ "pending_review" \in Open
        BY DEF Open
      <4>2. \A q \in Requests : status'[q] \in Open <=> status[q] \in Open \/ q = r
        <5>1. \A q \in Requests : status'[q] = IF q = r THEN "pending_review" ELSE status[q]
          BY <1>3, <3>1 DEF TypeOK
        <5> QED BY <3>1, <4>1, <5>1
      <4> QED BY <3>1, <4>1, <4>2 DEF OpenNow
    <3> QED BY <2>5, <3>1, <3>2
  <2>12. ASSUME NEW v \in Reviewers, RejectCommit(v), status[review[v].req] \in Open
         PROVE  HoldsCoverOpenRequests'
    <3> DEFINE r == review[v].req
    <3>1. r \in Requests /\ hold' = [hold EXCEPT ![RejectAcct(r)] = @ - Amount[r]]
      BY <1>3, <2>12, RejectPosts
    <3>2. status' = [status EXCEPT ![r] = "rejected"] /\ "rejected" \in Terminal
      BY <2>12 DEF RejectCommit, Terminal
    <3>3. RejectAcct(r) = Acct(r)
      BY <3>1 DEF RejectAcct, Acct
    <3>4. hold' = [hold EXCEPT ![Acct(r)] = @ - Amount[r]]
      BY <3>1, <3>3
    <3> HIDE DEF r
    <3>5. r \in OpenNow /\ OpenNow' = OpenNow \ {r}
      BY <2>8, <2>12, <3>1, <3>2 DEF r
    <3> QED BY <2>6, <3>1, <3>4, <3>5
  <2>13. ASSUME (Finalize \/ Revert), status[worker.cur] \in Open, entries' # entries
         PROVE  HoldsCoverOpenRequests'
    <3> DEFINE r == worker.cur
    <3>1. PICK s \in Terminal : status' = [status EXCEPT ![r] = s]
      BY <2>13 DEF Finalize, Revert, Terminal
    <3>2. r \in Requests
      BY <1>3, <2>13, WorkerMoves DEF Finalize, Revert, Here, TypeOK
    <3>3. hold' = [hold EXCEPT ![Acct(r)] = @ - Amount[r]]
      BY <2>13 DEF Finalize, Revert, FinalizePost, RevertPost, ledger
    <3> HIDE DEF r
    <3>4. r \in OpenNow /\ OpenNow' = OpenNow \ {r}
      BY <2>8, <2>13, <3>1, <3>2 DEF r
    <3> QED BY <2>6, <3>2, <3>3, <3>4
  <2> QED BY <1>3, <2>9, <2>10, <2>11, <2>12, <2>13, StatusMoves
<1> QED BY <1>2, <1>3, FilingsFinite, ReadsHoldCorrect, SettlementCorrect, PTL DEF Spec

-------------------------------------------------------------------------------
(* The daily limit.                                                          *)

\* A creation call begins with the check of the limits.
LEMMA ChecksMove ==
  ASSUME [Next]_vars
  PROVE  checked' \subseteq checked \/ \E r \in Requests : SubmitCheck(r)
<1>1. ASSUME NEW r \in Requests, Submit(r)
      PROVE  checked' \subseteq checked \/ SubmitCheck(r)
  BY <1>1 DEF Submit, SubmitHold, SubmitNothing
<1>2. ASSUME NEW v \in Reviewers, Decide(v) PROVE UNCHANGED checked
  BY <1>2 DEF Decide, Approve, RejectRead, RejectCommit, RejectRefused
<1>3. CASE WorkerStep
  <2>1. ASSUME NEW r \in Requests, Claim(r) \/ ClaimLost(r) \/ CheckBroadcast(r)
        PROVE  UNCHANGED checked
    BY <2>1 DEF Claim, ClaimLost, CheckBroadcast
  <2>2. CASE \/ ListBroadcasting \/ EndTick \/ Prepare \/ Transfer
             \/ TransferRefused \/ TransferLateError \/ NoReceipt \/ Receipt
             \/ RecordHash \/ (\E stored \in BOOLEAN : RecordError(stored))
             \/ Finalize \/ FinalizeStale \/ FinalizeError
             \/ Revert \/ RevertStale \/ AbortTick
    BY <2>2 DEF ListBroadcasting, EndTick, Prepare, Transfer, TransferRefused,
                TransferLateError, NoReceipt, Receipt, RecordHash, RecordError,
                Finalize, FinalizeStale, FinalizeError, Revert, RevertStale, AbortTick
  <2> QED BY <1>3, <2>1, <2>2 DEF WorkerStep
<1>4. ASSUME NEW v \in Reviewers, NEW r \in Requests, NEW d \in {"approve", "reject"},
             ReviewRead(v, r, d)
      PROVE  UNCHANGED checked
  BY <1>4 DEF ReviewRead
<1>5. ASSUME NEW r \in Requests, NEW o \in {"success", "failed"}, Mine(r, o)
      PROVE  UNCHANGED checked
  BY <1>5 DEF Mine
<1>6. CASE ListApproved \/ Crash \/ (\E u \in Users : SetWallet(u)) \/ UNCHANGED vars
  BY <1>6 DEF ListApproved, Crash, SetWallet, vars
<1> QED BY <1>1, <1>2, <1>3, <1>4, <1>5, <1>6 DEF Next

\* What counts against the limit: requests not given back, in USD.
LEMMA UsdType == \A r \in Requests : Usd[r] \in Nat
<1> TAKE r \in Requests
<1> DEFINE n == Amount[r]  p == Price[AssetOf[r]]
<1>1. n \in Nat /\ p \in Nat
  BY PayloadAssumption, SettingsAssumption
<1>2. Usd[r] = n * p
  BY DEF Usd
<1> HIDE DEF n, p
<1> QED BY <1>1, <1>2

LEMMA CountedAreKept ==
  ASSUME NEW u
  PROVE  DailyUsed(u) = Total(Usd, Kept(u))
<1>1. {r \in Requests : Owner[r] = u /\ status[r] \in Counted} = Kept(u)
  BY DEF Kept, Counted, Open
<1> QED BY Zenon, <1>1 DEF DailyUsed

LEMMA KeptIsPart ==
  ASSUME IsFiniteSet(Filings), NEW u, NEW T \in SUBSET Kept(u)
  PROVE  /\ IsFiniteSet(Kept(u)) /\ IsFiniteSet(T)
         /\ Total(Usd, T) \in Nat /\ Total(Usd, Kept(u)) \in Nat
         /\ Total(Usd, T) <= Total(Usd, Kept(u))
<1>1. Kept(u) \subseteq Filings /\ Kept(u) \subseteq Requests
  BY DEF Kept, Filings, Open
<1>2. IsFiniteSet(Kept(u)) /\ IsFiniteSet(T)
  BY <1>1, FS_Subset
<1>3. \A r \in Kept(u) : Usd[r] \in Nat
  BY <1>1, UsdType
<1> HIDE DEF Kept
<1> QED BY <1>2, <1>3, TotalOfPart

\* A call past the check still has room for its request, and is its user's only.
LimitInv ==
  /\ WithinDailyLimit
  /\ \A q, r \in checked : q # r => Owner[q] # Owner[r]
  /\ MaxPerDay > 0 => \A r \in checked : status[r] = "none" =>
       Total(Usd, Kept(Owner[r])) + Usd[r] <= MaxPerDay

\* What a user has asked for and not got back stays within his limit, if one of
\* his calls at a time is between the check of the limits and the hold.
THEOREM WithinDailyLimitCorrect ==
  ASSUME "race_review" \notin Hazards, "race_submit" \notin Hazards
  PROVE  Spec => []WithinDailyLimit
<1>1. Init => LimitInv
  <2> SUFFICES ASSUME Init PROVE LimitInv
    OBVIOUS
  <2>1. \A u : Kept(u) = {}
    BY DEF Init, Kept, Open
  <2>2. \A u : Total(Usd, Kept(u)) = 0
    BY Zenon, <2>1, TotalOfNone
  <2> QED BY <2>2, SettingsAssumption DEF Init, LimitInv, WithinDailyLimit
<1>2. ASSUME TypeOK, TypeOK', SettlementInv, IsFiniteSet(Filings), LimitInv, [Next]_vars
      PROVE  LimitInv'
  <2> DEFINE K(u) == Kept(u)  L(u) == Kept(u)'  Sum(T) == Total(Usd, T)
  <2>1. /\ \A u : Kept(u) = K(u) /\ Kept(u)' = L(u)
        /\ WithinDailyLimit' <=> (MaxPerDay > 0 => \A u \in Users : Sum(L(u)) <= MaxPerDay)
        /\ LimitInv' <=>
             /\ WithinDailyLimit'
             /\ \A q, r \in checked' : q # r => Owner[q] # Owner[r]
             /\ MaxPerDay > 0 => \A r \in checked' : status'[r] = "none" =>
                  Sum(L(Owner[r])) + Usd[r] <= MaxPerDay
    BY DEF WithinDailyLimit, LimitInv, Kept
  <2>2. ASSUME NEW u, NEW T \in SUBSET K(u)
        PROVE  Sum(T) \in Nat /\ Sum(K(u)) \in Nat /\ Sum(T) <= Sum(K(u)) /\ IsFiniteSet(T)
    BY <1>2, KeptIsPart
  <2>3. /\ MaxPerDay > 0 => \A u \in Users : Sum(K(u)) <= MaxPerDay
        /\ \A q, r \in checked : q # r => Owner[q] # Owner[r]
        /\ MaxPerDay > 0 => \A r \in checked : status[r] = "none" =>
             Sum(K(Owner[r])) + Usd[r] <= MaxPerDay
    BY <1>2 DEF LimitInv, WithinDailyLimit
  <2>4. /\ checked \subseteq Requests /\ checked' \subseteq Requests
        /\ \A r \in Requests : Owner[r] \in Users /\ Usd[r] \in Nat
        /\ MaxPerDay \in Nat
    BY <1>2, UsdType, PayloadAssumption, SettingsAssumption DEF TypeOK
  <2>5. CASE \E r \in Requests : SubmitHold(r)
    <3> PICK r \in Requests : SubmitHold(r)
      BY <2>5
    <3>1. /\ status[r] = "none" /\ r \in checked /\ checked' = checked \ {r}
          /\ \A q \in Requests : status'[q] = IF q = r THEN "pending_review" ELSE status[q]
      BY <1>2 DEF SubmitHold, IsNew, TypeOK
    <3>2. /\ L(Owner[r]) = K(Owner[r]) \cup {r} /\ r \notin K(Owner[r])
          /\ \A u : u # Owner[r] => L(u) = K(u)
      BY <3>1 DEF Kept, Open
    <3> HIDE DEF K, L
    <3>3. Sum(K(Owner[r]) \cup {r}) = Sum(K(Owner[r])) + Usd[r]
      <4>1. IsFiniteSet(K(Owner[r])) /\ K(Owner[r]) \subseteq Requests
        BY <2>2 DEF K, Kept
      <4>2. Usd[r] \in Int /\ \A q \in K(Owner[r]) : Usd[q] \in Int
        BY <2>4, <4>1
      <4> DEFINE T == K(Owner[r])
      <4>3. IsFiniteSet(T) /\ r \notin T /\ \A q \in T : Usd[q] \in Int
        BY <3>2, <4>1, <4>2
      <4> HIDE DEF T
      <4>4. Total(Usd, T \cup {r}) = Total(Usd, T) + Usd[r]
        BY <4>2, <4>3, TotalWith
      <4> QED BY <4>4 DEF T
    <3>4. Sum(L(Owner[r])) = Sum(K(Owner[r])) + Usd[r]
      BY Zenon, <3>2, <3>3
    <3>5. \A u : u # Owner[r] => Sum(L(u)) = Sum(K(u))
      BY Zenon, <3>2
    <3> HIDE DEF Sum
    <3>6. MaxPerDay > 0 => \A u \in Users : Sum(L(u)) <= MaxPerDay
      BY <2>3, <3>1, <3>4, <3>5
    <3>7. MaxPerDay > 0 => \A q \in checked' : status'[q] = "none" =>
            Sum(L(Owner[q])) + Usd[q] <= MaxPerDay
      BY <2>3, <2>4, <3>1, <3>5
    <3> QED BY <2>1, <2>3, <3>1, <3>6, <3>7
  <2>6. CASE ~\E r \in Requests : SubmitHold(r)
    <3>1. /\ \A r \in Requests : status'[r] \in Open \cup {"confirmed"} =>
               status[r] \in Open \cup {"confirmed"}
          /\ \A r \in Requests : status'[r] = "none" => status[r] = "none"
      <4>1. \/ UNCHANGED status
            \/ \E r \in Requests : status[r] \in Open /\ \E s : status' = [status EXCEPT ![r] = s]
        <5>1. \A v \in Reviewers : RejectCommit(v) => review[v].req \in Requests
          BY <1>2, ReviewMoves DEF RejectCommit, TypeOK
        <5>2. Finalize \/ Revert => worker.cur \in Requests
          BY <1>2, WorkerMoves DEF Finalize, Revert, Here, TypeOK
        <5> QED BY <1>2, <2>6, <5>1, <5>2, StatusMoves DEF RejectCommit, Finalize, Revert
      <4>2. ASSUME NEW r \in Requests, NEW s, status[r] \in Open,
                   status' = [status EXCEPT ![r] = s]
            PROVE  \A q \in Requests : status'[q] = IF q = r THEN s ELSE status[q]
        BY <1>2, <4>2 DEF TypeOK
      <4>3. ASSUME NEW q \in Requests
            PROVE  status'[q] = status[q] \/ status[q] \in Open
        BY <4>1, <4>2
      <4>4. ASSUME NEW q \in Requests, status'[q] = "none"
            PROVE  status[q] = "none"
        BY <1>2, <4>4, RowsStay
      <4> QED BY <4>3, <4>4
    <3>2. \A u : L(u) \subseteq K(u)
      BY <3>1 DEF Kept
    <3> HIDE DEF K, L
    <3>3. \A u : Sum(L(u)) \in Nat /\ Sum(K(u)) \in Nat /\ Sum(L(u)) <= Sum(K(u))
      BY <2>2, <3>2
    <3> HIDE DEF Sum
    <3>4. MaxPerDay > 0 => \A u \in Users : Sum(L(u)) <= MaxPerDay
      BY <2>3, <2>4, <3>3
    <3>5. CASE checked' \subseteq checked
      BY <2>1, <2>3, <2>4, <3>1, <3>3, <3>4, <3>5
    <3>6. ASSUME NEW r \in Requests, SubmitCheck(r) PROVE LimitInv'
      <4>1. /\ checked' = checked \cup {r}
            /\ \A q \in checked : Owner[q] # Owner[r]
            /\ MaxPerDay = 0 \/ DailyUsed(Owner[r]) + Usd[r] <= MaxPerDay
        BY <3>6 DEF SubmitCheck
      <4>2. DailyUsed(Owner[r]) = Sum(K(Owner[r]))
        BY CountedAreKept DEF Sum, K
      <4>3. MaxPerDay > 0 => Sum(K(Owner[r])) + Usd[r] <= MaxPerDay
        BY <2>4, <4>1, <4>2
      <4>4. ASSUME MaxPerDay > 0, NEW q \in checked', status'[q] = "none"
            PROVE  Sum(L(Owner[q])) + Usd[q] <= MaxPerDay
        <5>1. Sum(K(Owner[q])) + Usd[q] <= MaxPerDay
          BY <2>3, <2>4, <3>1, <4>1, <4>3, <4>4
        <5> QED BY <2>4, <3>3, <4>4, <5>1
      <4> QED BY <2>1, <2>3, <3>4, <4>1, <4>4
    <3> QED BY <1>2, <3>5, <3>6, ChecksMove
  <2> QED BY <2>5, <2>6
<1>3. LimitInv => WithinDailyLimit
  BY DEF LimitInv
<1> QED BY <1>1, <1>2, <1>3, FilingsFinite, SettlementCorrect, PTL DEF Spec

-------------------------------------------------------------------------------
(* Where the money is: with the user, on hold, or paid out.                  *)

\* What is left of an account when the requests of T are taken from it.
Left(T, f) == \A a \in Accounts : f[a] + HeldAmong(T, a) = InitialBalance[a]

\* What treasury and fee vault have together earned by the requests of T.
PaidAmong(T, c) == Total(Amount, {r \in T : AssetOf[r] = c})
Earned(T, f, g) == \A c \in Assets : f[c] + g[c] = PaidAmong(T, c)

Spent == {r \in Requests : status[r] \in Open \cup {"confirmed"}}
PaidOut == {r \in Requests : status[r] = "confirmed"}

\* A user can spend what he had, less what he asked for and was not given back.
SpendableIsLeft == Left(Spent, available)

\* Treasury and fee vault have together what was paid out, and nothing else.
EarnedIsPaid == Earned(PaidOut, treasury, feeVault)

\* A request that is taken or given back is the whole change of the account.
LEMMA LeftMoves ==
  ASSUME NEW T \in SUBSET Requests, IsFiniteSet(T), NEW z \in Requests \ T,
         NEW f \in [Accounts -> Int]
  PROVE  /\ Left(T, f) => Left(T \cup {z}, [f EXCEPT ![Acct(z)] = @ - Amount[z]])
         /\ Left(T \cup {z}, f) => Left(T, [f EXCEPT ![Acct(z)] = @ + Amount[z]])
<1> DEFINE b == Acct(z)  U == T \cup {z}
           less == [f EXCEPT ![b] = @ - Amount[z]]  more == [f EXCEPT ![b] = @ + Amount[z]]
<1>1. Amount[z] \in Int
  BY PayloadAssumption
<1>2. ASSUME NEW a \in Accounts
      PROVE  /\ f[a] \in Int /\ HeldAmong(T, a) \in Int
             /\ HeldAmong(U, a) = HeldAmong(T, a) + (IF b = a THEN Amount[z] ELSE 0)
             /\ less[a] = f[a] - (IF b = a THEN Amount[z] ELSE 0)
             /\ more[a] = f[a] + (IF b = a THEN Amount[z] ELSE 0)
  <2>1. /\ HeldAmong(T, a) \in Int
        /\ \A V : V = U =>
             HeldAmong(V, a) = HeldAmong(T, a) + (IF Acct(z) = a THEN Amount[z] ELSE 0)
    BY OneMoreHeld
  <2> HIDE DEF b, U
  <2>2. HeldAmong(U, a) = HeldAmong(T, a) + (IF b = a THEN Amount[z] ELSE 0)
    BY Zenon, <2>1 DEF b
  <2>3. /\ less[a] = f[a] - (IF b = a THEN Amount[z] ELSE 0)
        /\ more[a] = f[a] + (IF b = a THEN Amount[z] ELSE 0)
    BY <1>1
  <2> QED BY <2>1, <2>2, <2>3
<1> HIDE DEF b, U, less, more
<1>3. ASSUME Left(T, f) PROVE Left(U, less)
  <2> SUFFICES ASSUME NEW a \in Accounts PROVE less[a] + HeldAmong(U, a) = InitialBalance[a]
    BY DEF Left
  <2>1. f[a] + HeldAmong(T, a) = InitialBalance[a]
    BY <1>3 DEF Left
  <2> QED BY <1>1, <1>2, <2>1
<1>4. ASSUME Left(U, f) PROVE Left(T, more)
  <2> SUFFICES ASSUME NEW a \in Accounts PROVE more[a] + HeldAmong(T, a) = InitialBalance[a]
    BY DEF Left
  <2>1. f[a] + HeldAmong(U, a) = InitialBalance[a]
    BY <1>4 DEF Left
  <2> QED BY <1>1, <1>2, <2>1
<1> QED BY Zenon, <1>3, <1>4 DEF U, b, less, more

\* A settlement earns its amount, the fee included.
LEMMA EarnedMoves ==
  ASSUME NEW T \in SUBSET Requests, IsFiniteSet(T), NEW z \in Requests \ T,
         NEW f \in [Assets -> Int], NEW g \in [Assets -> Int], Earned(T, f, g)
  PROVE  Earned(T \cup {z}, [f EXCEPT ![AssetOf[z]] = @ + Net(z)],
                            [g EXCEPT ![AssetOf[z]] = @ + Fee[z]])
<1> DEFINE b == AssetOf[z]  U == T \cup {z}
           F == [f EXCEPT ![b] = @ + Net(z)]  G == [g EXCEPT ![b] = @ + Fee[z]]
<1>1. /\ Amount[z] \in Int /\ Fee[z] \in Int /\ Net(z) = Amount[z] - Fee[z]
      /\ \A r \in Requests : Amount[r] \in Int
  BY PayloadAssumption DEF Net
<1>2. ASSUME NEW c \in Assets
      PROVE  /\ PaidAmong(T, c) \in Int
             /\ PaidAmong(U, c) = PaidAmong(T, c) + (IF b = c THEN Amount[z] ELSE 0)
  <2> DEFINE P == {r \in Requests : AssetOf[r] = c}
  <2>1. {r \in T : AssetOf[r] = c} = T \cap P /\ {r \in U : AssetOf[r] = c} = U \cap P
    OBVIOUS
  <2>2. PaidAmong(T, c) = Total(Amount, T \cap P) /\ PaidAmong(U, c) = Total(Amount, U \cap P)
    BY Zenon, <2>1 DEF PaidAmong
  <2>3. z \in P <=> b = c
    OBVIOUS
  <2> HIDE DEF P, b
  <2>4. /\ Total(Amount, T \cap P) \in Int
        /\ Total(Amount, U \cap P)
             = Total(Amount, T \cap P) + (IF z \in P THEN Amount[z] ELSE 0)
    BY <1>1, TotalOfSelected
  <2> QED BY <2>2, <2>3, <2>4
<1> SUFFICES ASSUME NEW c \in Assets PROVE F[c] + G[c] = PaidAmong(U, c)
  BY DEF Earned
<1>3. /\ F[c] = f[c] + (IF b = c THEN Amount[z] - Fee[z] ELSE 0)
      /\ G[c] = g[c] + (IF b = c THEN Fee[z] ELSE 0)
  BY <1>1
<1>4. f[c] \in Int /\ g[c] \in Int /\ f[c] + g[c] = PaidAmong(T, c)
  BY DEF Earned
<1> HIDE DEF b, U, F, G
<1> QED BY <1>1, <1>2, <1>3, <1>4

\* The requests spent and paid out, when one of them changes its status.
LEMMA SelectionMoves ==
  ASSUME TypeOK, NEW r \in Requests, NEW s, status' = [status EXCEPT ![r] = s]
  PROVE  /\ s \in Open \cup {"confirmed"} => Spent' = Spent \cup {r}
         /\ s \notin Open \cup {"confirmed"} => Spent' = Spent \ {r}
         /\ s = "confirmed" => PaidOut' = PaidOut \cup {r}
         /\ s # "confirmed" => PaidOut' = PaidOut \ {r}
<1>1. \A q \in Requests : status'[q] = IF q = r THEN s ELSE status[q]
  BY DEF TypeOK
<1>2. /\ s \in Open \cup {"confirmed"} => Spent' = Spent \cup {r}
      /\ s \notin Open \cup {"confirmed"} => Spent' = Spent \ {r}
  BY <1>1 DEF Spent
<1>3. /\ s = "confirmed" => PaidOut' = PaidOut \cup {r}
      /\ s # "confirmed" => PaidOut' = PaidOut \ {r}
  BY <1>1 DEF PaidOut
<1> QED BY <1>2, <1>3

\* What was asked for or paid out is filed, so there is only so much of it.
LEMMA SpentFinite ==
  ASSUME IsFiniteSet(Filings)
  PROVE  /\ IsFiniteSet(Spent) /\ Spent \in SUBSET Requests
         /\ IsFiniteSet(PaidOut) /\ PaidOut \in SUBSET Requests
<1>1. Spent \subseteq Filings /\ PaidOut \subseteq Filings
  BY DEF Spent, PaidOut, Filings, Open
<1> QED BY <1>1, FS_Subset DEF Spent, PaidOut

\* At every moment what a user can spend is his first balance less the requests
\* that are open or confirmed: a decision gives back all that was taken, once,
\* and a confirmation nothing.  The hypotheses are those of the hold account.
THEOREM SpendableIsLeftCorrect ==
  ASSUME "race_review" \notin Hazards, "race_reject" \notin Hazards,
         \A r \in Requests : AssetOf[r] = BNT
  PROVE  Spec => []SpendableIsLeft
<1>1. Init => SpendableIsLeft
  <2> SUFFICES ASSUME Init, NEW a \in Accounts
               PROVE  available[a] + HeldAmong(Spent, a) = InitialBalance[a]
    BY DEF SpendableIsLeft, Left
  <2>1. {r \in Spent : Acct(r) = a} = {}
    BY DEF Init, Spent, Open
  <2>2. HeldAmong(Spent, a) = 0
    BY Zenon, <2>1, TotalOfNone DEF HeldAmong
  <2>3. available[a] = InitialBalance[a] /\ InitialBalance[a] \in Int
    BY PayloadAssumption DEF Init
  <2> QED BY <2>2, <2>3
<1>2. ASSUME TypeOK, SettlementInv, ReadsHold, IsFiniteSet(Filings),
             SpendableIsLeft, [Next]_vars
      PROVE  SpendableIsLeft'
  <2> DEFINE S == Spent  T == Spent'  f == available  g == available'
  <2>1. /\ IsFiniteSet(S) /\ S \in SUBSET Requests
        /\ f \in [Accounts -> Int] /\ Left(S, f)
        /\ SpendableIsLeft' <=> Left(T, g)
    <3>1. IsFiniteSet(Spent) /\ Spent \in SUBSET Requests
      BY <1>2, SpentFinite
    <3> QED BY <1>2, <3>1 DEF TypeOK, SpendableIsLeft, Left, HeldAmong, Acct
  <2>2. \A r \in Requests : \A s : status' = [status EXCEPT ![r] = s] =>
          /\ s \in Open \cup {"confirmed"} => T = S \cup {r}
          /\ s \notin Open \cup {"confirmed"} => T = S \ {r}
    BY <1>2, SelectionMoves
  <2>3. \A r \in Requests : r \in S <=> status[r] \in Open \cup {"confirmed"}
    BY DEF Spent
  <2>4. UNCHANGED status => T = S
    BY DEF Spent
  <2> HIDE DEF S, T, f, g
  <2>5. ASSUME T = S, g = f PROVE Left(T, g)
    BY Zenon, <2>1, <2>5
  <2>6. ASSUME NEW r \in Requests, r \notin S, T = S \cup {r},
               g = [f EXCEPT ![Acct(r)] = @ - Amount[r]]
        PROVE  Left(T, g)
    <3>1. Left(S, f) => Left(S \cup {r}, [f EXCEPT ![Acct(r)] = @ - Amount[r]])
      BY <2>1, <2>6, LeftMoves
    <3> QED BY Zenon, <2>1, <2>6, <3>1
  <2>7. ASSUME NEW r \in Requests, r \in S, T = S \ {r},
               g = [f EXCEPT ![Acct(r)] = @ + Amount[r]]
        PROVE  Left(T, g)
    <3>1. /\ T \in SUBSET Requests /\ IsFiniteSet(T) /\ r \in Requests \ T
          /\ T \cup {r} = S
      BY <2>1, <2>7, FS_Subset
    <3>2. Left(T \cup {r}, f) => Left(T, [f EXCEPT ![Acct(r)] = @ + Amount[r]])
      BY <2>1, <3>1, LeftMoves
    <3> QED BY Zenon, <2>1, <2>7, <3>1, <3>2
  <2>8. CASE UNCHANGED <<status, ledger>>
    BY <2>1, <2>4, <2>5, <2>8 DEF ledger, f, g
  <2>9. ASSUME NEW r \in Requests, NEW s \in Open \cup {"confirmed"}, r \in S,
               status' = [status EXCEPT ![r] = s], UNCHANGED available
        PROVE  SpendableIsLeft'
    <3>1. T = S \cup {r}
      BY Zenon, <2>2, <2>9
    <3>2. S \cup {r} = S
      BY <2>9
    <3> QED BY Zenon, <2>1, <2>5, <2>9, <3>1, <3>2 DEF f, g
  <2>10. ASSUME NEW r \in Requests, NEW s \in {"rejected", "reverted"}, r \in S,
                status' = [status EXCEPT ![r] = s],
                available' = [available EXCEPT ![Acct(r)] = @ + Amount[r]]
         PROVE  SpendableIsLeft'
    <3>1. T = S \ {r}
      BY <2>2, <2>10 DEF Open
    <3> QED BY <2>1, <2>7, <2>10, <3>1 DEF f, g
  <2>11. ASSUME NEW r \in Requests, SubmitHold(r) PROVE SpendableIsLeft'
    <3>1. /\ status[r] = "none" /\ status' = [status EXCEPT ![r] = "pending_review"]
          /\ available' = [available EXCEPT ![Acct(r)] = @ - Amount[r]]
      BY <2>11 DEF SubmitHold, IsNew
    <3>2. r \notin S /\ T = S \cup {r}
      BY <2>2, <2>3, <3>1 DEF Open
    <3> QED BY <2>1, <2>6, <3>1, <3>2 DEF f, g
  <2>12. ASSUME NEW v \in Reviewers, RejectCommit(v), status[review[v].req] \in Open
         PROVE  SpendableIsLeft'
    <3> PICK r : r = review[v].req
      OBVIOUS
    <3>1. r \in Requests /\ available' = [available EXCEPT ![RejectAcct(r)] = @ + Amount[r]]
      BY <1>2, <2>12, RejectPosts
    <3>2. status' = [status EXCEPT ![r] = "rejected"] /\ RejectAcct(r) = Acct(r)
      BY <2>12, <3>1 DEF RejectCommit, RejectAcct, Acct
    <3> QED BY <2>3, <2>10, <2>12, <3>1, <3>2
  <2>13. ASSUME Finalize \/ Revert, status[worker.cur] \in Open, entries' # entries
         PROVE  SpendableIsLeft'
    <3> PICK r : r = worker.cur
      OBVIOUS
    <3>1. r \in Requests
      BY <1>2, <2>13, WorkerMoves DEF Finalize, Revert, Here, TypeOK
    <3>2. CASE Finalize
      <4>1. status' = [status EXCEPT ![r] = "confirmed"] /\ UNCHANGED available
        BY <2>13, <3>2 DEF Finalize, FinalizePost, ledger
      <4> QED BY <2>3, <2>9, <2>13, <3>1, <4>1
    <3>3. CASE Revert
      <4>1. available' = [available EXCEPT ![Acct(r)] = @ + Amount[r]]
        BY <1>2, <2>13, <3>3, RevertPosts
      <4>2. status' = [status EXCEPT ![r] = "reverted"]
        BY <3>3 DEF Revert
      <4> QED BY <2>3, <2>10, <2>13, <3>1, <4>1, <4>2
    <3> QED BY <2>13, <3>2, <3>3
  <2>14. ASSUME NEW r \in Requests, NEW s \in Open, status[r] \in Open,
                status' = [status EXCEPT ![r] = s], UNCHANGED <<ledger, txs>>
         PROVE  SpendableIsLeft'
    BY <2>3, <2>9, <2>14 DEF ledger
  <2> QED BY <1>2, <2>8, <2>11, <2>12, <2>13, <2>14, StatusMoves
<1> QED BY <1>1, <1>2, FilingsFinite, ReadsHoldCorrect, SettlementCorrect, PTL DEF Spec

\* Treasury and fee vault of an asset have together earned the confirmed requests
\* in it, fees included and each once, however ticks are repeated or cut short.
THEOREM EarnedIsPaidCorrect ==
  ASSUME "race_review" \notin Hazards
  PROVE  Spec => []EarnedIsPaid
<1>1. Init => EarnedIsPaid
  <2> SUFFICES ASSUME Init, NEW c \in Assets
               PROVE  treasury[c] + feeVault[c] = PaidAmong(PaidOut, c)
    BY DEF EarnedIsPaid, Earned
  <2>1. {r \in PaidOut : AssetOf[r] = c} = {}
    BY DEF Init, PaidOut
  <2>2. PaidAmong(PaidOut, c) = 0
    BY Zenon, <2>1, TotalOfNone DEF PaidAmong
  <2> QED BY <2>2 DEF Init
<1>2. ASSUME TypeOK, SettlementInv, IsFiniteSet(Filings), EarnedIsPaid, [Next]_vars
      PROVE  EarnedIsPaid'
  <2> DEFINE S == PaidOut  T == PaidOut'
  <2>1. /\ IsFiniteSet(S) /\ S \in SUBSET Requests
        /\ treasury \in [Assets -> Int] /\ feeVault \in [Assets -> Int]
        /\ Earned(S, treasury, feeVault)
        /\ EarnedIsPaid' <=> Earned(T, treasury', feeVault')
    <3>1. IsFiniteSet(PaidOut) /\ PaidOut \in SUBSET Requests
      BY <1>2, SpentFinite
    <3> QED BY <1>2, <3>1 DEF TypeOK, EarnedIsPaid, Earned, PaidAmong
  <2>2. \A r \in Requests : \A s : status' = [status EXCEPT ![r] = s] =>
          /\ s = "confirmed" => T = S \cup {r}
          /\ s # "confirmed" => T = S \ {r}
    BY <1>2, SelectionMoves
  <2>3. \A r \in Requests : r \in S <=> status[r] = "confirmed"
    BY DEF PaidOut
  <2>4. UNCHANGED status => T = S
    BY DEF PaidOut
  <2> HIDE DEF S, T
  <2>5. ASSUME T = S, UNCHANGED <<treasury, feeVault>> PROVE EarnedIsPaid'
    BY <2>1, <2>5
  <2>6. ASSUME NEW r \in Requests, NEW s \in Statuses \ {"confirmed"}, r \notin S,
               status' = [status EXCEPT ![r] = s], UNCHANGED <<treasury, feeVault>>
        PROVE  EarnedIsPaid'
    <3>1. T = S \ {r}
      BY Zenon, <2>2, <2>6
    <3>2. S \ {r} = S
      BY <2>6
    <3> QED BY <2>5, <2>6, <3>1, <3>2
  <2>7. ASSUME NEW r \in Requests, r \notin S, status' = [status EXCEPT ![r] = "confirmed"],
               treasury' = [treasury EXCEPT ![AssetOf[r]] = @ + Net(r)],
               feeVault' = [feeVault EXCEPT ![AssetOf[r]] = @ + Fee[r]]
        PROVE  EarnedIsPaid'
    <3>1. T = S \cup {r}
      BY <2>2, <2>7
    <3>2. Earned(S \cup {r}, [treasury EXCEPT ![AssetOf[r]] = @ + Net(r)],
                             [feeVault EXCEPT ![AssetOf[r]] = @ + Fee[r]])
      BY <2>1, <2>7, EarnedMoves
    <3> QED BY Zenon, <2>1, <2>7, <3>1, <3>2
  <2>8. CASE UNCHANGED <<status, ledger>>
    BY <2>4, <2>5, <2>8 DEF ledger
  <2>9. ASSUME NEW r \in Requests, SubmitHold(r) PROVE EarnedIsPaid'
    <3>1. /\ status[r] = "none" /\ status' = [status EXCEPT ![r] = "pending_review"]
          /\ UNCHANGED <<treasury, feeVault>>
      BY <2>9 DEF SubmitHold, IsNew
    <3> QED BY <2>3, <2>6, <3>1 DEF Statuses
  <2>10. ASSUME NEW v \in Reviewers, RejectCommit(v), status[review[v].req] \in Open
         PROVE  EarnedIsPaid'
    <3> PICK r : r = review[v].req
      OBVIOUS
    <3>1. /\ r \in Requests /\ status' = [status EXCEPT ![r] = "rejected"]
          /\ UNCHANGED <<treasury, feeVault>>
      BY <1>2, <2>10, ReviewMoves DEF RejectCommit, TypeOK
    <3> QED BY <2>3, <2>6, <2>10, <3>1 DEF Open, Statuses
  <2>11. ASSUME Finalize, status[worker.cur] \in Open, entries' # entries
         PROVE  EarnedIsPaid'
    <3> PICK r : r = worker.cur
      OBVIOUS
    <3>1. r \in Requests
      BY <1>2, <2>11, WorkerMoves DEF Finalize, Here, TypeOK
    <3>2. FinalizePost(r) /\ status' = [status EXCEPT ![r] = "confirmed"]
      BY <2>11 DEF Finalize, ledger
    <3> QED BY <2>3, <2>7, <2>11, <3>1, <3>2 DEF FinalizePost, Open
  <2>12. ASSUME Revert, status[worker.cur] \in Open, entries' # entries
         PROVE  EarnedIsPaid'
    <3> PICK r : r = worker.cur
      OBVIOUS
    <3>1. /\ r \in Requests /\ status' = [status EXCEPT ![r] = "reverted"]
          /\ UNCHANGED <<treasury, feeVault>>
      BY <1>2, <2>12, WorkerMoves DEF Revert, RevertPost, Here, ledger, TypeOK
    <3> QED BY <2>3, <2>6, <2>12, <3>1 DEF Open, Statuses
  <2>13. ASSUME NEW r \in Requests, NEW s \in Open, status[r] \in Open,
                status' = [status EXCEPT ![r] = s], UNCHANGED <<ledger, txs>>
         PROVE  EarnedIsPaid'
    BY <2>3, <2>6, <2>13 DEF ledger, Open, Statuses
  <2> QED BY <1>2, <2>8, <2>9, <2>10, <2>11, <2>12, <2>13, StatusMoves
<1> QED BY <1>1, <1>2, FilingsFinite, SettlementCorrect, PTL DEF Spec
=============================================================================
