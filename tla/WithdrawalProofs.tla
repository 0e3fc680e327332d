--------------------------- MODULE WithdrawalProofs ---------------------------
(***************************************************************************)
(* Proofs about Withdrawal for every set of requests, users, assets,       *)
(* reviewers and every payload.                                            *)
(***************************************************************************)
EXTENDS WithdrawalProperties, TLAPS

\* The payload functions have the types their names say.
LEMMA PayloadType ==
  ASSUME NEW r \in Requests
  PROVE  /\ Acct(r) \in Accounts /\ RejectAcct(r) \in Accounts
         /\ AssetOf[r] \in Assets
         /\ Amount[r] \in Int /\ Fee[r] \in Int
BY PayloadAssumption DEF Acct, RejectAcct, Accounts

\* An entry of the ledger is well typed.
LEMMA EntryType ==
  ASSUME NEW k \in EntryKinds, NEW r \in Requests
  PROVE  Entry(k, r) \in EntryRows
BY DEF EntryRows

\* The worker's moves keep it a worker state.
LEMMA WorkerMoves ==
  ASSUME worker \in WorkerStates
  PROVE  /\ \A pc \in BusyPcs :
              worker.pc # "next" /\ Goto(pc) => worker' \in WorkerStates
         /\ NextInList => worker' \in WorkerStates
         /\ \A r \in Requests, pc \in BusyPcs :
              worker.phase # "idle" /\ Take(r, pc) => worker' \in WorkerStates
         /\ \A r \in Requests : Skip(r) => worker' \in WorkerStates
         /\ Asleep \in WorkerStates
         /\ \A p \in {"approved", "broadcasting"}, S \in SUBSET Requests :
              Listing(p, S) \in WorkerStates
         /\ worker.pc # "next" => worker.cur \in Requests
BY DEF WorkerStates, BusyPcs, Goto, NextInList, Take, Skip, Asleep, Listing

\* What a reviewer at work holds.
LEMMA ReviewMoves ==
  ASSUME review \in [Reviewers -> ReviewStates], NEW v \in Reviewers
  PROVE  /\ Idle \in ReviewStates
         /\ review[v].pc # "idle" =>
              /\ review[v].req \in Requests
              /\ review[v].snap.available \in Int
              /\ review[v].snap.locked \in Int
              /\ review[v].snap.hold \in Int
BY DEF ReviewStates, Idle, NoSnap

\* Every reachable state is well typed; in particular no row ever has the
\* status "requested" or "failed".
THEOREM TypeCorrect == Spec => []TypeOK
<1>1. Init => TypeOK
  BY PayloadAssumption
  DEF Init, TypeOK, Statuses, Idle, NoSnap, Asleep, ReviewStates, WorkerStates,
      BusyPcs
<1>2. TypeOK /\ [Next]_vars => TypeOK'
  <2> SUFFICES ASSUME TypeOK, [Next]_vars PROVE TypeOK'
    OBVIOUS
  <2> USE DEF TypeOK, settings, requestVars, ledger
  <2>1. ASSUME NEW r \in Requests, Submit(r) PROVE TypeOK'
    <3>1. CASE SubmitCheck(r)
      BY <3>1 DEF SubmitCheck
    <3>2. CASE SubmitHold(r)
      <4>1. Entry("hold", r) \in EntryRows
        BY EntryType DEF EntryKinds
      <4> QED BY <3>2, <4>1, PayloadType DEF SubmitHold, Statuses
    <3>3. CASE SubmitNothing(r)
      BY <3>3 DEF SubmitNothing
    <3> QED BY <2>1, <3>1, <3>2, <3>3 DEF Submit
  <2>2. ASSUME NEW v \in Reviewers, NEW r \in Requests,
               NEW d \in {"approve", "reject"}, ReviewRead(v, r, d)
        PROVE  TypeOK'
    <3>1. [pc |-> d, req |-> r, snap |-> NoSnap] \in ReviewStates
      BY DEF ReviewStates, NoSnap
    <3> QED BY <2>2, <3>1 DEF ReviewRead
  <2>3. ASSUME NEW v \in Reviewers, Decide(v) PROVE TypeOK'
    <3> DEFINE r == review[v].req  a == RejectAcct(r)
    <3>1. Idle \in ReviewStates
      BY ReviewMoves
    <3>2. CASE Approve(v)
      BY <3>1, <3>2 DEF Approve, Statuses
    <3>3. CASE RejectRead(v)
      <4>1. r \in Requests /\ a \in Accounts
        BY <3>3, ReviewMoves, PayloadType DEF RejectRead
      <4>2. [pc |-> "commit", req |-> r,
             snap |-> [available |-> available[a], locked |-> locked[a],
                       hold |-> hold[a]]] \in ReviewStates
        BY <4>1 DEF ReviewStates
      <4> QED BY <3>3, <4>2 DEF RejectRead
    <3>4. CASE RejectCommit(v)
      <4>1. r \in Requests /\ a \in Accounts
        BY <3>4, ReviewMoves, PayloadType DEF RejectCommit
      <4>2. Entry("reject", r) \in EntryRows
        BY <4>1, EntryType DEF EntryKinds
      <4>3. /\ review[v].snap.available + Amount[r] \in Int
            /\ review[v].snap.locked - Amount[r] \in Int
            /\ review[v].snap.hold - Amount[r] \in Int
        <5>1. review[v].pc # "idle"
          BY <3>4 DEF RejectCommit
        <5>2. /\ review[v].snap.available \in Int
              /\ review[v].snap.locked \in Int
              /\ review[v].snap.hold \in Int
          BY <5>1, ReviewMoves
        <5>3. Amount[r] \in Int
          BY <4>1, PayloadType
        <5> QED BY <5>2, <5>3
      <4>4. /\ available' \in [Accounts -> Int] /\ locked' \in [Accounts -> Int]
            /\ hold' \in [Accounts -> Int] /\ entries' \subseteq EntryRows
        BY <3>4, <4>1, <4>2, <4>3 DEF RejectCommit
      <4>5. status' \in [Requests -> Statuses] /\ review' \in [Reviewers -> ReviewStates]
        BY <3>1, <3>4, <4>1 DEF RejectCommit, Statuses
      <4> QED BY <3>4, <4>4, <4>5 DEF RejectCommit
    <3>5. CASE RejectRefused(v)
      BY <3>1, <3>5 DEF RejectRefused
    <3> QED BY <2>3, <3>2, <3>3, <3>4, <3>5 DEF Decide
  <2>4. ASSUME NEW u \in Users, SetWallet(u) PROVE TypeOK'
    BY <2>4 DEF SetWallet
  <2>5. CASE ListApproved
    BY <2>5, WorkerMoves DEF ListApproved
  <2>6. CASE WorkerStep
    <3>1. CASE ListBroadcasting \/ EndTick
      BY <3>1, WorkerMoves DEF ListBroadcasting, EndTick
    <3>2. ASSUME NEW r \in Requests, Claim(r) \/ ClaimLost(r) \/ CheckBroadcast(r)
          PROVE  TypeOK'
      BY <3>2, WorkerMoves DEF Claim, ClaimLost, CheckBroadcast, At, BusyPcs, Statuses
    <3>3. CASE Prepare \/ TransferRefused \/ NoReceipt \/ Receipt
      BY <3>3, WorkerMoves
      DEF Prepare, TransferRefused, NoReceipt, Receipt, Here, BusyPcs
    <3>4. CASE Transfer \/ TransferLateError
      <4>1. worker' \in WorkerStates
        BY <3>4, WorkerMoves DEF Transfer, TransferLateError, Here, BusyPcs
      <4>2. SendTx(worker.cur)
        BY <3>4 DEF Transfer, TransferLateError
      <4>3. \A r \in Requests, x \in TxStates : Append(txs[r], x) \in Seq(TxStates)
        OBVIOUS
      <4>4. txs' \in [Requests -> Seq(TxStates)]
        BY <4>2, <4>3 DEF SendTx, TxStates
      <4> QED BY <3>4, <4>1, <4>4 DEF Transfer, TransferLateError
    <3>5. CASE RecordHash \/ \E stored \in BOOLEAN : RecordError(stored)
      <4>1. worker' \in WorkerStates
        BY <3>5, WorkerMoves DEF RecordHash, RecordError, Here, BusyPcs
      <4>2. worker.cur \in Requests /\ Len(txs[worker.cur]) \in Nat
        BY <3>5, WorkerMoves DEF RecordHash, RecordError, Here
      <4>3. status' \in [Requests -> Statuses] /\ hash' \in [Requests -> Nat]
        BY <3>5, <4>2 DEF RecordHash, RecordError, Statuses
      <4> QED BY <3>5, <4>1, <4>3 DEF RecordHash, RecordError
    <3>6. CASE FinalizeStale \/ FinalizeError \/ RevertStale \/ AbortTick
      BY <3>6, WorkerMoves
      DEF FinalizeStale, FinalizeError, RevertStale, AbortTick, Here, BusyPcs
    <3>7. CASE Finalize
      <4> DEFINE r == worker.cur
      <4>1. r \in Requests /\ worker' \in WorkerStates
        BY <3>7, WorkerMoves DEF Finalize, Here
      <4>2. /\ Acct(r) \in Accounts /\ AssetOf[r] \in Assets
            /\ Amount[r] \in Int /\ Fee[r] \in Int
        BY <4>1, PayloadType
      <4>3. Entry("finalize", r) \in EntryRows /\ Entry("fee", r) \in EntryRows
        BY <4>1, EntryType DEF EntryKinds
      <4>4. CASE HasKey("finalize", r)
        BY <3>7, <4>1, <4>4 DEF Finalize, Statuses
      <4>5. CASE ~HasKey("finalize", r)
        <5>1. FinalizePost(r)
          BY <3>7, <4>5 DEF Finalize
        <5>2. /\ hold' \in [Accounts -> Int] /\ locked' \in [Accounts -> Int]
              /\ treasury' \in [Assets -> Int] /\ feeVault' \in [Assets -> Int]
              /\ available' \in [Accounts -> Int] /\ entries' \subseteq EntryRows
          BY <5>1, <4>2, <4>3 DEF FinalizePost, Net
        <5> QED BY <3>7, <4>1, <5>2 DEF Finalize, Statuses
      <4> QED BY <4>4, <4>5
    <3>8. CASE Revert
      <4> DEFINE r == worker.cur
      <4>1. r \in Requests /\ worker' \in WorkerStates
        BY <3>8, WorkerMoves DEF Revert, Here
      <4>2. Acct(r) \in Accounts /\ Amount[r] \in Int
        BY <4>1, PayloadType
      <4>3. Entry("revert", r) \in EntryRows
        BY <4>1, EntryType DEF EntryKinds
      <4>4. CASE HasKey("revert", r)
        BY <3>8, <4>1, <4>4 DEF Revert, Statuses
      <4>5. CASE ~HasKey("revert", r)
        <5>1. RevertPost(r)
          BY <3>8, <4>5 DEF Revert
        <5>2. /\ hold' \in [Accounts -> Int] /\ locked' \in [Accounts -> Int]
              /\ available' \in [Accounts -> Int] /\ entries' \subseteq EntryRows
              /\ UNCHANGED <<treasury, feeVault>>
          BY <5>1, <4>2, <4>3 DEF RevertPost, Released
        <5> QED BY <3>8, <4>1, <5>2 DEF Revert, Statuses
      <4> QED BY <4>4, <4>5
    <3> QED
      BY <2>6, <3>1, <3>2, <3>3, <3>4, <3>5, <3>6, <3>7, <3>8 DEF WorkerStep
  <2>7. ASSUME NEW r \in Requests, NEW o \in {"success", "failed"}, Mine(r, o)
        PROVE  TypeOK'
    BY <2>7 DEF Mine, TxStates
  <2>8. CASE Crash
    BY <2>8, WorkerMoves DEF Crash, Idle, NoSnap, ReviewStates
  <2>9. CASE UNCHANGED vars
    BY <2>9 DEF vars
  <2> QED
    BY <2>1, <2>2, <2>3, <2>4, <2>5, <2>6, <2>7, <2>8, <2>9 DEF Next
<1> QED BY <1>1, <1>2, PTL DEF Spec

-------------------------------------------------------------------------------
(* Settlement: with review calls of one request one after the other, each    *)
(* request is sent, posted and decided once.                                 *)

Paid(r) == Len(txs[r]) = 1 /\ txs[r][1] \in {"success", "simulated"}

\* The entries of a request follow its status, and only a broadcast one has a
\* transfer, which is its only one.
PostedAsDecided(r) ==
  /\ Entered("reject", r) <=> status[r] = "rejected"
  /\ Entered("finalize", r) <=> status[r] = "confirmed"
  /\ Entered("revert", r) <=> status[r] = "reverted"
  /\ Entered("hold", r) <=> status[r] # "none"
  /\ Entered("fee", r) => status[r] = "confirmed"
SentOnce(r) ==
  /\ Len(txs[r]) <= 1
  /\ txs[r] # <<>> => status[r] \in {"broadcasting", "confirmed", "reverted"}
  /\ hash[r] <= Len(txs[r])
  /\ status[r] = "confirmed" => hash[r] = 1 /\ Paid(r)

\* A review past its guard still finds its request pending, and alone.
ReviewsPending ==
  \A v \in Reviewers : review[v].pc # "idle" =>
    /\ status[review[v].req] = "pending_review"
    /\ \A w \in Reviewers \ {v} : review[w].req # review[v].req

\* What the worker knows of the request in its hands.
InHand ==
  LET r == worker.cur IN
  worker.pc # "next" =>
    /\ status[r] = "broadcasting"
    /\ worker.pc \in {"claimed", "send"} => txs[r] = <<>>
    /\ worker.pc = "sent" =>
         Len(txs[r]) = 1 /\ (mode = "mock" => txs[r][1] = "simulated")
    /\ worker.pc \in {"receipt", "finalize"} => hash[r] = 1 /\ Len(txs[r]) = 1
    /\ worker.pc = "finalize" => Paid(r)

SettlementInv ==
  /\ \A r \in Requests : PostedAsDecided(r)
  /\ \A r \in Requests : SentOnce(r)
  /\ ReviewsPending
  /\ InHand

\* Two rows are the same entry only if they are of one kind and one request.
LEMMA EntriesApart ==
  \A j, k, q, r : Entry(j, q) = Entry(k, r) <=> j = k /\ q = r
BY DEF Entry, EntryKey

\* A derived key is taken only once the request is decided, even where the
\* keys of its entries are cut alike.
LEMMA KeyTakenWhenDecided ==
  ASSUME TypeOK, \A r \in Requests : PostedAsDecided(r),
         NEW r \in Requests, NEW k \in EntryKinds \ {"hold"}, HasKey(k, r)
  PROVE  status[r] \in Terminal
<1>1. PICK e \in entries : e.key = EntryKey(k, r)
  BY DEF HasKey
<1>2. PICK j \in EntryKinds, q \in Requests : e = Entry(j, q)
  BY DEF TypeOK, EntryRows
<1>3. EntryKey(j, q) = EntryKey(k, r)
  BY <1>1, <1>2 DEF Entry
<1>4. q = r /\ j # "hold"
  BY <1>3 DEF EntryKey
<1>5. Entered(j, r)
  BY <1>2, <1>4 DEF Entered
<1> QED
  BY <1>4, <1>5 DEF PostedAsDecided, EntryKinds, Terminal

\* A step that posts nothing and leaves the rows and transfers alone.
LEMMA RowsKept ==
  ASSUME SettlementInv, UNCHANGED <<status, entries, hash, txs>>
  PROVE  /\ \A r \in Requests : PostedAsDecided(r)'
         /\ \A r \in Requests : SentOnce(r)'
BY DEF SettlementInv, PostedAsDecided, SentOnce, Entered, Entry, EntryKey, Paid

\* A worker that is between two requests knows nothing.
LEMMA HandsEmpty ==
  ASSUME worker'.pc = "next"
  PROVE  InHand'
BY DEF InHand

\* The invariant of settlement holds at first.
THEOREM SettlementInit == Init => SettlementInv
BY DEF Init, SettlementInv, PostedAsDecided, SentOnce, ReviewsPending, InHand,
       Entered, Idle, Asleep


\* Posting one entry enters it and no other.
LEMMA Posting ==
  \A k, r : entries' = entries \cup {Entry(k, r)} =>
    \A j, q : Entered(j, q)' <=> Entered(j, q) \/ (j = k /\ q = r)
<1>1. ASSUME NEW j, NEW q
      PROVE  Entered(j, q)' <=> Entry(j, q) \in entries'
  BY DEF Entered, Entry, EntryKey
<1> QED BY <1>1, EntriesApart DEF Entered

\* The next-state step of the review calls and of the users.
LEMMA SettlementCalls ==
  ASSUME "race_review" \notin Hazards, TypeOK, SettlementInv
  PROVE  /\ \A r \in Requests : Submit(r) => SettlementInv'
         /\ \A v \in Reviewers, r \in Requests, d \in {"approve", "reject"} :
              ReviewRead(v, r, d) => SettlementInv'
         /\ \A v \in Reviewers : Decide(v) => SettlementInv'
<1> USE DEF ledger, requestVars, settings
<1>1. ASSUME NEW r \in Requests, Submit(r) PROVE SettlementInv'
  <2>1. CASE SubmitCheck(r) \/ SubmitNothing(r)
    <3>1. UNCHANGED <<status, entries, hash, txs, review, worker, mode>>
      BY <2>1 DEF SubmitCheck, SubmitNothing
    <3> QED BY <3>1, RowsKept DEF SettlementInv, ReviewsPending, InHand, Paid
  <2>2. CASE SubmitHold(r)
    <3>1. status[r] = "none" /\ status' = [status EXCEPT ![r] = "pending_review"]
      BY <2>2 DEF SubmitHold, IsNew
    <3>2. UNCHANGED <<hash, txs, review, worker, mode>>
      BY <2>2 DEF SubmitHold
    <3>3. \A j \in EntryKinds, q \in Requests :
            Entered(j, q)' <=> Entered(j, q) \/ (j = "hold" /\ q = r)
      BY <2>2, Posting DEF SubmitHold
    <3>4. \A q \in Requests : PostedAsDecided(q)'
      BY <3>1, <3>3 DEF PostedAsDecided, SettlementInv, EntryKinds, TypeOK
    <3>5. \A q \in Requests : SentOnce(q)'
      BY <3>1, <3>2 DEF SentOnce, SettlementInv, Paid, TypeOK
    <3>6. ReviewsPending'
      <4>1. ASSUME NEW v \in Reviewers, review[v].pc # "idle"
            PROVE  review[v].req \in Requests \ {r}
        BY <3>1, <4>1, ReviewMoves DEF SettlementInv, ReviewsPending, TypeOK
      <4> QED BY <3>1, <3>2, <4>1 DEF ReviewsPending, SettlementInv, TypeOK
    <3>7. InHand'
      BY <3>1, <3>2 DEF InHand, SettlementInv, Paid, TypeOK
    <3> QED BY <3>4, <3>5, <3>6, <3>7 DEF SettlementInv
  <2> QED BY <1>1, <2>1, <2>2 DEF Submit
<1>2. ASSUME NEW v \in Reviewers, NEW r \in Requests,
             NEW d \in {"approve", "reject"}, ReviewRead(v, r, d)
      PROVE  SettlementInv'
  <2>1. UNCHANGED <<status, entries, hash, txs, worker, mode>>
    BY <1>2 DEF ReviewRead
  <2>2. /\ status[r] = "pending_review"
        /\ \A w \in Reviewers : review[w].req # r
    BY <1>2 DEF ReviewRead, Pending
  <2>3. review' = [review EXCEPT ![v] = [pc |-> d, req |-> r, snap |-> NoSnap]]
    BY <1>2 DEF ReviewRead
  <2>4. ReviewsPending'
    <3> SUFFICES ASSUME NEW u \in Reviewers, review'[u].pc # "idle"
                 PROVE  /\ status'[review'[u].req] = "pending_review"
                        /\ \A w \in Reviewers \ {u} :
                             review'[w].req # review'[u].req
      BY DEF ReviewsPending
    <3>1. CASE u = v
      BY <2>1, <2>2, <2>3, <3>1 DEF TypeOK
    <3>2. CASE u # v
      BY <2>1, <2>2, <2>3, <3>2 DEF TypeOK, SettlementInv, ReviewsPending
    <3> QED BY <3>1, <3>2
  <2>5. InHand'
    BY <2>1 DEF SettlementInv, InHand, Paid
  <2> QED BY <2>1, <2>4, <2>5, RowsKept DEF SettlementInv
<1>3. ASSUME NEW v \in Reviewers, Decide(v) PROVE SettlementInv'
  <2> DEFINE r == review[v].req
  <2>1. /\ review[v].pc # "idle" /\ r \in Requests
        /\ status[r] = "pending_review"
        /\ \A w \in Reviewers \ {v} : review[w].req # r
    <3>1. review[v].pc # "idle"
      BY <1>3 DEF Decide, Approve, RejectRead, RejectCommit, RejectRefused
    <3> QED BY <3>1, ReviewMoves DEF SettlementInv, ReviewsPending, TypeOK
  <2>2. UNCHANGED <<hash, txs, worker, mode>>
    BY <1>3 DEF Decide, Approve, RejectRead, RejectCommit, RejectRefused
  <2>3. CASE RejectRead(v) \/ RejectRefused(v)
    <3>1. UNCHANGED <<status, entries>>
      BY <2>3 DEF RejectRead, RejectRefused
    <3>2. \A w \in Reviewers \ {v} : review'[w] = review[w]
      BY <2>3 DEF RejectRead, RejectRefused, TypeOK
    <3>3. \/ review'[v].pc = "idle" /\ review'[v].req = NoRequest
          \/ review'[v].req = r
      BY <2>3 DEF RejectRead, RejectRefused, TypeOK, Idle
    <3>4. ReviewsPending'
      <4> SUFFICES ASSUME NEW u \in Reviewers, review'[u].pc # "idle"
                   PROVE  /\ status'[review'[u].req] = "pending_review"
                          /\ \A w \in Reviewers \ {u} :
                               review'[w].req # review'[u].req
        BY DEF ReviewsPending
      <4>1. CASE u = v
        BY <2>1, <3>1, <3>2, <3>3, <4>1
      <4>2. CASE u # v
        <5>1. /\ review[u].pc # "idle" /\ review[u].req \in Requests
              /\ status[review[u].req] = "pending_review"
              /\ \A w \in Reviewers \ {u} : review[w].req # review[u].req
          BY <3>2, <4>2, ReviewMoves DEF SettlementInv, ReviewsPending, TypeOK
        <5>2. review'[v].req # review[u].req
          BY <3>3, <4>2, <5>1, PayloadAssumption
        <5> QED BY <3>1, <3>2, <4>2, <5>1, <5>2
      <4> QED BY <4>1, <4>2
    <3>5. InHand'
      BY <2>2, <3>1 DEF SettlementInv, InHand, Paid
    <3> QED BY <2>2, <3>1, <3>4, <3>5, RowsKept DEF SettlementInv
  <2>4. CASE Approve(v) \/ RejectCommit(v)
    <3>1. PICK s \in {"approved", "rejected"} :
                 status' = [status EXCEPT ![r] = s]
      BY <2>4 DEF Approve, RejectCommit
    <3>2. review' = [review EXCEPT ![v] = Idle]
      BY <2>4 DEF Approve, RejectCommit
    <3>3. ReviewsPending'
      BY <2>1, <3>1, <3>2, ReviewMoves, PayloadAssumption
      DEF ReviewsPending, SettlementInv, TypeOK, Idle
    <3>4. InHand'
      BY <2>1, <2>2, <3>1 DEF SettlementInv, InHand, Paid, TypeOK
    <3>5. \A q \in Requests : SentOnce(q)'
      BY <2>1, <2>2, <3>1 DEF SettlementInv, SentOnce, Paid, TypeOK
    <3>6. \A q \in Requests : PostedAsDecided(q)'
      <4>1. CASE Approve(v)
        <5>1. status' = [status EXCEPT ![r] = "approved"] /\ UNCHANGED entries
          BY <4>1 DEF Approve
        <5> QED BY <2>1, <5>1
            DEF SettlementInv, PostedAsDecided, Entered, Entry, EntryKey, TypeOK
      <4>2. CASE RejectCommit(v)
        <5>1. status' = [status EXCEPT ![r] = "rejected"]
          BY <4>2 DEF RejectCommit
        <5>2. \A j \in EntryKinds, q \in Requests :
                Entered(j, q)' <=> Entered(j, q) \/ (j = "reject" /\ q = r)
          <6>1. entries' = entries \cup {Entry("reject", r)}
            BY <4>2 DEF RejectCommit
          <6> QED BY <6>1, Posting
        <5> QED BY <2>1, <5>1, <5>2
            DEF SettlementInv, PostedAsDecided, EntryKinds, TypeOK
      <4> QED BY <2>4, <4>1, <4>2
    <3> QED BY <3>3, <3>4, <3>5, <3>6 DEF SettlementInv
  <2> QED BY <1>3, <2>3, <2>4 DEF Decide
<1> QED BY <1>1, <1>2, <1>3


\* Where the worker's moves take it.
LEMMA WorkerFields ==
  ASSUME worker \in WorkerStates
  PROVE  /\ \A pc : Goto(pc) => worker'.pc = pc /\ worker'.cur = worker.cur
         /\ NextInList => worker'.pc = "next"
         /\ \A r, pc : Take(r, pc) => worker'.pc = pc /\ worker'.cur = r
         /\ \A r : Skip(r) => worker'.pc = worker.pc
         /\ \A phase, S : Listing(phase, S).pc = "next"
         /\ Asleep.pc = "next"
BY DEF WorkerStates, Goto, NextInList, Take, Skip, Asleep, Listing

\* The steps of the worker, which alone broadcasts and settles.
LEMMA SettlementWorker ==
  ASSUME TypeOK, SettlementInv, ListApproved \/ WorkerStep
  PROVE  SettlementInv'
<1> USE DEF ledger, requestVars, settings
<1> DEFINE r == worker.cur
<1>1. UNCHANGED <<review, mode>>
  BY DEF ListApproved, WorkerStep, ListBroadcasting, EndTick, Claim, ClaimLost,
         CheckBroadcast, Prepare, Transfer, TransferRefused, TransferLateError,
         RecordHash, RecordError, NoReceipt, Receipt, Finalize, FinalizeStale,
         FinalizeError, Revert, RevertStale, AbortTick
<1>2. ASSUME \A q \in Requests : status[q] = "pending_review" =>
               status'[q] = "pending_review"
      PROVE  ReviewsPending'
  BY <1>1, <1>2, ReviewMoves DEF SettlementInv, ReviewsPending, TypeOK
<1>3. worker.pc # "next" => r \in Requests /\ status[r] = "broadcasting"
  BY WorkerMoves DEF SettlementInv, InHand, TypeOK
\* Steps that only decide where to go next.
<1>4. ASSUME UNCHANGED <<status, entries, hash, txs>>, InHand'
      PROVE  SettlementInv'
  BY <1>2, <1>4, RowsKept DEF SettlementInv
<1>5. CASE \/ ListApproved \/ ListBroadcasting \/ EndTick
           \/ NoReceipt \/ FinalizeStale \/ RevertStale \/ AbortTick
  <2>1. UNCHANGED <<status, entries, hash, txs>>
    BY <1>5 DEF ListApproved, ListBroadcasting, EndTick, NoReceipt,
                FinalizeStale, RevertStale, AbortTick
  <2>2. worker'.pc = "next"
    BY <1>5, WorkerFields DEF ListApproved, ListBroadcasting, EndTick, NoReceipt,
                FinalizeStale, RevertStale, AbortTick, TypeOK
  <2> QED BY <1>4, <2>1, <2>2, HandsEmpty
<1>6. CASE \E q \in Requests : ClaimLost(q) \/ CheckBroadcast(q)
  <2>1. PICK q \in Requests : ClaimLost(q) \/ CheckBroadcast(q)
    BY <1>6
  <2>2. UNCHANGED <<status, entries, hash, txs>>
    BY <2>1 DEF ClaimLost, CheckBroadcast
  <2>3. CASE worker'.pc = "next"
    BY <1>4, <2>2, <2>3, HandsEmpty
  <2>4. CASE worker'.pc # "next"
    <3>1. Confirmable(q) /\ worker'.cur = q /\ worker'.pc \in {"receipt", "revert"}
      BY <2>1, <2>4, WorkerFields DEF ClaimLost, CheckBroadcast, At, TypeOK
    <3>2. hash[q] = 1 /\ Len(txs[q]) = 1
      <4>1. q \in Requests /\ hash[q] \in Nat /\ Len(txs[q]) \in Nat
        BY DEF TypeOK
      <4>2. SentOnce(q)
        BY <4>1 DEF SettlementInv
      <4>3. hash[q] <= Len(txs[q]) /\ Len(txs[q]) <= 1
        BY <4>2 DEF SentOnce
      <4>4. hash[q] # 0
        BY <3>1 DEF Confirmable
      <4>5. \A m, n \in Nat : m # 0 /\ m <= n /\ n <= 1 => m = 1 /\ n = 1
        OBVIOUS
      <4> QED BY <4>1, <4>3, <4>4, <4>5
    <3>3. InHand'
      BY <2>2, <3>1, <3>2 DEF InHand, Confirmable
    <3> QED BY <1>4, <2>2, <3>3
  <2> QED BY <2>3, <2>4
<1>7. CASE Prepare \/ TransferRefused \/ Receipt \/ FinalizeError
  <2>1. UNCHANGED <<status, entries, hash, txs>>
    BY <1>7 DEF Prepare, TransferRefused, Receipt, FinalizeError
  <2>2. worker.pc # "next"
    BY <1>7 DEF Prepare, TransferRefused, Receipt, FinalizeError, Here
  <2>3. CASE FinalizeError
    <3>1. worker'.pc = "next" \/ (worker'.pc = "revert" /\ worker'.cur = r)
      BY <2>3, WorkerFields DEF FinalizeError, TypeOK
    <3>2. InHand'
      BY <1>3, <2>1, <2>2, <3>1 DEF InHand
    <3> QED BY <1>4, <2>1, <3>2
  <2>4. CASE Prepare \/ TransferRefused
    <3>1. /\ worker'.cur = r /\ worker'.pc \in {"send", "revert"}
          /\ worker.pc \in {"claimed", "send"}
      BY <2>4, WorkerFields DEF Prepare, TransferRefused, Here, TypeOK
    <3>2. InHand'
      BY <1>3, <2>1, <2>2, <3>1 DEF InHand, SettlementInv
    <3> QED BY <1>4, <2>1, <3>2
  <2>5. CASE Receipt
    <3>1. hash[r] = 1 /\ Len(txs[r]) = 1
      BY <2>5 DEF Receipt, Here, SettlementInv, InHand
    <3>2. /\ worker'.cur = r
          /\ \/ worker'.pc = "revert"
             \/ worker'.pc = "finalize" /\ Succeeded(r)
      BY <2>5, WorkerFields DEF Receipt, TypeOK
    <3>3. InHand'
      BY <1>3, <2>1, <2>2, <3>1, <3>2 DEF InHand, Succeeded, TxState, Paid
    <3> QED BY <1>4, <2>1, <3>3
  <2> QED BY <1>7, <2>3, <2>4, <2>5
<1>8. CASE \E q \in Requests : Claim(q)
  <2>1. PICK q \in Requests : Claim(q)
    BY <1>8
  <2>2. /\ status[q] = "approved" /\ status' = [status EXCEPT ![q] = "broadcasting"]
        /\ UNCHANGED <<entries, hash, txs>>
        /\ worker'.cur = q /\ worker'.pc = "claimed"
    BY <2>1, WorkerFields DEF Claim, ToBroadcast, TypeOK
  <2>3. \A p \in Requests : PostedAsDecided(p)'
    BY <2>2 DEF SettlementInv, PostedAsDecided, Entered, Entry, EntryKey, TypeOK
  <2>4. txs[q] = <<>>
    BY <2>2 DEF SettlementInv, SentOnce
  <2>5. \A p \in Requests : SentOnce(p)'
    BY <2>2, <2>4 DEF SettlementInv, SentOnce, Paid, TypeOK
  <2>6. InHand'
    BY <2>2, <2>4 DEF InHand, TypeOK
  <2> QED BY <1>2, <2>2, <2>3, <2>5, <2>6 DEF SettlementInv, TypeOK
<1>9. CASE Transfer \/ TransferLateError
  <2>1. /\ worker.pc = "send" /\ SendTx(r) /\ UNCHANGED <<status, entries, hash>>
        /\ worker'.cur = r /\ worker'.pc \in {"sent", "revert"}
    BY <1>9, WorkerFields DEF Transfer, TransferLateError, Here, TypeOK
  <2>2. r \in Requests /\ status[r] = "broadcasting" /\ txs[r] = <<>>
    BY <1>3, <2>1 DEF SettlementInv, InHand
  <2>3. /\ \A q \in Requests \ {r} : txs'[q] = txs[q]
        /\ txs'[r] = <<IF mode = "mock" THEN "simulated" ELSE "pending">>
    BY <2>1, <2>2 DEF SendTx, TypeOK
  <2>4. Len(txs'[r]) = 1 /\ (mode = "mock" => txs'[r][1] = "simulated")
    BY <2>3
  <2>5. \A q \in Requests : PostedAsDecided(q)'
    BY <2>1 DEF SettlementInv, PostedAsDecided, Entered, Entry, EntryKey
  <2>6. ASSUME NEW q \in Requests PROVE SentOnce(q)'
    <3>1. CASE q = r
      <4>1. hash[r] = 0
        <5>1. SentOnce(r) /\ hash[r] \in Nat
          BY <2>2 DEF SettlementInv, TypeOK
        <5> QED BY <2>2, <5>1 DEF SentOnce
      <4>2. Len(txs'[r]) <= 1 /\ hash'[r] <= Len(txs'[r])
        BY <2>1, <2>4, <4>1
      <4>3. status'[r] = "broadcasting"
        BY <2>1, <2>2
      <4> QED BY <3>1, <4>2, <4>3 DEF SentOnce
    <3>2. CASE q # r
      BY <2>1, <2>3, <3>2 DEF SettlementInv, SentOnce, Paid
    <3> QED BY <3>1, <3>2
  <2>7. InHand'
    BY <1>1, <2>1, <2>2, <2>4 DEF InHand
  <2> QED BY <1>2, <2>1, <2>5, <2>6, <2>7 DEF SettlementInv
<1>10. CASE RecordHash \/ \E stored \in BOOLEAN : RecordError(stored)
  <2>1. /\ worker.pc = "sent" /\ UNCHANGED <<entries, txs>>
        /\ \/ worker'.pc \in {"next", "revert"}
           \/ worker'.pc = "finalize" /\ mode = "mock" /\ hash'[r] = Len(txs[r])
        /\ worker'.pc # "next" => worker'.cur = r
    BY <1>3, <1>10, WorkerFields
    DEF RecordHash, RecordError, Here, TypeOK
  <2>2. /\ r \in Requests /\ status[r] = "broadcasting" /\ Len(txs[r]) = 1
        /\ mode = "mock" => txs[r][1] = "simulated"
    BY <1>3, <2>1 DEF SettlementInv, InHand
  <2>3. /\ status' = status
        /\ \A q \in Requests \ {r} : hash'[q] = hash[q]
        /\ hash'[r] \in {hash[r], Len(txs[r])}
    BY <1>10, <2>2 DEF RecordHash, RecordError, TypeOK
  <2>4. \A q \in Requests : PostedAsDecided(q)'
    BY <2>1, <2>3 DEF SettlementInv, PostedAsDecided, Entered, Entry, EntryKey
  <2>5. \A q \in Requests : SentOnce(q)'
    BY <2>1, <2>2, <2>3 DEF SettlementInv, SentOnce, Paid
  <2>6. InHand'
    BY <1>1, <2>1, <2>2, <2>3 DEF InHand, Paid
  <2> QED BY <1>2, <2>3, <2>4, <2>5, <2>6 DEF SettlementInv
<1>11. CASE Finalize
  <2>1. /\ worker.pc = "finalize" /\ worker'.pc = "next"
        /\ status' = [status EXCEPT ![r] = "confirmed"] /\ UNCHANGED <<hash, txs>>
    BY <1>11, WorkerFields DEF Finalize, Here, TypeOK
  <2>2. /\ r \in Requests /\ status[r] = "broadcasting"
        /\ hash[r] = 1 /\ Len(txs[r]) = 1 /\ Paid(r)
    BY <1>3, <2>1 DEF SettlementInv, InHand
  <2>3. ~HasKey("finalize", r)
    BY <2>2, KeyTakenWhenDecided DEF SettlementInv, EntryKinds, Terminal
  <2>4. \A q \in Requests : PostedAsDecided(q)'
    <3>1. PICK F \in SUBSET {Entry("fee", r)} :
            entries' = entries \cup {Entry("finalize", r)} \cup F
      BY <1>11, <2>3 DEF Finalize, FinalizePost
    <3>2. \A j \in EntryKinds, q \in Requests :
            /\ j # "fee" =>
                 (Entered(j, q)' <=> Entered(j, q) \/ (j = "finalize" /\ q = r))
            /\ j = "fee" => (Entered(j, q)' => Entered(j, q) \/ q = r)
      <4>1. ASSUME NEW j \in EntryKinds, NEW q \in Requests
            PROVE  Entered(j, q)' <=> Entry(j, q) \in entries'
        BY DEF Entered, Entry, EntryKey
      <4> QED BY <3>1, <4>1, EntriesApart DEF Entered
    <3> QED BY <2>1, <2>2, <3>2
        DEF SettlementInv, PostedAsDecided, EntryKinds, TypeOK
  <2>5. \A q \in Requests : SentOnce(q)'
    BY <2>1, <2>2 DEF SettlementInv, SentOnce, Paid, TypeOK
  <2> QED BY <1>2, <2>1, <2>2, <2>4, <2>5, HandsEmpty DEF SettlementInv, TypeOK
<1>12. CASE Revert
  <2>1. /\ worker.pc = "revert" /\ worker'.pc = "next"
        /\ status' = [status EXCEPT ![r] = "reverted"] /\ UNCHANGED <<hash, txs>>
    BY <1>12, WorkerFields DEF Revert, Here, TypeOK
  <2>2. r \in Requests /\ status[r] = "broadcasting"
    BY <1>3, <2>1
  <2>3. ~HasKey("revert", r)
    BY <2>2, KeyTakenWhenDecided DEF SettlementInv, EntryKinds, Terminal
  <2>4. \A q \in Requests : PostedAsDecided(q)'
    <3>1. \A j, q : Entered(j, q)' <=> Entered(j, q) \/ (j = "revert" /\ q = r)
      BY <1>12, <2>3, Posting DEF Revert, RevertPost
    <3> QED BY <2>1, <2>2, <3>1
        DEF SettlementInv, PostedAsDecided, EntryKinds, TypeOK
  <2>5. \A q \in Requests : SentOnce(q)'
    BY <2>1, <2>2 DEF SettlementInv, SentOnce, Paid, TypeOK
  <2> QED BY <1>2, <2>1, <2>2, <2>4, <2>5, HandsEmpty DEF SettlementInv, TypeOK
<1> QED
  BY <1>5, <1>6, <1>7, <1>8, <1>9, <1>10, <1>11, <1>12 DEF WorkerStep


\* A mined transfer keeps what is known of it.
LEMMA SettlementMine ==
  ASSUME TypeOK, SettlementInv, NEW r \in Requests,
         NEW o \in {"success", "failed"}, Mine(r, o)
  PROVE  SettlementInv'
<1>1. PICK i \in 1..Len(txs[r]) :
           txs[r][i] = "pending" /\ txs' = [txs EXCEPT ![r][i] = o]
  BY DEF Mine
<1>2. UNCHANGED <<status, entries, hash, review, worker, mode>>
  BY DEF Mine, ledger, requestVars, settings
<1>3. /\ \A q \in Requests : Len(txs'[q]) = Len(txs[q])
      /\ \A q \in Requests : txs[q] = <<>> => txs'[q] = <<>>
      /\ \A q \in Requests : Len(txs[q]) = 1 /\ txs[q][1] # "pending" => txs'[q] = txs[q]
  BY <1>1 DEF TypeOK
<1>4. \A q \in Requests : Paid(q) => Paid(q)'
  BY <1>3 DEF Paid
<1>5. \A q \in Requests : PostedAsDecided(q)'
  BY <1>2 DEF SettlementInv, PostedAsDecided, Entered, Entry, EntryKey
<1>6. \A q \in Requests : SentOnce(q)'
  BY <1>2, <1>3, <1>4 DEF SettlementInv, SentOnce
<1>7. ReviewsPending'
  BY <1>2 DEF SettlementInv, ReviewsPending
<1>8. InHand'
  <2>1. worker.pc # "next" => worker.cur \in Requests
    BY WorkerMoves DEF TypeOK
  <2> QED BY <1>2, <1>3, <1>4, <2>1 DEF SettlementInv, InHand
<1> QED BY <1>5, <1>6, <1>7, <1>8 DEF SettlementInv

\* The invariant of settlement holds as long as no two review calls overlap on
\* one request; crashes, late errors, wallet switches and overlapping
\* submissions do not break it.
THEOREM SettlementCorrect ==
  ASSUME "race_review" \notin Hazards
  PROVE  Spec => [](TypeOK /\ SettlementInv)
<1>1. TypeOK /\ SettlementInv /\ [Next]_vars => SettlementInv'
  <2> SUFFICES ASSUME TypeOK, SettlementInv, [Next]_vars PROVE SettlementInv'
    OBVIOUS
  <2>1. ASSUME NEW u \in Users, SetWallet(u) PROVE SettlementInv'
    <3>1. UNCHANGED <<status, entries, hash, txs, review, worker, mode>>
      BY <2>1 DEF SetWallet, ledger, requestVars
    <3> QED BY <3>1, RowsKept DEF SettlementInv, ReviewsPending, InHand, Paid
  <2>2. CASE Crash
    <3>1. /\ UNCHANGED <<status, entries, hash, txs>> /\ worker'.pc = "next"
          /\ \A v \in Reviewers : review'[v].pc = "idle"
      BY <2>2 DEF Crash, ledger, requestVars, Asleep, Idle
    <3> QED BY <3>1, RowsKept, HandsEmpty DEF SettlementInv, ReviewsPending
  <2>3. CASE UNCHANGED vars
    <3>1. UNCHANGED <<status, entries, hash, txs, review, worker, mode>>
      BY <2>3 DEF vars
    <3> QED BY <3>1, RowsKept DEF SettlementInv, ReviewsPending, InHand, Paid
  <2> QED
    BY <2>1, <2>2, <2>3, SettlementCalls, SettlementWorker, SettlementMine DEF Next
<1>2. Spec => []TypeOK
  BY TypeCorrect
<1> QED BY <1>1, <1>2, SettlementInit, PTL DEF Spec

\* However the process crashes, the custody call errs and wallets are switched,
\* a request is posted to the ledger once and as its status says.
THEOREM SettledOnceCorrect ==
  ASSUME "race_review" \notin Hazards
  PROVE  Spec => []SettledOnce
<1>1. SettlementInv => SettledOnce
  BY DEF SettlementInv, PostedAsDecided, SettledOnce
<1> QED BY <1>1, SettlementCorrect, PTL

\* The treasury sends at most one transfer for a request.
THEOREM SentAtMostOnceCorrect ==
  ASSUME "race_review" \notin Hazards
  PROVE  Spec => []SentAtMostOnce
<1>1. SettlementInv => SentAtMostOnce
  BY DEF SettlementInv, SentOnce, SentAtMostOnce
<1> QED BY <1>1, SettlementCorrect, PTL

\* A confirmed request was paid by the transfer it names.
THEOREM ConfirmedIsPaidCorrect ==
  ASSUME "race_review" \notin Hazards
  PROVE  Spec => []ConfirmedIsPaid
<1>1. SettlementInv => ConfirmedIsPaid
  BY DEF SettlementInv, SentOnce, Paid, ConfirmedIsPaid, TxState
<1> QED BY <1>1, SettlementCorrect, PTL


\* No later call, tick or restart changes the decision on a request.
THEOREM DecisionsAreFinalCorrect ==
  ASSUME "race_review" \notin Hazards
  PROVE  Spec => DecisionsAreFinal
<1>1. TypeOK /\ SettlementInv /\ [Next]_vars =>
        [\A r \in Requests : status[r] \in Terminal => status'[r] = status[r]]_vars
  <2> SUFFICES ASSUME TypeOK, SettlementInv, Next,
                      NEW r \in Requests, status[r] \in Terminal
               PROVE  status'[r] = status[r]
    BY DEF vars
  <2> USE DEF requestVars
  <2>1. ASSUME NEW q \in Requests, Submit(q) PROVE status'[r] = status[r]
    BY <2>1 DEF Submit, SubmitCheck, SubmitHold, SubmitNothing, IsNew, TypeOK, Terminal
  <2>2. ASSUME NEW v \in Reviewers, Decide(v) PROVE status'[r] = status[r]
    <3>1. review[v].pc # "idle" => status[review[v].req] = "pending_review"
      BY DEF SettlementInv, ReviewsPending
    <3> QED BY <2>2, <3>1 DEF Decide, Approve, RejectRead, RejectCommit,
                              RejectRefused, TypeOK, Terminal
  <2>3. ASSUME NEW v \in Reviewers, NEW q \in Requests,
               NEW d \in {"approve", "reject"}, ReviewRead(v, q, d)
        PROVE  status'[r] = status[r]
    BY <2>3 DEF ReviewRead
  <2>4. CASE WorkerStep
    <3>1. worker.pc # "next" =>
            worker.cur \in Requests /\ status[worker.cur] = "broadcasting"
      BY WorkerMoves DEF SettlementInv, InHand, TypeOK
    <3>2. CASE RecordHash \/ (\E stored \in BOOLEAN : RecordError(stored))
               \/ Finalize \/ Revert
      BY <3>1, <3>2 DEF RecordHash, RecordError, Finalize, Revert, Here, TypeOK, Terminal
    <3>3. CASE \E q \in Requests : Claim(q)
      BY <3>3 DEF Claim, ToBroadcast, TypeOK, Terminal
    <3>4. ASSUME NEW q \in Requests, ClaimLost(q) \/ CheckBroadcast(q)
          PROVE  status'[r] = status[r]
      BY <3>4 DEF ClaimLost, CheckBroadcast
    <3>5. CASE \/ ListBroadcasting \/ EndTick \/ Prepare \/ Transfer
               \/ TransferRefused \/ TransferLateError \/ NoReceipt \/ Receipt
               \/ FinalizeStale \/ FinalizeError \/ RevertStale \/ AbortTick
      BY <3>5 DEF ListBroadcasting, EndTick, Prepare, Transfer, TransferRefused,
                  TransferLateError, NoReceipt, Receipt, FinalizeStale,
                  FinalizeError, RevertStale, AbortTick
    <3> QED BY <2>4, <3>2, <3>3, <3>4, <3>5 DEF WorkerStep
  <2>5. CASE ListApproved \/ Crash
    BY <2>5 DEF ListApproved, Crash
  <2>6. ASSUME NEW u \in Users, SetWallet(u) PROVE status'[r] = status[r]
    BY <2>6 DEF SetWallet
  <2>7. ASSUME NEW q \in Requests, NEW o \in {"success", "failed"}, Mine(q, o)
        PROVE  status'[r] = status[r]
    BY <2>7 DEF Mine
  <2> QED BY <2>1, <2>2, <2>3, <2>4, <2>5, <2>6, <2>7 DEF Next
<1> QED BY <1>1, SettlementCorrect, PTL DEF Spec, DecisionsAreFinal


-------------------------------------------------------------------------------
\* What a rejection read also agrees: locked and hold were read together.
HoldInv ==
  /\ LockedIsHeld
  /\ \A v \in Reviewers : review[v].snap.locked = review[v].snap.hold

\* The hold account and the locked part move together on every path, whatever
\* overlaps, fails or crashes: a rejection overwrites both with balances it
\* read at the same moment.
LEMMA HoldInvCorrect == Spec => []HoldInv
<1>1. Init => HoldInv
  BY DEF Init, HoldInv, LockedIsHeld, Idle, NoSnap
<1>2. TypeOK /\ HoldInv /\ [Next]_vars => HoldInv'
  <2> SUFFICES ASSUME TypeOK, HoldInv, [Next]_vars PROVE HoldInv'
    OBVIOUS
  <2> USE DEF ledger
  <2>1. ASSUME UNCHANGED <<locked, hold, review>> PROVE HoldInv'
    BY <2>1 DEF HoldInv, LockedIsHeld
  <2>2. ASSUME NEW r \in Requests, Submit(r) PROVE HoldInv'
    <3>1. CASE SubmitHold(r)
      BY <3>1 DEF SubmitHold, HoldInv, LockedIsHeld
    <3>2. CASE SubmitCheck(r) \/ SubmitNothing(r)
      BY <2>1, <3>2 DEF SubmitCheck, SubmitNothing
    <3> QED BY <2>2, <3>1, <3>2 DEF Submit
  <2>3. ASSUME NEW v \in Reviewers, NEW r \in Requests,
               NEW d \in {"approve", "reject"}, ReviewRead(v, r, d)
        PROVE  HoldInv'
    BY <2>3 DEF ReviewRead, HoldInv, LockedIsHeld, NoSnap, TypeOK
  <2>4. ASSUME NEW v \in Reviewers, Decide(v) PROVE HoldInv'
    <3>1. CASE Approve(v) \/ RejectRefused(v)
      <4>1. UNCHANGED <<locked, hold>> /\ review' = [review EXCEPT ![v] = Idle]
        BY <3>1 DEF Approve, RejectRefused
      <4> QED BY <4>1 DEF HoldInv, LockedIsHeld, Idle, NoSnap, TypeOK
    <3>2. CASE RejectRead(v)
      <4>1. UNCHANGED <<locked, hold>> /\ locked = hold
        BY <3>2 DEF RejectRead, HoldInv, LockedIsHeld
      <4>2. /\ \A w \in Reviewers \ {v} : review'[w] = review[w]
            /\ review'[v].snap.locked = review'[v].snap.hold
        BY <3>2, <4>1 DEF RejectRead, TypeOK
      <4> QED BY <4>1, <4>2 DEF HoldInv, LockedIsHeld
    <3>3. CASE RejectCommit(v)
      <4>1. locked' = hold'
        BY <3>3 DEF RejectCommit, HoldInv, LockedIsHeld
      <4>2. review' = [review EXCEPT ![v] = Idle]
        BY <3>3 DEF RejectCommit
      <4> QED BY <4>1, <4>2 DEF HoldInv, LockedIsHeld, Idle, NoSnap, TypeOK
    <3> QED BY <2>4, <3>1, <3>2, <3>3 DEF Decide
  <2>5. CASE WorkerStep
    <3>1. CASE Finalize \/ Revert
      <4>1. locked' = hold' /\ UNCHANGED review
        BY <3>1 DEF Finalize, FinalizePost, Revert, RevertPost, HoldInv, LockedIsHeld
      <4> QED BY <4>1 DEF HoldInv, LockedIsHeld
    <3>2. ASSUME NEW q \in Requests, Claim(q) \/ ClaimLost(q) \/ CheckBroadcast(q)
          PROVE  HoldInv'
      BY <2>1, <3>2 DEF Claim, ClaimLost, CheckBroadcast
    <3>3. CASE \/ ListBroadcasting \/ EndTick \/ Prepare \/ Transfer
               \/ TransferRefused \/ TransferLateError \/ NoReceipt \/ Receipt
               \/ RecordHash \/ (\E stored \in BOOLEAN : RecordError(stored))
               \/ FinalizeStale \/ FinalizeError \/ RevertStale \/ AbortTick
      BY <2>1, <3>3
      DEF ListBroadcasting, EndTick, Prepare, Transfer, TransferRefused,
          TransferLateError, NoReceipt, Receipt, RecordHash, RecordError,
          FinalizeStale, FinalizeError, RevertStale, AbortTick
    <3> QED BY <2>5, <3>1, <3>2, <3>3 DEF WorkerStep
  <2>6. CASE Crash
    BY <2>6 DEF Crash, HoldInv, LockedIsHeld, Idle, NoSnap
  <2>7. CASE ListApproved \/ UNCHANGED vars
    BY <2>1, <2>7 DEF ListApproved, vars
  <2>8. ASSUME NEW u \in Users, SetWallet(u) PROVE HoldInv'
    BY <2>1, <2>8 DEF SetWallet
  <2>9. ASSUME NEW r \in Requests, NEW o \in {"success", "failed"}, Mine(r, o)
        PROVE  HoldInv'
    BY <2>1, <2>9 DEF Mine
  <2> QED
    BY <2>2, <2>3, <2>4, <2>5, <2>6, <2>7, <2>8, <2>9 DEF Next
<1> QED BY <1>1, <1>2, TypeCorrect, PTL DEF Spec

\* The hold account and the locked part of a user's account are the same.
THEOREM LockedIsHeldCorrect == Spec => []LockedIsHeld
<1>1. HoldInv => LockedIsHeld
  BY DEF HoldInv
<1> QED BY <1>1, HoldInvCorrect, PTL


=============================================================================
