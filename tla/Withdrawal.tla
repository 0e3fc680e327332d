------------------------------ MODULE Withdrawal ------------------------------
(***************************************************************************)
(* The life of a withdrawal: the user's call that puts the funds on hold,  *)
(* the administrator's review, the settlement worker that broadcasts and   *)
(* confirms, and the chain.  The database is shared; every action is one   *)
(* database transaction (or one call of the custody service) of one of     *)
(* these actors, so the steps of two handlers interleave exactly where the *)
(* code awaits.                                                            *)
(***************************************************************************)
EXTENDS Integers, Sequences, FiniteSetsExt, Totals

CONSTANTS
  Users, Assets,
  BNT,             \* the asset whose symbol the rejection path hard-codes
  Requests,        \* idempotency keys of the withdrawals users may ask for
  Owner, AssetOf, Amount, Fee,      \* functions of Requests: their payloads
  LongKeys,        \* keys so long that their derived entry keys are cut alike
  Price,           \* USD price of an asset
  InitialBalance,  \* spendable balance of each account before any withdrawal
  MaxPerDay,       \* the tier's daily limit in USD, 0 for none
  Configured,      \* assets with a network and a treasury wallet configured
  Modes,           \* execution modes the custody adapter may be started in
  Reviewers,       \* review calls that may be in progress at once
  NoRequest,
  Hazards          \* the disturbances this environment exhibits

(***************************************************************************)
(* race_submit : two calls of one user overlap between limit and hold      *)
(* race_review : two review calls overlap on the same request              *)
(* race_reject : a rejection's transaction overlaps one on the same account*)
(* disable     : an administrator disables and enables wallets             *)
(* late_error  : the broadcast fails after the transfer has left           *)
(* io_error    : a database or RPC call outside a catch fails              *)
(* crash       : the process stops and starts again                        *)
(***************************************************************************)
HazardKinds == {"race_submit", "race_review", "race_reject", "disable",
                "late_error", "io_error", "crash"}

Accounts == Users \X Assets
Acct(r) == <<Owner[r], AssetOf[r]>>
RejectAcct(r) == <<Owner[r], BNT>>

ASSUME PayloadAssumption ==
  /\ BNT \in Assets
  /\ NoRequest \notin Requests
  /\ Owner \in [Requests -> Users]
  /\ AssetOf \in [Requests -> Assets]
  /\ Amount \in [Requests -> Nat \ {0}]
  /\ Fee \in [Requests -> Nat]
  /\ \A r \in Requests : Fee[r] < Amount[r]
  /\ InitialBalance \in [Accounts -> Nat]

ASSUME SettingsAssumption ==
  /\ LongKeys \subseteq Requests
  /\ Configured \subseteq Assets
  /\ Modes \subseteq {"real", "mock"}
  /\ Price \in [Assets -> Nat]
  /\ MaxPerDay \in Nat
  /\ Hazards \subseteq HazardKinds

(* A definition named X_... right before X is a plausible bug in X: the      *)
(* properties are tried against it.                                          *)

VARIABLES
  status,     \* WithdrawalRequest.status, "none" before the row exists
  checked,    \* creation calls that passed the limits and not yet the hold
  enabled,    \* wallet status other than disabled
  mode,       \* execution mode of the custody adapter
  available, locked,  \* the user's ledger account
  hold,       \* the user's hold account
  treasury, feeVault, \* platform accounts
  entries,    \* LedgerEntry rows
  hash,       \* broadcastTxHash: which transfer it names, 0 for null
  txs,        \* the transfers sent for a request and what became of them
  review,     \* the review calls
  worker      \* the settlement worker

ledger == <<available, locked, hold, treasury, feeVault, entries>>
requestVars == <<status, hash>>
settings == <<enabled, mode>>
vars == <<status, checked, enabled, mode, available, locked, hold, treasury,
          feeVault, entries, hash, txs, review, worker>>

Statuses == {"none", "pending_review", "approved", "rejected",
             "broadcasting", "confirmed", "reverted"}
Terminal == {"rejected", "confirmed", "reverted"}
Pending_AlsoApproved == {"pending_review", "approved"}
Pending == {"pending_review"}
Open == {"pending_review", "approved", "broadcasting"}
TxStates == {"pending", "success", "failed", "simulated"}
EntryKinds == {"hold", "reject", "finalize", "fee", "revert"}

-------------------------------------------------------------------------------
(* Ledger entries and their idempotency keys.                              *)

\* Derived keys are cut to the length of the column, after which all those of
\* a long key are the same; the hold's key is stored uncut.
EntryKey(kind, r) ==
  IF kind # "hold" /\ r \in LongKeys THEN <<"cut", r>> ELSE <<kind, r>>
Entry(kind, r) == [key |-> EntryKey(kind, r), kind |-> kind, req |-> r]
HasKey(kind, r) == \E e \in entries : e.key = EntryKey(kind, r)
Entered(kind, r) == Entry(kind, r) \in entries

\* A Serializable transaction on account a may commit now: no rejection has
\* read that account and not yet written it, or the environment lets it.
Undisturbed(a) ==
  \/ "race_reject" \in Hazards
  \/ \A v \in Reviewers :
       review[v].pc = "commit" => RejectAcct(review[v].req) # a

-------------------------------------------------------------------------------
(* createWithdrawal: the limits are read first, the hold is taken later.   *)

Counted_NotConfirmed == {"pending_review", "approved", "broadcasting"}
Counted == {"pending_review", "approved", "broadcasting", "confirmed"}
Usd == [r \in Requests |-> Amount[r] * Price[AssetOf[r]]]
DailyUsed(u) ==
  Total(Usd, {r \in Requests : Owner[r] = u /\ status[r] \in Counted})

SubmitCheck(r) ==
  /\ r \notin checked
  /\ enabled[Owner[r]]
  /\ MaxPerDay = 0 \/ DailyUsed(Owner[r]) + Usd[r] <= MaxPerDay
  /\ "race_submit" \in Hazards \/ \A q \in checked : Owner[q] # Owner[r]
  /\ checked' = checked \cup {r}
  /\ UNCHANGED <<ledger, requestVars, settings, txs, review, worker>>

\* No request carries this idempotency key yet.
IsNew_Always(r) == TRUE
IsNew_UnlessOpen(r) == status[r] \notin Open
IsNew(r) == status[r] = "none"

Affordable(r) == available[Acct(r)] >= Amount[r]

\* The key is new and the balance suffices: hold the funds, file the request.
SubmitHold(r) ==
  /\ r \in checked
  /\ IsNew(r) /\ Affordable(r)
  /\ Undisturbed(Acct(r))
  /\ checked' = checked \ {r}
  /\ available' = [available EXCEPT ![Acct(r)] = @ - Amount[r]]
  /\ locked' = [locked EXCEPT ![Acct(r)] = @ + Amount[r]]
  /\ hold' = [hold EXCEPT ![Acct(r)] = @ + Amount[r]]
  /\ entries' = entries \cup {Entry("hold", r)}
  /\ status' = [status EXCEPT ![r] = "pending_review"]
  /\ UNCHANGED <<settings, treasury, feeVault, hash, txs, review, worker>>

\* A retry returns the request of that key; a poor account is refused.
SubmitNothing(r) ==
  /\ r \in checked
  /\ ~IsNew(r) \/ ~Affordable(r)
  /\ checked' = checked \ {r}
  /\ UNCHANGED <<ledger, requestVars, settings, txs, review, worker>>

-------------------------------------------------------------------------------
(* reviewWithdrawal: the status is read outside any transaction; approval  *)
(* is an update by id; rejection is a read-committed transaction that      *)
(* writes back the balances it read.                                       *)

NoSnap == [available |-> 0, locked |-> 0, hold |-> 0]
Idle == [pc |-> "idle", req |-> NoRequest, snap |-> NoSnap]

ReviewRead(v, r, decision) ==
  /\ review[v].pc = "idle"
  /\ status[r] \in Pending
  /\ "race_review" \in Hazards \/ \A w \in Reviewers : review[w].req # r
  /\ review' = [review EXCEPT ![v] =
                  [pc |-> decision, req |-> r, snap |-> NoSnap]]
  /\ UNCHANGED <<ledger, requestVars, checked, settings, txs, worker>>

Approve(v) ==
  /\ review[v].pc = "approve"
  /\ status' = [status EXCEPT ![review[v].req] = "approved"]
  /\ review' = [review EXCEPT ![v] = Idle]
  /\ UNCHANGED <<ledger, hash, checked, settings, txs, worker>>

RejectRead(v) ==
  LET r == review[v].req  a == RejectAcct(r) IN
  /\ review[v].pc = "reject"
  /\ Undisturbed(a)
  /\ hold[a] >= Amount[r]
  /\ review' = [review EXCEPT ![v] =
                  [pc |-> "commit", req |-> r,
                   snap |-> [available |-> available[a], locked |-> locked[a],
                             hold |-> hold[a]]]]
  /\ UNCHANGED <<ledger, requestVars, checked, settings, txs, worker>>

RejectCommit_HoldDecremented(v) ==
  LET r == review[v].req  a == RejectAcct(r)  s == review[v].snap IN
  /\ review[v].pc = "commit"
  /\ ~HasKey("reject", r)
  /\ available' = [available EXCEPT ![a] = s.available + Amount[r]]
  /\ locked' = [locked EXCEPT ![a] = s.locked - Amount[r]]
  /\ hold' = [hold EXCEPT ![a] = @ - Amount[r]]
  /\ entries' = entries \cup {Entry("reject", r)}
  /\ status' = [status EXCEPT ![r] = "rejected"]
  /\ review' = [review EXCEPT ![v] = Idle]
  /\ UNCHANGED <<treasury, feeVault, hash, checked, settings, txs, worker>>

RejectCommit(v) ==
  LET r == review[v].req  a == RejectAcct(r)  s == review[v].snap IN
  /\ review[v].pc = "commit"
  /\ ~HasKey("reject", r)
  /\ available' = [available EXCEPT ![a] = s.available + Amount[r]]
  /\ locked' = [locked EXCEPT ![a] = s.locked - Amount[r]]
  /\ hold' = [hold EXCEPT ![a] = s.hold - Amount[r]]
  /\ entries' = entries \cup {Entry("reject", r)}
  /\ status' = [status EXCEPT ![r] = "rejected"]
  /\ review' = [review EXCEPT ![v] = Idle]
  /\ UNCHANGED <<treasury, feeVault, hash, checked, settings, txs, worker>>

\* The hold account lacks the funds, or the entry's key is taken: rolled back.
RejectRefused(v) ==
  LET r == review[v].req IN
  /\ \/ review[v].pc = "reject" /\ hold[RejectAcct(r)] < Amount[r]
     \/ review[v].pc = "commit" /\ HasKey("reject", r)
  /\ review' = [review EXCEPT ![v] = Idle]
  /\ UNCHANGED <<ledger, requestVars, checked, settings, txs, worker>>

\* updateWalletUserStatus
SetWallet(u) ==
  /\ "disable" \in Hazards
  /\ enabled' = [enabled EXCEPT ![u] = ~@]
  /\ UNCHANGED <<ledger, requestVars, checked, mode, txs, review, worker>>

-------------------------------------------------------------------------------
(* The settlement worker's tick: the approved requests it listed, one      *)
(* after the other, then those being broadcast.  isTickRunning makes it a  *)
(* single process.                                                         *)

Asleep == [phase |-> "idle", pc |-> "next", todo |-> {}, cur |-> NoRequest]
Listing(phase, S) ==
  [phase |-> phase, pc |-> "next", todo |-> S, cur |-> NoRequest]
Goto(pc) == worker' = [worker EXCEPT !.pc = pc]
NextInList == worker' = [worker EXCEPT !.pc = "next", !.cur = NoRequest]
Take(r, pc) ==
  worker' = [worker EXCEPT !.pc = pc, !.cur = r, !.todo = @ \ {r}]
Skip(r) == worker' = [worker EXCEPT !.todo = @ \ {r}]
At(phase, pc) == worker.phase = phase /\ worker.pc = pc
Here(pc) == worker.phase # "idle" /\ worker.pc = pc

\* Rows to broadcast, both in the list and in the claiming update.
ToBroadcast_Again(r) == status[r] \in {"approved", "broadcasting"}
ToBroadcast(r) == status[r] = "approved"

\* processApprovedWithdrawals: the list of the tick
ListApproved ==
  /\ worker.phase = "idle"
  /\ worker' = Listing("approved",
       {r \in Requests : ToBroadcast(r) /\ enabled[Owner[r]]})
  /\ UNCHANGED <<ledger, requestVars, checked, settings, txs, review>>

Confirmable(r) == status[r] = "broadcasting" /\ hash[r] # 0

\* processBroadcastingWithdrawals: only rows that carry a hash
ListBroadcasting ==
  /\ At("approved", "next") /\ worker.todo = {}
  /\ worker' = Listing("broadcasting",
       {r \in Requests : Confirmable(r) /\ enabled[Owner[r]]})
  /\ UNCHANGED <<ledger, requestVars, checked, settings, txs, review>>

EndTick ==
  /\ At("broadcasting", "next") /\ worker.todo = {}
  /\ worker' = Asleep
  /\ UNCHANGED <<ledger, requestVars, checked, settings, txs, review>>

Claim(r) ==
  /\ At("approved", "next") /\ r \in worker.todo
  /\ ToBroadcast(r)
  /\ status' = [status EXCEPT ![r] = "broadcasting"]
  /\ Take(r, "claimed")
  /\ UNCHANGED <<ledger, hash, checked, settings, txs, review>>

ClaimLost(r) ==
  /\ At("approved", "next") /\ r \in worker.todo
  /\ ~ToBroadcast(r)
  /\ Skip(r)
  /\ UNCHANGED <<ledger, requestVars, checked, settings, txs, review>>

\* The claimed row is read again: a disabled wallet or a missing network or
\* treasury wallet sends it back, otherwise the transfer is next.
Prepare ==
  /\ Here("claimed")
  /\ Goto(IF enabled[Owner[worker.cur]] /\ AssetOf[worker.cur] \in Configured
          THEN "send" ELSE "revert")
  /\ UNCHANGED <<ledger, requestVars, checked, settings, txs, review>>

SendTx(r) ==
  txs' = [txs EXCEPT ![r] =
            Append(@, IF mode = "mock" THEN "simulated" ELSE "pending")]

Transfer ==
  /\ Here("send")
  /\ SendTx(worker.cur)
  /\ Goto("sent")
  /\ UNCHANGED <<ledger, requestVars, checked, settings, review>>

\* The custody service fails before anything leaves.
TransferRefused ==
  /\ Here("send")
  /\ Goto("revert")
  /\ UNCHANGED <<ledger, requestVars, checked, settings, txs, review>>

\* The transaction is in the mempool and the call still throws.
TransferLateError ==
  /\ Here("send")
  /\ "late_error" \in Hazards /\ mode = "real"
  /\ SendTx(worker.cur)
  /\ Goto("revert")
  /\ UNCHANGED <<ledger, requestVars, checked, settings, review>>

\* The hash is stored by an update by id, which also sets the status; a
\* simulated transfer is finalized at once.
RecordHash ==
  LET r == worker.cur IN
  /\ Here("sent")
  /\ status' = [status EXCEPT ![r] = "broadcasting"]
  /\ hash' = [hash EXCEPT ![r] = Len(txs[r])]
  /\ IF mode = "mock" THEN Goto("finalize") ELSE NextInList
  /\ UNCHANGED <<ledger, checked, settings, txs, review>>

\* The update, or the audit row written after it, fails inside the try block.
RecordError(stored) ==
  LET r == worker.cur IN
  /\ Here("sent")
  /\ "late_error" \in Hazards
  /\ status' = IF stored THEN [status EXCEPT ![r] = "broadcasting"] ELSE status
  /\ hash' = IF stored THEN [hash EXCEPT ![r] = Len(txs[r])] ELSE hash
  /\ Goto("revert")
  /\ UNCHANGED <<ledger, checked, settings, txs, review>>

-------------------------------------------------------------------------------
(* processBroadcastingWithdrawal, finalizeConfirmedWithdrawal and          *)
(* revertWithdrawal.                                                       *)

CheckBroadcast(r) ==
  /\ At("broadcasting", "next") /\ r \in worker.todo
  /\ IF ~Confirmable(r) THEN Skip(r)
     ELSE Take(r, IF enabled[Owner[r]] THEN "receipt" ELSE "revert")
  /\ UNCHANGED <<ledger, requestVars, checked, settings, txs, review>>

TxState(r) == txs[r][hash[r]]

\* No receipt yet, too few confirmations, or the network is not configured.
NoReceipt_MeansFailed ==
  /\ Here("receipt")
  /\ Goto("revert")
  /\ UNCHANGED <<ledger, requestVars, checked, settings, txs, review>>

NoReceipt ==
  /\ Here("receipt")
  /\ NextInList
  /\ UNCHANGED <<ledger, requestVars, checked, settings, txs, review>>

Mined_OnlySuccess(r) == TxState(r) = "success"
Mined(r) == TxState(r) \in {"success", "failed"}

Succeeded_IfMined(r) == TxState(r) \in {"success", "failed"}
Succeeded(r) == TxState(r) = "success"

Receipt ==
  /\ Here("receipt")
  /\ Mined(worker.cur)
  /\ Goto(IF Succeeded(worker.cur) THEN "finalize" ELSE "revert")
  /\ UNCHANGED <<ledger, requestVars, checked, settings, txs, review>>

Covered_Unchecked(r) == TRUE
Covered(r) == hold[Acct(r)] >= Amount[r] /\ locked[Acct(r)] >= Amount[r]

Net_Gross(r) == Amount[r]
Net(r) == Amount[r] - Fee[r]

\* hold -> treasury, then the fee treasury -> fee account
FinalizePost(r) ==
  LET fee == Fee[r] > 0 IN
  /\ Covered(r)
  /\ hold' = [hold EXCEPT ![Acct(r)] = @ - Amount[r]]
  /\ locked' = [locked EXCEPT ![Acct(r)] = @ - Amount[r]]
  /\ treasury' = [treasury EXCEPT ![AssetOf[r]] = @ + Net(r)]
  /\ feeVault' = [feeVault EXCEPT ![AssetOf[r]] = @ + Fee[r]]
  /\ entries' = entries \cup {Entry("finalize", r)}
       \cup (IF fee /\ EntryKey("fee", r) # EntryKey("finalize", r)
             THEN {Entry("fee", r)} ELSE {})
  /\ UNCHANGED available

Finalize ==
  LET r == worker.cur IN
  /\ Here("finalize")
  /\ Undisturbed(Acct(r))
  /\ status[r] = "broadcasting"
  /\ IF HasKey("finalize", r) THEN UNCHANGED ledger ELSE FinalizePost(r)
  /\ status' = [status EXCEPT ![r] = "confirmed"]
  /\ NextInList
  /\ UNCHANGED <<hash, checked, settings, txs, review>>

\* Already confirmed, or no longer being broadcast.
FinalizeStale ==
  /\ Here("finalize")
  /\ status[worker.cur] # "broadcasting"
  /\ NextInList
  /\ UNCHANGED <<ledger, requestVars, checked, settings, txs, review>>

\* The transaction throws: a simulated broadcast is still inside the try
\* block, the confirmation pass is not and the tick ends.
FinalizeError ==
  LET r == worker.cur IN
  /\ Here("finalize")
  /\ \/ "io_error" \in Hazards
     \/ status[r] = "broadcasting" /\ ~HasKey("finalize", r) /\ ~Covered(r)
  /\ IF worker.phase = "approved" THEN Goto("revert") ELSE worker' = Asleep
  /\ UNCHANGED <<ledger, requestVars, checked, settings, txs, review>>

Released(r) == Amount[r]

RevertPost(r) ==
  /\ Covered(r)
  /\ available' = [available EXCEPT ![Acct(r)] = @ + Released(r)]
  /\ locked' = [locked EXCEPT ![Acct(r)] = @ - Amount[r]]
  /\ hold' = [hold EXCEPT ![Acct(r)] = @ - Amount[r]]
  /\ entries' = entries \cup {Entry("revert", r)}
  /\ UNCHANGED <<treasury, feeVault>>

Revert_ToFailed ==
  LET r == worker.cur IN
  /\ Here("revert")
  /\ Undisturbed(Acct(r))
  /\ status[r] \notin Terminal
  /\ IF HasKey("revert", r) THEN UNCHANGED ledger ELSE RevertPost(r)
  /\ status' = [status EXCEPT ![r] = "failed"]
  /\ NextInList
  /\ UNCHANGED <<hash, checked, settings, txs, review>>

Revert ==
  LET r == worker.cur IN
  /\ Here("revert")
  /\ Undisturbed(Acct(r))
  /\ status[r] \notin Terminal
  /\ IF HasKey("revert", r) THEN UNCHANGED ledger ELSE RevertPost(r)
  /\ status' = [status EXCEPT ![r] = "reverted"]
  /\ NextInList
  /\ UNCHANGED <<hash, checked, settings, txs, review>>

RevertStale ==
  /\ Here("revert")
  /\ status[worker.cur] \in Terminal
  /\ NextInList
  /\ UNCHANGED <<ledger, requestVars, checked, settings, txs, review>>

\* An error nothing catches before the tick's own handler: the tick ends.
AbortTick ==
  /\ worker.phase # "idle"
  /\ \/ "io_error" \in Hazards /\ worker.pc \in {"next", "claimed", "receipt", "revert"}
     \/ /\ worker.pc = "revert"
        /\ LET r == worker.cur IN
             status[r] \notin Terminal /\ ~HasKey("revert", r) /\ ~Covered(r)
  /\ worker' = Asleep
  /\ UNCHANGED <<ledger, requestVars, checked, settings, txs, review>>

-------------------------------------------------------------------------------
(* The chain and the process.                                              *)

\* A transfer is mined with enough confirmations, and succeeds or fails.
Mine(r, outcome) ==
  \E i \in 1..Len(txs[r]) :
    /\ txs[r][i] = "pending"
    /\ txs' = [txs EXCEPT ![r][i] = outcome]
    /\ UNCHANGED <<ledger, requestVars, checked, settings, review, worker>>

\* One process runs the API and the worker: open calls and the tick are lost,
\* an open rejection is rolled back.
Crash ==
  /\ "crash" \in Hazards
  /\ checked' = {}
  /\ review' = [v \in Reviewers |-> Idle]
  /\ worker' = Asleep
  /\ UNCHANGED <<ledger, requestVars, settings, txs>>

-------------------------------------------------------------------------------
Init ==
  /\ status = [r \in Requests |-> "none"]
  /\ checked = {}
  /\ enabled = [u \in Users |-> TRUE]
  /\ mode \in Modes
  /\ available = InitialBalance
  /\ locked = [a \in Accounts |-> 0]
  /\ hold = [a \in Accounts |-> 0]
  /\ treasury = [c \in Assets |-> 0]
  /\ feeVault = [c \in Assets |-> 0]
  /\ entries = {}
  /\ hash = [r \in Requests |-> 0]
  /\ txs = [r \in Requests |-> <<>>]
  /\ review = [v \in Reviewers |-> Idle]
  /\ worker = Asleep

Submit(r) == SubmitCheck(r) \/ SubmitHold(r) \/ SubmitNothing(r)

Decide(v) == Approve(v) \/ RejectRead(v) \/ RejectCommit(v) \/ RejectRefused(v)

WorkerStep ==
  \/ ListBroadcasting \/ EndTick
  \/ \E r \in Requests : Claim(r) \/ ClaimLost(r) \/ CheckBroadcast(r)
  \/ Prepare \/ Transfer \/ TransferRefused \/ TransferLateError
  \/ RecordHash \/ \E stored \in BOOLEAN : RecordError(stored)
  \/ NoReceipt \/ Receipt
  \/ Finalize \/ FinalizeStale \/ FinalizeError
  \/ Revert \/ RevertStale \/ AbortTick

Next ==
  \/ \E r \in Requests : Submit(r)
  \/ \E v \in Reviewers, r \in Requests, d \in {"approve", "reject"} :
       ReviewRead(v, r, d)
  \/ \E v \in Reviewers : Decide(v)
  \/ \E u \in Users : SetWallet(u)
  \/ ListApproved
  \/ WorkerStep
  \/ \E r \in Requests, o \in {"success", "failed"} : Mine(r, o)
  \/ Crash

Spec == Init /\ [][Next]_vars

\* The timer keeps ticking, a started tick runs on, the event loop resumes a
\* review it accepted, and a transfer in the mempool is mined.  NoReceipt is
\* the answer only as long as there is no receipt, hence the strong fairness.
Fairness ==
  /\ WF_vars(ListApproved)
  /\ WF_vars(WorkerStep)
  /\ SF_vars(Receipt)
  /\ \A v \in Reviewers : WF_vars(Decide(v))
  /\ \A r \in Requests : WF_vars(\E o \in {"success", "failed"} : Mine(r, o))

FairSpec == Spec /\ Fairness
-------------------------------------------------------------------------------
EntryRows == {Entry(k, r) : k \in EntryKinds, r \in Requests}
ReviewStates ==
  {Idle} \cup [pc : {"approve", "reject", "commit"}, req : Requests,
               snap : [available : Int, locked : Int, hold : Int]]

\* The worker is between two requests, or busy with one of its list.
BusyPcs == {"claimed", "send", "sent", "revert", "receipt", "finalize"}
WorkerStates ==
  [phase : {"idle", "approved", "broadcasting"}, pc : {"next"},
   todo : SUBSET Requests, cur : {NoRequest}]
  \cup [phase : {"approved", "broadcasting"}, pc : BusyPcs,
        todo : SUBSET Requests, cur : Requests]

\* Every variable holds a value of its declared kind; no status outside the
\* ones the code writes ("requested" and "failed" are never reached).
TypeOK ==
  /\ status \in [Requests -> Statuses]
  /\ checked \subseteq Requests
  /\ enabled \in [Users -> BOOLEAN]
  /\ mode \in Modes
  /\ available \in [Accounts -> Int]
  /\ locked \in [Accounts -> Int]
  /\ hold \in [Accounts -> Int]
  /\ treasury \in [Assets -> Int]
  /\ feeVault \in [Assets -> Int]
  /\ entries \subseteq EntryRows
  /\ hash \in [Requests -> Nat]
  /\ txs \in [Requests -> Seq(TxStates)]
  /\ review \in [Reviewers -> ReviewStates]
  /\ worker \in WorkerStates
=============================================================================
