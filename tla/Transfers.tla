------------------------------- MODULE Transfers -------------------------------
(***************************************************************************)
(* Internal transfers under the daily limit of the sender's tier, and the  *)
(* identity reviews that set the tier.  The limit is checked before the    *)
(* serializable transaction that moves the money, which looks only at the  *)
(* idempotency key and the balance.  One asset, at a fixed price.          *)
(***************************************************************************)
EXTENDS Integers, Sequences, FiniteSetsExt, Totals

CONSTANTS
  Users, NoUser, TransferCalls,
  Payers, Applicants,  \* bound: the users who transfer, and whose identity is reviewed
  Amounts, Keys, FirstBalance,
  LimitOf,       \* RiskLimit rows: maxInternalTransferPerDay of a tier, 0 for none
  Tiers,         \* what a reviewer may write as a tier, known or not
  MaxEntries, LastDay

VARIABLES
  scene, account,
  walletOn, wallet, barred,  \* of Provisioning
  balance,       \* available amounts
  entries,       \* LedgerEntry rows of internal transfers, in the order they commit
  today,
  kyc,           \* KycProfile rows: status and tier
  transferring   \* calls between their checks and their transaction

transferRows == <<balance, entries, today, kyc>>

NoTransfer == [from |-> NoUser, to |-> NoUser, key |-> CHOOSE k \in Keys : TRUE,
               amount |-> 0, limit |-> 0, barred |-> FALSE]

\* resolveRiskLimitForUser: a tier without a row counts as basic.
Limit(u) == LimitOf[IF kyc[u].tier \in DOMAIN LimitOf THEN kyc[u].tier ELSE "basic"]

AmountOf == [i \in 1..Len(entries) |-> entries[i].amount]
OfDay(u, day) == {i \in 1..Len(entries) : entries[i].from = u /\ entries[i].day = day}
Used(u, day) == Total(AmountOf, OfDay(u, day))
WithinLimit_PerTransfer(u, amount) == Limit(u) > 0 => amount <= Limit(u)
WithinLimit(u, amount) == Limit(u) > 0 => Used(u, today) + amount <= Limit(u)

\* ensureWalletForUser, whose steps are Provisioning's, has returned a wallet.
Usable(u) == account[u] = "active" /\ walletOn /\ wallet[u].status \notin {"none", "disabled"}

BeginTransfer(c, u, v, amount, key) ==
  /\ "transfers" \in scene /\ transferring[c] = NoTransfer
  /\ "overlap_transfers" \in scene \/ \A o \in TransferCalls : transferring[o] = NoTransfer
  /\ u # v /\ Usable(u) /\ Usable(v) /\ WithinLimit(u, amount)
  /\ transferring' = [transferring EXCEPT ![c] =
       [from |-> u, to |-> v, key |-> key, amount |-> amount,
        limit |-> Limit(u), barred |-> barred[u] \/ barred[v]]]
  /\ UNCHANGED transferRows

\* A key that is known, whoever used it, returns its entry.
Known(key) == \E i \in 1..Len(entries) : entries[i].key = key

Covered_Any(t) == TRUE
Covered(t) == balance[t.from] >= t.amount

CommitTransfer(c) ==
  LET t == transferring[c] IN
  /\ t # NoTransfer
  /\ IF Known(t.key) \/ ~Covered(t) \/ Len(entries) = MaxEntries
     THEN UNCHANGED <<balance, entries>>
     ELSE /\ balance' = [balance EXCEPT ![t.from] = @ - t.amount, ![t.to] = @ + t.amount]
          /\ entries' = Append(entries,
               [from |-> t.from, to |-> t.to, key |-> t.key, amount |-> t.amount,
                limit |-> t.limit, barred |-> t.barred, day |-> today])
  /\ transferring' = [transferring EXCEPT ![c] = NoTransfer]
  /\ UNCHANGED <<today, kyc>>

\* The deposits and tips that change a balance are other modules'.
NextDay ==
  /\ "transfers" \in scene /\ today < LastDay
  /\ today' = today + 1
  /\ UNCHANGED <<balance, entries, kyc, transferring>>

\* A new submission keeps the tier.
SubmitKyc(u) ==
  /\ "kyc" \in scene /\ account[u] = "active"
  /\ kyc' = [kyc EXCEPT ![u].status = "pending"]
  /\ UNCHANGED <<balance, entries, today, transferring>>

\* Any submission may be reviewed, again and again; only an approval asks that
\* the tier exists.
TierAllowed(verdict, tier) == verdict = "approved" => tier \in DOMAIN LimitOf

ReviewKyc(u, verdict, asked) ==
  LET tier == IF asked = "" THEN kyc[u].tier ELSE asked IN
  /\ "kyc" \in scene /\ kyc[u].status # "not_submitted" /\ TierAllowed(verdict, tier)
  /\ kyc' = [kyc EXCEPT ![u] = [status |-> verdict, tier |-> tier]]
  /\ UNCHANGED <<balance, entries, today, transferring>>

-------------------------------------------------------------------------------
TransfersInit ==
  /\ balance = FirstBalance /\ entries = <<>> /\ today = 0
  /\ kyc = [u \in Users |-> [status |-> "not_submitted", tier |-> "basic"]]
  /\ transferring = [c \in TransferCalls |-> NoTransfer]

TransferStep ==
  \/ \E c \in TransferCalls :
       \/ CommitTransfer(c)
       \/ \E u, v \in Payers, amount \in Amounts, key \in Keys : BeginTransfer(c, u, v, amount, key)
  \/ NextDay
  \/ \E u \in Applicants :
       \/ SubmitKyc(u)
       \/ \E verdict \in {"approved", "rejected"}, asked \in Tiers \cup {""} :
            ReviewKyc(u, verdict, asked)

TransfersTypeOK ==
  /\ balance \in [Users -> Nat] /\ today \in 0..LastDay
  /\ kyc \in [Users -> [status : {"not_submitted", "pending", "approved", "rejected"},
                        tier : Tiers \cup DOMAIN LimitOf]]
  /\ \A i \in 1..Len(entries) :
       entries[i] \in [from : Users, to : Users, key : Keys, amount : Amounts,
                       limit : Nat, barred : BOOLEAN, day : 0..LastDay]
  /\ \A c \in TransferCalls :
       transferring[c] \in [from : Users \cup {NoUser}, to : Users \cup {NoUser}, key : Keys,
                            amount : Amounts \cup {0}, limit : Nat, barred : BOOLEAN]
===============================================================================
