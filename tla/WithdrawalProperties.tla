------------------------ MODULE WithdrawalProperties ------------------------
(***************************************************************************)
(* What the withdrawal path must guarantee.  Each property names the       *)
(* hazards under which the code keeps it; the runs that add a hazard it    *)
(* does not survive are in the README.                                     *)
(***************************************************************************)
EXTENDS Withdrawal

Transfers(r, states) == {i \in 1..Len(txs[r]) : txs[r][i] \in states}

\* The hold account and the locked part of the user account are the same
\* money: every path moves both or neither, whichever asset a rejection picks.
LockedIsHeld == locked = hold

\* The hold account of a user is exactly the sum of his undecided requests in
\* that asset: nothing stranded after a decision, nothing released before.
HeldFor(a) == Total(Amount, {r \in Requests : Acct(r) = a /\ status[r] \in Open})
HoldsCoverOpenRequests == \A a \in Accounts : hold[a] = HeldFor(a)

\* Double entry: every balance is its opening value plus and minus the entries
\* posted to it, so no balance write is lost and no posting is missing.
EntryAcct(e) == IF e.kind = "reject" THEN RejectAcct(e.req) ELSE Acct(e.req)
EntryAmount == [e \in EntryRows |-> IF e.kind = "fee" THEN Fee[e.req] ELSE Amount[e.req]]
Posted(kinds, a) ==
  Total(EntryAmount, {e \in entries : e.kind \in kinds /\ EntryAcct(e) = a})
PostedPlatform(kind, c) ==
  Total(EntryAmount, {e \in entries : e.kind = kind /\ AssetOf[e.req] = c})
BooksBalance ==
  /\ \A a \in Accounts :
       LET held == Posted({"hold"}, a)  released == Posted({"reject", "revert"}, a)
       IN  /\ available[a] = InitialBalance[a] - held + released
           /\ hold[a] = held - released - Posted({"finalize"}, a)
  /\ \A c \in Assets :
       /\ treasury[c] = PostedPlatform("finalize", c) - PostedPlatform("fee", c)
       /\ feeVault[c] = PostedPlatform("fee", c)

\* No account of a user is ever overdrawn.
NotOverdrawn ==
  \A a \in Accounts : available[a] >= 0 /\ locked[a] >= 0 /\ hold[a] >= 0

\* A decided request was posted to the ledger once and in the way its status
\* says; an undecided one only holds.
SettledOnce ==
  \A r \in Requests :
    /\ Entered("reject", r) <=> status[r] = "rejected"
    /\ Entered("finalize", r) <=> status[r] = "confirmed"
    /\ Entered("revert", r) <=> status[r] = "reverted"
    /\ Entered("hold", r) <=> status[r] # "none"

\* The treasury sends at most one transfer for a request, whatever crashes,
\* errors and wallet switches come between.
SentAtMostOnce == \A r \in Requests : Len(txs[r]) <= 1

\* Money given back was not paid out and can no longer be: no transfer of a
\* rejected or reverted request has succeeded or is in the mempool.
RefundedUnpaid ==
  \A r \in Requests : status[r] \in {"rejected", "reverted"} =>
    Transfers(r, {"success", "pending"}) = {}

\* A confirmed request names a transfer that did succeed.
ConfirmedIsPaid ==
  \A r \in Requests : status[r] = "confirmed" =>
    /\ hash[r] \in 1..Len(txs[r])
    /\ TxState(r) \in {"success", "simulated"}

\* What a user has asked for and not got back is worth no more than his limit.
Kept(u) == {r \in Requests : Owner[r] = u /\ status[r] \in Open \cup {"confirmed"}}
WithinDailyLimit ==
  MaxPerDay > 0 => \A u \in Users : Total(Usd, Kept(u)) <= MaxPerDay

\* A decision is final: no later review, retry, tick or restart changes it.
DecisionsAreFinal ==
  [][\A r \in Requests : status[r] \in Terminal => status'[r] = status[r]]_vars

\* If the process restarts only finitely often, an approved withdrawal is
\* eventually confirmed or given back.
ApprovedSettles ==
  <>[][~Crash]_vars =>
    \A r \in Requests :
      (status[r] = "approved") ~> (status[r] \in {"confirmed", "reverted"})

-------------------------------------------------------------------------------
\* The promise, read off the ledger and the chain: a request is held until its
\* status is final, and delivered when a transfer has succeeded.
OutcomeOf(r) ==
  CASE status[r] = "none" -> "none"
    [] status[r] \in Open -> "held"
    [] status[r] = "confirmed" -> "paid"
    [] OTHER -> "refunded"

Promise == INSTANCE WithdrawalPromise WITH
  AcctOf <- [r \in Requests |-> Acct(r)],
  outcome <- [r \in Requests |-> OutcomeOf(r)],
  balance <- available,
  delivered <- [r \in Requests |->
                  Cardinality(Transfers(r, {"success", "simulated"}))]

\* The system keeps the promise: every step of the ledger, the worker and the
\* chain is a step of WithdrawalPromise or leaves its state unchanged.
KeepsPromise == Promise!Spec
=============================================================================
