---------------------------- MODULE DepositPipeline ----------------------------
(***************************************************************************)
(* The indexer and the sweeper in one process, over the same rows, and     *)
(* what a depositor may expect of them together.                           *)
(***************************************************************************)
EXTENDS DepositIndexer, Sequences, Totals

CONSTANTS InTreasury, Unroutable, JobPage, Sweeping, MaxSent

ASSUME SweepAssumption ==
  /\ InTreasury \subseteq Deposits /\ Unroutable \subseteq Deposits
  /\ JobPage \in Nat \ {0} /\ MaxSent \in Nat \ {0}
  /\ NoDeposit \notin Deposits
  /\ Sweeping \subseteq {"late_error", "refusal", "io_error", "crash"}

VARIABLES jobs, job, sent, sweeper

Sweep == INSTANCE DepositSweep

sweepOwn == <<jobs, job, sent, sweeper>>
indexerOwn == <<head, gone, active, cache, balance, realtime, cursor, stream,
                seeking, clearing, inbox, handler, tick>>
vars == <<indexerVars, sweepOwn>>

OfActive == {d \in Deposits : OwnerOf[d] \in active}

PipelineInit == Init /\ Sweep!Init

\* A restart takes both down; everything else is a step of one of them.
Restart == Crash /\ Sweep!SweepCrash

PipelineNext ==
  \/ IndexerStep /\ UNCHANGED sweepOwn
  \/ Sweep!Step(OfActive) /\ UNCHANGED indexerOwn
  \/ Sweep!Faults /\ UNCHANGED indexerOwn
  \/ Restart

Spec == PipelineInit /\ [][PipelineNext]_vars

\* The settlement worker's timer keeps firing and a started tick runs on.
FairSpec ==
  /\ Spec
  /\ Fairness
  /\ WF_vars(Sweep!Step(OfActive) /\ UNCHANGED indexerOwn)

-------------------------------------------------------------------------------
TypeOK == IndexerTypeOK /\ Sweep!SweepTypeOK

Kept(u) == {d \in Deposits : OwnerOf[d] = u /\ row[d] \in {"credited", "swept"}}

\* The tick, the stream and the administrator all credit: a user's balance is
\* the sum of his credited deposits, each counted once.
CreditedOnce ==
  \A u \in Users : balance[u] = Total(Value, Kept(u))

\* Nothing is credited before its confirmations, nor if the chain has dropped
\* it, however stale the head a caller counted them from.
CreditedIsConfirmed ==
  \A d \in Deposits : row[d] \in {"credited", "swept"} =>
    d \notin gone /\ head - BlockOf[d] + 1 >= Confs

\* A scan that was cut off had recorded another deposit of the block.
PartlyRecorded(d) ==
  /\ Hazards \cap {"crash", "io_error"} # {} /\ row[d] = "none"
  /\ \E e \in Deposits : BlockOf[e] = BlockOf[d] /\ row[e] # "none"

\* The cursor is the only memory of what was scanned: every transfer at or
\* below it is recorded, or still queued in the stream, unless a restart or a
\* failing call left its block partly recorded.
NothingSkipped ==
  \A d \in Deposits :
    OnChain(d) /\ BlockOf[d] \in StartBlock..cursor /\ row[d] = "none" =>
      d \in inbox \/ PartlyRecorded(d)

\* A deposit is moved to the treasury at most once, through refusals, failing
\* calls, retries of failed jobs and restarts; one that is marked swept was sent,
\* or lay in the treasury already; a job that failed moved nothing.
SweptOnce ==
  \A d \in Deposits :
    /\ sent[d] <= 1
    /\ row[d] = "swept" => sent[d] > 0 \/ d \in InTreasury
    /\ job[d] \in {"queued", "failed"} => sent[d] = 0

\* Where a deposit has got for its owner: a recorded row promises nothing yet.
OutcomeOf(d) == IF row[d] \in {"credited", "swept"} THEN row[d] ELSE "awaited"

Promise == INSTANCE DepositPromise WITH
  outcome <- [d \in Deposits |-> OutcomeOf(d)],
  moved <- sent

\* Indexer and sweeper together implement DepositPromise: whatever interleaves,
\* fails or restarts, each step credits, moves or closes one deposit, in this
\* order, or changes nothing of it.
KeepsDepositPromise == Promise!Spec

\* If faults and restarts end, every transfer to a user with a ledger account
\* that stays on the chain is credited, the ones mined while the process was
\* down included, unless the cursor is past its partly recorded block; and a credited deposit reaches the treasury or its job was
\* cut off while being processed: a refused job is tried again, and the oldest
\* jobs go first.
Disturbed == Faults \/ Sweep!Faults \/ Restart
DepositsArrive ==
  <>[][~Disturbed]_vars =>
    \A d \in Deposits :
      /\ OwnerOf[d] \in Ledgered =>
           (OnChain(d) ~> \/ row[d] \in {"credited", "swept"} \/ d \in gone
                          \/ PartlyRecorded(d) /\ BlockOf[d] <= cursor)
      /\ row[d] = "credited" /\ d \notin Unroutable ~>
           row[d] = "swept" \/ (job[d] = "processing" /\ sweeper.cur # d)
=============================================================================
