----------------------------- MODULE DepositSweep -----------------------------
(***************************************************************************)
(* Moving credited deposits to the treasury: the settlement worker files a *)
(* sweep job for each credited deposit and then works on the oldest jobs   *)
(* that are queued or failed.  The rows are shared with the indexer.       *)
(***************************************************************************)
EXTENDS Integers, Sequences, FiniteSets

CONSTANTS
  Deposits,
  InTreasury,    \* deposits made to the treasury's own address
  Unroutable,    \* deposits of an asset with no network configured any more
  JobPage,       \* jobs one tick works on at most
  Sweeping,      \* disturbances: "late_error", "refusal", "io_error", "crash"
  MaxSent,       \* bound: a deposit is not sent more often than this
  NoDeposit

VARIABLES
  row,      \* OnchainDeposit.status
  jobs,     \* the deposits that have a sweep job, oldest job first
  job,      \* SweepJob.status, "none" before the row exists
  sent,     \* transfers sent for a deposit
  sweeper   \* the sweep part of the settlement worker's tick

sweepVars == <<row, jobs, job, sent, sweeper>>

JobStates == {"none", "queued", "processing", "failed", "completed"}

Off == [pc |-> "idle", todo |-> {}, list |-> {}, cur |-> NoDeposit]
NextJob == [sweeper EXCEPT !.pc = "jobs", !.cur = NoDeposit]

-------------------------------------------------------------------------------
(* queueDepositSweeps                                                      *)

Sweepable_Recorded(d) == row[d] # "none" /\ job[d] = "none"
Sweepable(d) == row[d] = "credited" /\ job[d] = "none"

\* Whether the wallet is disabled is looked at here only.
SweepStart(enabled) ==
  /\ sweeper.pc = "idle"
  /\ sweeper' = [Off EXCEPT !.pc = "queue",
                   !.todo = {d \in Deposits : Sweepable(d) /\ d \in enabled}]
  /\ UNCHANGED <<row, jobs, job, sent>>

\* The transaction looks again; a deposit that already lies in the treasury
\* needs no transfer.
QueueJob(d) ==
  /\ sweeper.pc = "queue" /\ d \in sweeper.todo
  /\ CASE Sweepable(d) /\ d \in InTreasury ->
            row' = [row EXCEPT ![d] = "swept"] /\ UNCHANGED <<jobs, job>>
       [] Sweepable(d) /\ d \notin InTreasury ->
            /\ jobs' = Append(jobs, d)
            /\ job' = [job EXCEPT ![d] = "queued"]
            /\ UNCHANGED row
       [] OTHER -> UNCHANGED <<row, jobs, job>>
  /\ sweeper' = [sweeper EXCEPT !.todo = @ \ {d}]
  /\ UNCHANGED sent

-------------------------------------------------------------------------------
(* processSweepJobs                                                        *)

Claimable_Stuck(d) == job[d] \in {"queued", "failed", "processing"}
Claimable(d) == job[d] \in {"queued", "failed"}

Open == {d \in Deposits : Claimable(d)}
Older(d, e) == \E i, j \in DOMAIN jobs : i < j /\ jobs[i] = d /\ jobs[j] = e

\* One page of open jobs, the oldest ones.
ListJobs ==
  /\ sweeper.pc = "queue" /\ sweeper.todo = {}
  /\ sweeper' = [sweeper EXCEPT !.pc = "jobs", !.list =
                   {d \in Open : Cardinality({e \in Open : Older(e, d)}) < JobPage}]
  /\ UNCHANGED <<row, jobs, job, sent>>

ClaimJob ==
  /\ sweeper.pc = "jobs"
  /\ \E d \in sweeper.list :
       /\ \A e \in sweeper.list \ {d} : Older(d, e)
       /\ IF Claimable(d)
          THEN /\ job' = [job EXCEPT ![d] = "processing"]
               /\ sweeper' = [sweeper EXCEPT !.pc = "claimed", !.cur = d, !.list = @ \ {d}]
          ELSE /\ sweeper' = [sweeper EXCEPT !.list = @ \ {d}]
               /\ UNCHANGED job
  /\ UNCHANGED <<row, jobs, sent>>

\* failSweepJob: only a job still being processed becomes failed.
Fail(d) == job' = [job EXCEPT ![d] = IF @ = "processing" THEN "failed" ELSE @]

\* No network, or the custody service refuses: nothing left the wallet.
SweepRefused ==
  /\ sweeper.pc = "claimed"
  /\ sweeper.cur \in Unroutable \/ "refusal" \in Sweeping
  /\ Fail(sweeper.cur)
  /\ sweeper' = NextJob
  /\ UNCHANGED <<row, jobs, sent>>

SweepSend ==
  /\ sweeper.pc = "claimed" /\ sweeper.cur \notin Unroutable
  /\ sent' = [sent EXCEPT ![sweeper.cur] = @ + 1]
  /\ sweeper' = [sweeper EXCEPT !.pc = "sent"]
  /\ UNCHANGED <<row, jobs, job>>

\* The transfer is in the mempool and the call still throws.
SweepLateError ==
  /\ "late_error" \in Sweeping
  /\ sweeper.pc = "claimed" /\ sweeper.cur \notin Unroutable
  /\ sent[sweeper.cur] + 1 < MaxSent
  /\ sent' = [sent EXCEPT ![sweeper.cur] = @ + 1]
  /\ Fail(sweeper.cur)
  /\ sweeper' = NextJob
  /\ UNCHANGED <<row, jobs>>

\* One transaction completes the job and marks the deposit swept; an error
\* of the audit row after it finds nothing to fail.
SweepComplete ==
  LET d == sweeper.cur IN
  /\ sweeper.pc = "sent"
  /\ IF job[d] = "processing"
     THEN job' = [job EXCEPT ![d] = "completed"] /\ row' = [row EXCEPT ![d] = "swept"]
     ELSE UNCHANGED <<job, row>>
  /\ sweeper' = NextJob
  /\ UNCHANGED <<jobs, sent>>

\* That transaction fails: the job is failed and will be sent again.
SweepCompleteError ==
  /\ "late_error" \in Sweeping
  /\ sweeper.pc = "sent" /\ sent[sweeper.cur] < MaxSent
  /\ Fail(sweeper.cur)
  /\ sweeper' = NextJob
  /\ UNCHANGED <<row, jobs, sent>>

SweepEnd ==
  /\ sweeper.pc = "jobs" /\ sweeper.list = {}
  /\ sweeper' = Off
  /\ UNCHANGED <<row, jobs, job, sent>>

\* An error outside the try block reaches the tick's handler: the tick ends.
SweepAbort ==
  /\ "io_error" \in Sweeping
  /\ \/ sweeper.pc \in {"queue", "claimed"}
     \/ sweeper.pc = "jobs" /\ sweeper.list # {}
  /\ sweeper' = Off
  /\ UNCHANGED <<row, jobs, job, sent>>

SweepCrash ==
  /\ "crash" \in Sweeping
  /\ sweeper' = Off
  /\ UNCHANGED <<row, jobs, job, sent>>

-------------------------------------------------------------------------------
Init ==
  /\ jobs = <<>>
  /\ job = [d \in Deposits |-> "none"]
  /\ sent = [d \in Deposits |-> 0]
  /\ sweeper = Off

Step(enabled) ==
  \/ SweepStart(enabled) \/ (\E d \in Deposits : QueueJob(d)) \/ ListJobs
  \/ ClaimJob \/ SweepSend \/ SweepComplete \/ SweepEnd

Faults == SweepRefused \/ SweepLateError \/ SweepCompleteError \/ SweepAbort

SweepTypeOK ==
  /\ jobs \in Seq(Deposits)
  /\ job \in [Deposits -> JobStates]
  /\ sent \in [Deposits -> Nat]
  /\ sweeper \in [pc : {"idle", "queue", "jobs", "claimed", "sent"},
                  todo : SUBSET Deposits, list : SUBSET Deposits,
                  cur : Deposits \cup {NoDeposit}]
=============================================================================
