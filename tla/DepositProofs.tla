---------------------------- MODULE DepositProofs ----------------------------
(***************************************************************************)
(* Proofs about DepositPipeline for every set of users and deposits, every *)
(* number of confirmations and every page size.                            *)
(***************************************************************************)
EXTENDS DepositPipeline, TotalsProofs

-------------------------------------------------------------------------------
(* The sweeper: a deposit leaves for the treasury at most once.            *)

RowsOK ==
  /\ row \in [Deposits -> Rows]
  /\ job \in [Deposits -> Sweep!JobStates]
  /\ sent \in [Deposits -> Nat]

\* A transfer was sent for a job only while it is processed, and once.
SentWhileProcessed(d) ==
  /\ sent[d] <= 1
  /\ job[d] \in {"none", "queued", "failed"} => sent[d] = 0
  /\ row[d] = "swept" => sent[d] > 0 \/ d \in InTreasury

\* The job in hand is being processed; the sweeper knows if it was sent.
JobInHand ==
  sweeper.cur \in Deposits =>
    /\ sweeper.pc \in {"claimed", "sent"} => job[sweeper.cur] = "processing"
    /\ sweeper.pc = "claimed" => sent[sweeper.cur] = 0
    /\ sweeper.pc = "sent" => sent[sweeper.cur] = 1

SweeperOK ==
  /\ sweeper = [pc |-> sweeper.pc, todo |-> sweeper.todo,
                list |-> sweeper.list, cur |-> sweeper.cur]

SweepInv ==
  /\ RowsOK
  /\ SweeperOK
  /\ \A d \in Deposits : SentWhileProcessed(d)
  /\ JobInHand

\* The indexer shares only the rows with the sweeper, and marks none swept.
LEMMA IndexerRows ==
  ASSUME row \in [Deposits -> Rows], IndexerStep \/ Crash
  PROVE  /\ row' \in [Deposits -> Rows]
         /\ \A d \in Deposits : row'[d] = "swept" => row[d] = "swept"
<1> USE DEF indexerVars, chainVars, streamVars, Rows
<1>1. ASSUME NEW d, Record(d) \/ Credit(d)
      PROVE  /\ row' \in [Deposits -> Rows]
             /\ \A e \in Deposits : row'[e] = "swept" => row[e] = "swept"
  <2>1. CASE row' = row
    BY <2>1
  <2>2. CASE row' = [row EXCEPT ![d] = IF @ = "none" THEN "detected" ELSE @]
    BY <2>2
  <2>3. CASE row' = [row EXCEPT ![d] = "credited"]
    BY <2>3
  <2> QED BY <1>1, <2>1, <2>2, <2>3 DEF Record, Credit
<1>2. ASSUME UNCHANGED row
      PROVE  /\ row' \in [Deposits -> Rows]
             /\ \A d \in Deposits : row'[d] = "swept" => row[d] = "swept"
  BY <1>2
<1>3. CASE TickStep
  <2>1. ASSUME NEW d \in Deposits, ScanRecord(d)
        PROVE  Record(d)
    BY <2>1 DEF ScanRecord
  <2>2. ASSUME NEW d \in Deposits, FinalizeCredit(d)
        PROVE  Credit(d)
    BY <2>2 DEF FinalizeCredit
  <2>3. ScanCredit => Credit(tick.cur)
    BY DEF ScanCredit
  <2>4. CASE \/ TickStart \/ TickRead \/ Resolve \/ Fetch
             \/ ScanDone \/ FinalizeList \/ TickEnd
    BY <1>2, <2>4 DEF TickStart, TickRead, Resolve, Fetch, ScanDone,
                      FinalizeList, TickEnd
  <2> QED BY <1>1, <1>3, <2>1, <2>2, <2>3, <2>4 DEF TickStep
<1>4. CASE \E d \in Deposits : StreamEvent(d) \/ Reprocess(d)
  <2>1. PICK d \in Deposits, h \in {"stream", "manual"} : Handle(h, d)
    BY <1>4 DEF StreamEvent, Reprocess
  <2>2. Record(d) \/ UNCHANGED row
    BY <2>1 DEF Handle
  <2> QED BY <1>1, <1>2, <2>2
<1>5. CASE \E h \in DOMAIN handler : HandlerCredit(h)
  BY <1>1, <1>5 DEF HandlerCredit
<1>6. CASE Faults
  BY <1>2, <1>6 DEF Faults, TickError, TickSkipped, StreamFailure, HandlerError,
                    StreamEventError, Reorg
<1>7. CASE \/ StreamCursor \/ ClearRealtime \/ SetRealtime \/ NewBlock \/ Crash
           \/ \E u \in Users : SetWallet(u)
  BY <1>2, <1>7 DEF StreamCursor, ClearRealtime, SetRealtime, NewBlock, Crash,
                    SetWallet
<1> QED BY <1>3, <1>4, <1>5, <1>6, <1>7 DEF IndexerStep

\* The steps of the sweeper, when no call fails after its transfer has left.
LEMMA SweeperSteps ==
  ASSUME SweepInv, Sweep!Step(OfActive) \/ Sweep!Faults \/ Sweep!SweepCrash,
         "late_error" \notin Sweeping, NoDeposit \notin Deposits
  PROVE  SweepInv'
<1> DEFINE c == sweeper.cur
<1> USE DEF RowsOK, SweeperOK, Rows, Sweep!JobStates
<1>1. ASSUME UNCHANGED <<row, job, sent>>, SweeperOK',
             sweeper'.pc \in {"claimed", "sent"} => FALSE
      PROVE  SweepInv'
  BY <1>1 DEF SweepInv, SentWhileProcessed, JobInHand
<1>2. CASE \/ Sweep!SweepStart(OfActive) \/ Sweep!ListJobs \/ Sweep!SweepEnd
           \/ Sweep!SweepAbort \/ Sweep!SweepCrash
  <2>1. UNCHANGED <<row, job, sent>>
    BY <1>2 DEF Sweep!SweepStart, Sweep!ListJobs, Sweep!SweepEnd,
                Sweep!SweepAbort, Sweep!SweepCrash
  <2>2. sweeper'.pc \in {"queue", "jobs", "idle"} /\ SweeperOK'
    <3>1. CASE Sweep!ListJobs
      <4> DEFINE l == {d \in Sweep!Open :
                         Sweep!Cardinality({e \in Sweep!Open : Sweep!Older(e, d)}) < JobPage}
      <4>1. sweeper' = [sweeper EXCEPT !.pc = "jobs", !.list = l]
        BY <3>1 DEF Sweep!ListJobs
      <4> HIDE DEF l
      <4> QED BY <4>1 DEF SweepInv
    <3>2. CASE Sweep!SweepStart(OfActive)
      <4> DEFINE t == {d \in Deposits : Sweep!Sweepable(d) /\ d \in OfActive}
      <4>1. sweeper' = [Sweep!Off EXCEPT !.pc = "queue", !.todo = t]
        BY <3>2 DEF Sweep!SweepStart
      <4> HIDE DEF t
      <4> QED BY <4>1 DEF Sweep!Off
    <3>3. CASE \/ Sweep!SweepEnd \/ Sweep!SweepAbort \/ Sweep!SweepCrash
      BY <3>3 DEF Sweep!SweepEnd, Sweep!SweepAbort, Sweep!SweepCrash, Sweep!Off
    <3> QED BY <1>2, <3>1, <3>2, <3>3
  <2> QED BY <1>1, <2>1, <2>2
<1>3. ASSUME NEW d \in Deposits, Sweep!QueueJob(d)
      PROVE  SweepInv'
  <2>1. UNCHANGED sent /\ SweeperOK' /\ sweeper'.pc = "queue"
    BY <1>3 DEF Sweep!QueueJob, SweepInv
  <2>2. CASE UNCHANGED <<row, job>>
    BY <2>1, <2>2 DEF SweepInv, SentWhileProcessed, JobInHand
  <2>3. CASE /\ d \in InTreasury /\ UNCHANGED job
             /\ row' = [row EXCEPT ![d] = "swept"]
    BY <2>1, <2>3 DEF SweepInv, SentWhileProcessed, JobInHand
  <2>4. CASE /\ Sweep!Sweepable(d) /\ UNCHANGED row
             /\ job' = [job EXCEPT ![d] = "queued"]
    BY <2>1, <2>4 DEF SweepInv, SentWhileProcessed, JobInHand, Sweep!Sweepable
  <2> QED BY <1>3, <2>2, <2>3, <2>4 DEF Sweep!QueueJob
<1>4. CASE Sweep!ClaimJob
  <2>1. UNCHANGED <<row, sent>>
    BY <1>4 DEF Sweep!ClaimJob
  <2>2. CASE UNCHANGED job /\ sweeper' = [sweeper EXCEPT !.list = sweeper'.list]
                           /\ sweeper.pc = "jobs"
    BY <1>1, <2>1, <2>2 DEF SweepInv
  <2>3. ASSUME NEW d, Sweep!Claimable(d), job' = [job EXCEPT ![d] = "processing"],
               sweeper' = [sweeper EXCEPT !.pc = "claimed", !.cur = d,
                                          !.list = sweeper'.list]
        PROVE  SweepInv'
    <3>1. SweeperOK' /\ sweeper'.pc = "claimed" /\ sweeper'.cur = d
      BY <2>3 DEF SweepInv
    <3>2. d \in Deposits => sent[d] = 0
      BY <2>3 DEF Sweep!Claimable, SweepInv, SentWhileProcessed
    <3> QED BY <2>1, <2>3, <3>1, <3>2 DEF SweepInv, SentWhileProcessed, JobInHand
  <2>4. PICK d \in sweeper.list :
          \/ /\ Sweep!Claimable(d) /\ job' = [job EXCEPT ![d] = "processing"]
             /\ sweeper' = [sweeper EXCEPT !.pc = "claimed", !.cur = d,
                                           !.list = sweeper.list \ {d}]
          \/ /\ UNCHANGED job /\ sweeper.pc = "jobs"
             /\ sweeper' = [sweeper EXCEPT !.list = sweeper.list \ {d}]
    BY <1>4 DEF Sweep!ClaimJob, SweepInv
  <2>5. sweeper'.list = sweeper.list \ {d}
    BY <2>4 DEF SweepInv
  <2> QED BY <2>2, <2>3, <2>4, <2>5
<1>5. CASE Sweep!SweepRefused
  <2>1. /\ UNCHANGED <<row, sent>> /\ SweeperOK' /\ sweeper'.pc = "jobs"
        /\ job' = [job EXCEPT ![c] = IF @ = "processing" THEN "failed" ELSE @]
    BY <1>5 DEF Sweep!SweepRefused, Sweep!NextJob, Sweep!Fail, SweepInv
  <2>2. c \in Deposits => sent[c] = 0
    BY <1>5 DEF Sweep!SweepRefused, SweepInv, JobInHand
  <2> QED BY <2>1, <2>2 DEF SweepInv, SentWhileProcessed, JobInHand
<1>6. CASE Sweep!SweepSend
  <2>1. /\ UNCHANGED <<row, job>> /\ SweeperOK'
        /\ sweeper'.pc = "sent" /\ sweeper'.cur = c
        /\ sent' = [sent EXCEPT ![c] = @ + 1]
    BY <1>6 DEF Sweep!SweepSend, SweepInv
  <2>2. c \in Deposits => sent[c] = 0 /\ job[c] = "processing"
    BY <1>6 DEF Sweep!SweepSend, SweepInv, JobInHand
  <2>3. \A d \in Deposits : sent'[d] = IF d = c THEN sent[d] + 1 ELSE sent[d]
    BY <2>1 DEF SweepInv
  <2>4. \A d \in Deposits : SentWhileProcessed(d)'
    BY <2>1, <2>2, <2>3 DEF SweepInv, SentWhileProcessed
  <2>5. JobInHand'
    BY <2>1, <2>2, <2>3 DEF JobInHand
  <2>6. RowsOK'
    <3>1. CASE c \in Deposits
      <4>1. sent[c] + 1 \in Nat
        BY <2>2, <3>1
      <4> QED BY <2>1, <3>1, <4>1 DEF SweepInv
    <3>2. CASE c \notin Deposits
      BY <2>1, <3>2 DEF SweepInv
    <3> QED BY <3>1, <3>2
  <2> QED BY <2>1, <2>4, <2>5, <2>6 DEF SweepInv
<1>7. CASE Sweep!SweepComplete
  <2>1. UNCHANGED sent /\ SweeperOK' /\ sweeper'.pc = "jobs"
    BY <1>7 DEF Sweep!SweepComplete, Sweep!NextJob, SweepInv
  <2>2. c \in Deposits => sent[c] = 1
    BY <1>7 DEF Sweep!SweepComplete, SweepInv, JobInHand
  <2>3. CASE job[c] = "processing"
    <3>1. /\ job' = [job EXCEPT ![c] = "completed"]
          /\ row' = [row EXCEPT ![c] = "swept"]
      BY <1>7, <2>3 DEF Sweep!SweepComplete
    <3>2. \A d \in Deposits :
            /\ job'[d] = IF d = c THEN "completed" ELSE job[d]
            /\ row'[d] = IF d = c THEN "swept" ELSE row[d]
      BY <3>1 DEF SweepInv
    <3>3. \A d \in Deposits : SentWhileProcessed(d)'
      BY <2>1, <2>2, <3>2 DEF SweepInv, SentWhileProcessed
    <3>4. RowsOK' /\ JobInHand'
      BY <2>1, <3>1 DEF SweepInv, JobInHand
    <3> QED BY <2>1, <3>3, <3>4 DEF SweepInv
  <2>4. CASE job[c] # "processing"
    <3>1. UNCHANGED <<row, job>>
      BY <1>7, <2>4 DEF Sweep!SweepComplete
    <3> QED BY <1>1, <2>1, <3>1
  <2> QED BY <2>3, <2>4
<1>8. ~Sweep!SweepLateError /\ ~Sweep!SweepCompleteError
  BY DEF Sweep!SweepLateError, Sweep!SweepCompleteError
<1> QED BY <1>2, <1>3, <1>4, <1>5, <1>6, <1>7, <1>8 DEF Sweep!Step, Sweep!Faults

\* If no call fails after its transfer has left, the rows say what was sent.
THEOREM SweepCorrect ==
  ASSUME "late_error" \notin Sweeping
  PROVE  Spec => []SweepInv
<1>1. PipelineInit => SweepInv
  BY SweepAssumption
  DEF PipelineInit, Init, Sweep!Init, SweepInv, RowsOK, SweeperOK, Rows,
      Sweep!JobStates, SentWhileProcessed, JobInHand, Sweep!Off
<1>2. SweepInv /\ [PipelineNext]_vars => SweepInv'
  <2> SUFFICES ASSUME SweepInv, [PipelineNext]_vars PROVE SweepInv'
    OBVIOUS
  <2>1. CASE IndexerStep /\ UNCHANGED sweepOwn
    <3>1. /\ row' \in [Deposits -> Rows]
          /\ \A d \in Deposits : row'[d] = "swept" => row[d] = "swept"
      BY <2>1, IndexerRows DEF SweepInv, RowsOK
    <3>2. UNCHANGED <<job, sent, sweeper>>
      BY <2>1 DEF sweepOwn
    <3> QED BY <3>1, <3>2
        DEF SweepInv, RowsOK, SweeperOK, SentWhileProcessed, JobInHand
  <2>2. CASE Sweep!Step(OfActive) \/ Sweep!Faults
    BY <2>2, SweeperSteps, SweepAssumption
  <2>3. CASE Restart
    BY <2>3, SweeperSteps, SweepAssumption DEF Restart
  <2>4. CASE UNCHANGED vars
    BY <2>4 DEF vars, indexerVars, sweepOwn, SweepInv, RowsOK, SweeperOK,
                SentWhileProcessed, JobInHand
  <2> QED BY <2>1, <2>2, <2>3, <2>4 DEF PipelineNext
<1> QED BY <1>1, <1>2, PTL DEF Spec

\* If no call fails after its transfer has left, a deposit is moved at most
\* once, whatever is refused, aborted, retried or restarted; what is marked swept
\* was sent, and what may be retried was not.
THEOREM SweptOnceCorrect ==
  ASSUME "late_error" \notin Sweeping
  PROVE  Spec => []SweptOnce
<1>1. SweepInv => SweptOnce
  BY DEF SweepInv, SentWhileProcessed, SweptOnce
<1> QED BY <1>1, SweepCorrect, PTL

-------------------------------------------------------------------------------
(* The indexer: types, and what it never looks ahead of.                   *)

\* Only what the chain has reached is queued, listed or recorded.
IndexerInv ==
  /\ IndexerTypeOK
  /\ tick.head <= head
  /\ tick.pc = "credit" => tick.cur \in Deposits
  /\ \A d \in Deposits :
       row[d] # "none" \/ d \in inbox \/ d \in tick.todo => BlockOf[d] <= head

\* The chain bounds the blocks recorded, so one of them is the last.
LEMMA LastRecordedIsMax ==
  ASSUME IndexerInv, Recorded # {}
  PROVE  /\ LastRecorded \in Nat /\ LastRecorded <= head
         /\ \E d \in Recorded : LastRecorded = BlockOf[d]
         /\ \A d \in Recorded : BlockOf[d] <= LastRecorded
<1> DEFINE B == {BlockOf[d] : d \in Recorded}
           R == OpToRel(<, Nat)
           Below == {n \in Nat : head - n \in B}
<1>1. B \subseteq Nat /\ head \in Nat /\ \A b \in B : b <= head
  BY ChainAssumption DEF IndexerInv, IndexerTypeOK, Recorded
<1>2. B # {}
  OBVIOUS
<1> HIDE DEF B
<1>3. \E m \in B : \A b \in B : m >= b
  <2>1. IsWellFoundedOn(R, Nat)
    BY NatLessThanWellFounded
  <2>2. Below \subseteq Nat /\ Below # {}
    <3>1. PICK b \in B : TRUE
      BY <1>2
    <3>2. head - b \in Nat /\ head - (head - b) = b
      BY <1>1, <3>1
    <3>3. head - b \in Below
      BY <3>1, <3>2
    <3> QED BY <3>3
  <2>3. PICK n \in Below : \A k \in Below : ~(<<k, n>> \in R)
    BY <2>1, <2>2, WFMin
  <2>4. \A k \in Below : n <= k
    <3> SUFFICES ASSUME NEW k \in Below, k < n PROVE FALSE
      BY <2>2
    <3>1. <<k, n>> \in R
      BY <2>2 DEF OpToRel
    <3> QED BY <2>3, <3>1
  <2>5. head - n \in B
    OBVIOUS
  <2>6. ASSUME NEW b \in B PROVE head - n >= b
    <3>1. head - b \in Below
      <4>1. head - b \in Nat /\ head - (head - b) = b
        BY <1>1
      <4> QED BY <4>1
    <3>2. n <= head - b
      BY <2>4, <3>1
    <3> QED BY <1>1, <3>2
  <2> QED BY <2>5, <2>6
<1>4. /\ Max(B) \in B
      /\ \A b \in B : Max(B) >= b
  BY <1>3 DEF Max
<1>5. LastRecorded = Max(B)
  BY DEF LastRecorded, B
<1> QED BY <1>1, <1>4, <1>5 DEF B

\* What recording and crediting a deposit change.
LEMMA RecordMoves ==
  ASSUME IndexerTypeOK, NEW d \in Deposits, Record(d)
  PROVE  /\ row' \in [Deposits -> Rows]
         /\ row'[d] # "none"
         /\ \A e \in Deposits : \/ row'[e] = row[e]
                                \/ e = d /\ row[e] = "none" /\ row'[e] = "detected"
<1>1. CASE row[d] = "none"
  <2>1. row' = [row EXCEPT ![d] = "detected"]
    BY <1>1 DEF Record
  <2> QED BY <1>1, <2>1 DEF IndexerTypeOK, Rows
<1>2. CASE row[d] # "none"
  <2>1. row' = row
    BY <1>2 DEF Record, IndexerTypeOK
  <2> QED BY <1>2, <2>1 DEF IndexerTypeOK
<1> QED BY <1>1, <1>2

\* A credit that is posted or skipped changes only its deposit.
LEMMA CreditMoves ==
  ASSUME IndexerTypeOK, NEW d \in Deposits, Credit(d)
  PROVE  /\ row' \in [Deposits -> Rows]
         /\ balance' \in [Users -> Nat]
         /\ \A e \in Deposits : \/ row'[e] = row[e]
                                \/ e = d /\ row[e] = "detected" /\ row'[e] = "credited"
<1>1. OwnerOf[d] \in Users /\ Value[d] \in Nat
  BY ChainAssumption
<1>2. balance[OwnerOf[d]] + Value[d] \in Nat
  BY <1>1 DEF IndexerTypeOK
<1>3. CASE Creditable(d)
  <2>1. /\ row' = [row EXCEPT ![d] = "credited"]
        /\ balance' = [balance EXCEPT ![OwnerOf[d]] = balance[OwnerOf[d]] + Value[d]]
    BY <1>3 DEF Credit
  <2>2. row[d] = "detected"
    BY <1>3 DEF Creditable
  <2> QED BY <1>1, <1>2, <2>1, <2>2 DEF IndexerTypeOK, Rows
<1>4. CASE ~Creditable(d)
  BY <1>4 DEF Credit, IndexerTypeOK
<1> QED BY <1>3, <1>4

\* Where a scan starts.
LEMMA FirstBlockType ==
  ASSUME IndexerInv
  PROVE  FirstBlock \in Nat
<1>1. StartBlock \in Nat /\ (cursor # Unset => cursor + 1 \in Nat)
  BY ChainAssumption DEF IndexerInv, IndexerTypeOK
<1>2. Recorded # {} => LastRecorded + 1 \in Nat
  BY LastRecordedIsMax
<1> HIDE DEF Recorded, LastRecorded
<1> QED BY <1>1, <1>2 DEF FirstBlock

\* The states in which a tick rests, or is about to scan or to list.
TickStates ==
  [pc : TickPcs, head : Nat, map : SUBSET Users, next : Nat, upto : Nat,
   todo : SUBSET Deposits, cur : Deposits \cup {NoDeposit}]

IsRest(t, p, h, M) ==
  /\ t \in TickStates
  /\ t.pc = p /\ t.head = h /\ t.map = M /\ t.todo = {} /\ t.cur = NoDeposit

\* The fields of a tick that rests between two deposits.
LEMMA RestingFields ==
  ASSUME NEW h \in Nat, NEW M \in SUBSET Users
  PROVE  /\ IsRest(Resting, "idle", 0, {})
         /\ IsRest([Resting EXCEPT !.pc = "list", !.head = h], "list", h, {})
         /\ IsRest([Resting EXCEPT !.pc = "resolve", !.head = h, !.map = M],
                   "resolve", h, M)
BY DEF Resting, IsRest, TickStates, TickPcs

\* The steps of the polling tick.
LEMMA TickSteps ==
  ASSUME IndexerInv, TickStep \/ TickError \/ TickSkipped
  PROVE  IndexerInv'
<1> USE DEF IndexerInv, IndexerTypeOK, chainVars, streamVars, TickPcs
<1>1. CASE TickStart \/ TickSkipped
  <2>1. CASE TickStart
    <3>1. tick' \in TickStates /\ tick'.pc = "read" /\ tick'.todo = tick.todo /\ tick'.cur = tick.cur
      BY <2>1 DEF TickStart, TickStates
    <3>2. UNCHANGED <<head, gone, active, cache, row, balance, realtime, cursor, clearing, inbox, handler>>
      BY <2>1 DEF TickStart
    <3>3. stream' \in BOOLEAN /\ seeking' \in BOOLEAN
      BY <2>1 DEF TickStart
    <3>4. IndexerTypeOK'
      BY <3>1, <3>2, <3>3 DEF TickStates
    <3>5. tick'.head = tick.head
      BY <2>1 DEF TickStart
    <3> QED BY <3>1, <3>2, <3>4, <3>5
  <2>2. CASE TickSkipped
    BY <2>2 DEF TickSkipped
  <2> QED BY <1>1, <2>1, <2>2
<1>2. CASE TickRead
  <2>1. cache' \subseteq Users
    BY <1>2 DEF TickRead, AddressMap
  <2>2. \/ tick' = [Resting EXCEPT !.pc = "resolve", !.head = head, !.map = cache']
        \/ tick' = [Resting EXCEPT !.pc = "list", !.head = head]
    BY <1>2 DEF TickRead
  <2>3. /\ tick' \in TickStates
        /\ tick'.head = head /\ tick'.todo = {} /\ tick'.pc # "credit"
    <3>1. head \in Nat /\ cache' \in SUBSET Users
      BY <2>1
    <3>2. \/ IsRest(tick', "resolve", head, cache')
          \/ IsRest(tick', "list", head, {})
      BY <2>2, <3>1, RestingFields
    <3> QED BY <3>2 DEF IsRest
  <2>4. UNCHANGED <<head, gone, active, row, balance, realtime, stream, seeking,
                    clearing, inbox, cursor, handler>>
    BY <1>2 DEF TickRead
  <2> QED BY <2>1, <2>3, <2>4 DEF TickStates
<1>3. CASE Resolve
  <2> DEFINE c == IF cursor = Unset /\ Recorded # {} THEN LastRecorded ELSE cursor
             n == FirstBlock
             u == Lesser(tick.head, FirstBlock + MaxRange - 1)
  <2>1. c \in Nat \cup {Unset}
    BY LastRecordedIsMax
  <2>2. n \in Nat /\ u \in Nat
    BY FirstBlockType, ChainAssumption DEF Lesser
  <2>3. /\ cursor' = c
        /\ \/ tick' = ToList
           \/ tick' = [tick EXCEPT !.pc = "scan", !.next = n, !.upto = u]
    BY <1>3 DEF Resolve
  <2>4. UNCHANGED <<head, gone, active, cache, row, balance, realtime, stream, seeking,
                    clearing, inbox, handler>>
    BY <1>3 DEF Resolve
  <2> HIDE DEF c, n, u
  <2>5. tick' \in TickStates /\ tick'.head = tick.head /\ tick'.pc # "credit"
    <3>1. CASE tick' = ToList
      <4>1. tick.head \in Nat
        OBVIOUS
      <4> QED BY <3>1, <4>1 DEF ToList, Resting, TickStates
    <3>2. CASE tick' = [tick EXCEPT !.pc = "scan", !.next = n, !.upto = u]
      BY <2>2, <3>2 DEF TickStates
    <3> QED BY <2>3, <3>1, <3>2
  <2>6. tick'.todo \subseteq tick.todo
    BY <2>3 DEF ToList, Resting, TickStates
  <2> QED BY <2>1, <2>3, <2>4, <2>5, <2>6 DEF TickStates
<1>4. CASE Fetch
  <2> DEFINE last == Lesser(tick.upto, tick.next + Chunk - 1)
             T == {d \in Deposits : /\ OnChain(d) /\ OwnerOf[d] \in tick.map
                                    /\ BlockOf[d] \in tick.next..last}
  <2>1. last + 1 \in Nat
    BY ChainAssumption DEF Lesser
  <2>2. T \subseteq Deposits /\ \A d \in T : BlockOf[d] <= head
    BY DEF OnChain
  <2>3. tick' = [tick EXCEPT !.next = last + 1, !.todo = T]
    BY <1>4 DEF Fetch
  <2> HIDE DEF last, T
  <2> QED BY <1>4, <2>1, <2>2, <2>3 DEF Fetch
<1>5. ASSUME NEW d \in Deposits, ScanRecord(d)
      PROVE  IndexerInv'
  <2>1. Record(d) /\ d \in tick.todo
    BY <1>5 DEF ScanRecord
  <2>2. /\ row' \in [Deposits -> Rows]
        /\ \A e \in Deposits : row'[e] # "none" => BlockOf[e] <= head
    BY <2>1, RecordMoves
  <2> QED BY <1>5, <2>2 DEF ScanRecord
<1>6. CASE ScanCredit
  <2>1. Credit(tick.cur) /\ tick.cur \in Deposits
    BY <1>6 DEF ScanCredit
  <2>2. /\ row' \in [Deposits -> Rows] /\ balance' \in [Users -> Nat]
        /\ \A e \in Deposits : row'[e] # "none" => BlockOf[e] <= head
    BY <2>1, CreditMoves
  <2> QED BY <1>6, <2>2 DEF ScanCredit
<1>7. CASE ScanDone \/ TickEnd \/ TickError
  <2>1. \/ tick' = Resting /\ UNCHANGED cursor
        \/ tick' = ToList /\ cursor' = tick.upto
    BY <1>7 DEF ScanDone, TickEnd, TickError
  <2>2. UNCHANGED <<head, gone, active, cache, row, balance, realtime, stream,
                    seeking, clearing, inbox, handler>>
    BY <1>7 DEF ScanDone, TickEnd, TickError
  <2>3. /\ tick' \in TickStates
        /\ tick'.head <= head /\ tick'.todo = {} /\ tick'.pc # "credit"
    <3>1. tick.head \in Nat
      OBVIOUS
    <3>2. \/ IsRest(tick', "idle", 0, {})
          \/ IsRest(tick', "list", tick.head, {})
      BY <2>1, <3>1, RestingFields DEF ToList
    <3> QED BY <3>1, <3>2 DEF IsRest
  <2> QED BY <2>1, <2>2, <2>3 DEF TickStates
<1>8. CASE FinalizeList
  <2>1. PICK T \in OldestOf(Candidates) : tick' = [tick EXCEPT !.pc = "final", !.todo = T]
    BY <1>8 DEF FinalizeList
  <2>2. T \subseteq Candidates
    BY DEF OldestOf, kSubset
  <2>3. T \subseteq Deposits /\ \A d \in T : BlockOf[d] <= head
    BY <2>2 DEF Candidates
  <2> QED BY <1>8, <2>1, <2>3 DEF FinalizeList
<1>9. ASSUME NEW d \in Deposits, FinalizeCredit(d)
      PROVE  IndexerInv'
  <2>1. Credit(d)
    BY <1>9 DEF FinalizeCredit
  <2>2. /\ row' \in [Deposits -> Rows] /\ balance' \in [Users -> Nat]
        /\ \A e \in Deposits : row'[e] # "none" => BlockOf[e] <= head
    BY <2>1, CreditMoves
  <2> QED BY <1>9, <2>2 DEF FinalizeCredit
<1> QED BY <1>1, <1>2, <1>3, <1>4, <1>5, <1>6, <1>7, <1>8, <1>9 DEF TickStep

\* The steps of the stream, the administrator, the chain and the process.
LEMMA StreamSteps ==
  ASSUME IndexerInv,
         \/ StreamCursor \/ ClearRealtime \/ SetRealtime \/ NewBlock \/ Crash
         \/ StreamFailure
         \/ \E d \in Deposits :
              StreamEvent(d) \/ Reprocess(d) \/ StreamEventError(d) \/ Reorg(d)
         \/ \E h \in DOMAIN handler : HandlerCredit(h) \/ HandlerError(h)
         \/ \E u \in Users : SetWallet(u)
  PROVE  IndexerInv'
<1> USE DEF IndexerInv, IndexerTypeOK, chainVars, streamVars
<1>1. CASE StreamCursor \/ ClearRealtime \/ StreamFailure
  BY <1>1 DEF StreamCursor, ClearRealtime, StreamFailure
<1>2. CASE SetRealtime
  BY <1>2, ChainAssumption DEF SetRealtime
<1>3. CASE NewBlock
  <2>1. head' = head + 1 /\ inbox' \subseteq Deposits
    BY <1>3 DEF NewBlock
  <2>2. \A d \in Deposits : d \in inbox' => BlockOf[d] <= head + 1
    BY <1>3, ChainAssumption DEF NewBlock
  <2>3. \A d \in Deposits : BlockOf[d] <= head => BlockOf[d] <= head + 1
    BY ChainAssumption
  <2>4. UNCHANGED <<gone, active, cache, row, balance, realtime, stream, seeking,
                    clearing, cursor, handler, tick>>
    BY <1>3 DEF NewBlock
  <2>5. tick.head <= head + 1
    OBVIOUS
  <2>6. \A d \in Deposits :
          row'[d] # "none" \/ d \in inbox' \/ d \in tick'.todo => BlockOf[d] <= head'
    BY <2>1, <2>2, <2>3, <2>4
  <2>7. IndexerTypeOK'
    BY <2>1, <2>4
  <2> QED BY <2>1, <2>4, <2>5, <2>6, <2>7
<1>4. CASE Crash
  <2>1. IsRest(tick', "idle", 0, {})
    BY <1>4, RestingFields, ChainAssumption DEF Crash
  <2>2. handler' \in [{"stream", "manual"} -> Deposits \cup {NoDeposit}]
    BY <1>4 DEF Crash
  <2>3. /\ tick' \in TickStates /\ tick'.head <= head
        /\ tick'.todo = {} /\ tick'.pc # "credit"
    BY <2>1 DEF IsRest
  <2>4. /\ cursor' = Unset /\ stream' = FALSE /\ seeking' = FALSE
        /\ clearing' = FALSE /\ inbox' = {} /\ cache' = active
        /\ UNCHANGED <<head, gone, active, row, balance, realtime>>
    BY <1>4 DEF Crash
  <2> QED BY <2>2, <2>3, <2>4 DEF TickStates
<1>5. ASSUME NEW d \in Deposits, StreamEvent(d) \/ Reprocess(d)
      PROVE  IndexerInv'
  <2>1. PICK h \in {"stream", "manual"} : Handle(h, d)
    BY <1>5 DEF StreamEvent, Reprocess
  <2>2. BlockOf[d] <= head
    BY <1>5 DEF StreamEvent, Reprocess, OnChain
  <2>3. cache' \subseteq Users
    BY <2>1 DEF Handle, AddressMap
  <2>4. /\ row' \in [Deposits -> Rows]
        /\ \A e \in Deposits : row'[e] # "none" => BlockOf[e] <= head
    <3>1. CASE Record(d)
      BY <2>2, <3>1, RecordMoves
    <3>2. CASE UNCHANGED row
      BY <3>2
    <3> QED BY <2>1, <3>1, <3>2 DEF Handle
  <2>5. handler' \in [{"stream", "manual"} -> Deposits \cup {NoDeposit}]
    BY <2>1 DEF Handle
  <2>6. inbox' \subseteq inbox
    BY <1>5 DEF StreamEvent, Reprocess
  <2>7. UNCHANGED <<head, gone, active, balance, realtime, stream, seeking,
                    clearing, cursor, tick>>
    BY <2>1 DEF Handle
  <2> QED BY <2>3, <2>4, <2>5, <2>6, <2>7
<1>6. ASSUME NEW h \in DOMAIN handler, HandlerCredit(h)
      PROVE  IndexerInv'
  <2>1. handler[h] \in Deposits /\ Credit(handler[h])
    BY <1>6 DEF HandlerCredit
  <2>2. /\ row' \in [Deposits -> Rows] /\ balance' \in [Users -> Nat]
        /\ \A e \in Deposits : row'[e] # "none" => BlockOf[e] <= head
    BY <2>1, CreditMoves
  <2> QED BY <1>6, <2>2 DEF HandlerCredit
<1>7. ASSUME NEW h \in DOMAIN handler, HandlerError(h)
      PROVE  IndexerInv'
  BY <1>7 DEF HandlerError, AfterBlockOf
<1>8. ASSUME NEW d \in Deposits, StreamEventError(d) \/ Reorg(d)
      PROVE  IndexerInv'
  BY <1>8 DEF StreamEventError, Reorg, AfterBlockOf
<1>9. ASSUME NEW u \in Users, SetWallet(u)
      PROVE  IndexerInv'
  BY <1>9 DEF SetWallet
<1> QED BY <1>1, <1>2, <1>3, <1>4, <1>5, <1>6, <1>7, <1>8, <1>9

-------------------------------------------------------------------------------
(* Both together.                                                          *)

\* A job is filed for a credited deposit that is not in the treasury, and it is
\* completed together with the row.
JobsFiled ==
  /\ job \in [Deposits -> Sweep!JobStates]
  /\ \A d \in Deposits : job[d] # "none" =>
       /\ row[d] = IF job[d] = "completed" THEN "swept" ELSE "credited"
       /\ d \notin InTreasury

PipelineInv == IndexerInv /\ JobsFiled

\* The sweeper touches a row only to turn a credited deposit into a swept one.
LEMMA SweeperRows ==
  ASSUME row \in [Deposits -> Rows], JobsFiled,
         Sweep!Step(OfActive) \/ Sweep!Faults \/ Sweep!SweepCrash
  PROVE  /\ row' \in [Deposits -> Rows] /\ JobsFiled'
         /\ \A d \in Deposits : \/ row'[d] = row[d]
                                \/ row[d] \in {"credited", "swept"} /\ row'[d] = "swept"
<1> DEFINE c == sweeper.cur
           Moves == \A d \in Deposits :
             \/ row'[d] = row[d]
             \/ row[d] \in {"credited", "swept"} /\ row'[d] = "swept"
<1> USE DEF JobsFiled, Rows, Sweep!JobStates
<1>1. CASE UNCHANGED <<row, job>>
  BY <1>1
<1>2. ASSUME NEW d \in Deposits, Sweep!QueueJob(d)
      PROVE  row' \in [Deposits -> Rows] /\ JobsFiled' /\ Moves
  <2>1. CASE Sweep!Sweepable(d) /\ row' = [row EXCEPT ![d] = "swept"] /\ UNCHANGED job
    BY <2>1 DEF Sweep!Sweepable
  <2>2. CASE /\ Sweep!Sweepable(d) /\ d \notin InTreasury
             /\ UNCHANGED row /\ job' = [job EXCEPT ![d] = "queued"]
    BY <2>2 DEF Sweep!Sweepable
  <2> QED BY <1>1, <1>2, <2>1, <2>2 DEF Sweep!QueueJob
<1>3. ASSUME NEW d, Sweep!Fail(d), UNCHANGED row
      PROVE  row' \in [Deposits -> Rows] /\ JobsFiled' /\ Moves
  BY <1>3 DEF Sweep!Fail
<1>4. CASE Sweep!ClaimJob
  <2>1. PICK d \in sweeper.list :
          \/ Sweep!Claimable(d) /\ job' = [job EXCEPT ![d] = "processing"]
          \/ UNCHANGED job
    BY <1>4 DEF Sweep!ClaimJob
  <2>2. UNCHANGED row
    BY <1>4 DEF Sweep!ClaimJob
  <2> QED BY <1>1, <2>1, <2>2 DEF Sweep!Claimable
<1>5. CASE Sweep!SweepComplete
  <2>1. CASE job[c] = "processing"
    BY <1>5, <2>1 DEF Sweep!SweepComplete
  <2>2. CASE job[c] # "processing"
    BY <1>1, <1>5, <2>2 DEF Sweep!SweepComplete
  <2> QED BY <2>1, <2>2
<1>6. CASE Sweep!SweepRefused \/ Sweep!SweepLateError \/ Sweep!SweepCompleteError
  BY <1>3, <1>6 DEF Sweep!SweepRefused, Sweep!SweepLateError, Sweep!SweepCompleteError
<1>7. CASE \/ Sweep!SweepStart(OfActive) \/ Sweep!ListJobs \/ Sweep!SweepEnd
           \/ Sweep!SweepSend \/ Sweep!SweepAbort \/ Sweep!SweepCrash
  BY <1>1, <1>7 DEF Sweep!SweepStart, Sweep!ListJobs, Sweep!SweepEnd,
                    Sweep!SweepSend, Sweep!SweepAbort, Sweep!SweepCrash
<1> QED BY <1>2, <1>4, <1>5, <1>6, <1>7 DEF Sweep!Step, Sweep!Faults

\* The indexer touches a row only to record or to credit it.
LEMMA IndexerMoves ==
  ASSUME IndexerInv, IndexerStep \/ Crash
  PROVE  \A d \in Deposits :
           \/ row'[d] = row[d]
           \/ row[d] = "none" /\ row'[d] = "detected"
           \/ row[d] = "detected" /\ row'[d] = "credited"
<1> DEFINE Moves == \A d \in Deposits :
             \/ row'[d] = row[d]
             \/ row[d] = "none" /\ row'[d] = "detected"
             \/ row[d] = "detected" /\ row'[d] = "credited"
<1> USE DEF chainVars, streamVars
<1>1. ASSUME NEW d \in Deposits, Record(d) \/ Credit(d) PROVE Moves
  BY <1>1, RecordMoves, CreditMoves DEF IndexerInv
<1>2. ASSUME UNCHANGED row PROVE Moves
  BY <1>2
<1> SUFFICES Moves
  OBVIOUS
<1> HIDE DEF Moves
<1>3. CASE TickStep
  <2>1. ASSUME NEW d \in Deposits, ScanRecord(d) PROVE Moves
    BY <1>1, <2>1 DEF ScanRecord
  <2>2. ASSUME NEW d \in Deposits, FinalizeCredit(d) PROVE Moves
    BY <1>1, <2>2 DEF FinalizeCredit
  <2>3. CASE ScanCredit
    BY <1>1, <2>3 DEF ScanCredit, IndexerInv
  <2>4. CASE \/ TickStart \/ TickRead \/ Resolve \/ Fetch
             \/ ScanDone \/ FinalizeList \/ TickEnd
    BY <1>2, <2>4 DEF TickStart, TickRead, Resolve, Fetch, ScanDone,
                      FinalizeList, TickEnd
  <2> QED BY <1>3, <2>1, <2>2, <2>3, <2>4 DEF TickStep
<1>4. ASSUME NEW d \in Deposits, StreamEvent(d) \/ Reprocess(d) PROVE Moves
  <2>1. Record(d) \/ UNCHANGED row
    BY <1>4 DEF StreamEvent, Reprocess, Handle
  <2> QED BY <1>1, <1>2, <2>1
<1>5. ASSUME NEW h \in DOMAIN handler, HandlerCredit(h) PROVE Moves
  <2>1. handler[h] \in Deposits /\ Credit(handler[h])
    BY <1>5 DEF HandlerCredit, IndexerInv, IndexerTypeOK
  <2> QED BY <1>1, <2>1
<1>6. CASE Faults
  BY <1>2, <1>6 DEF Faults, TickError, TickSkipped, StreamFailure, HandlerError,
                    StreamEventError, Reorg
<1>7. CASE \/ StreamCursor \/ ClearRealtime \/ SetRealtime \/ NewBlock \/ Crash
           \/ \E u \in Users : SetWallet(u)
  BY <1>2, <1>7 DEF StreamCursor, ClearRealtime, SetRealtime, NewBlock, Crash,
                    SetWallet
<1> QED BY <1>3, <1>4, <1>5, <1>6, <1>7 DEF IndexerStep

\* The indexer's variables keep their types, only what the chain has reached is
\* recorded, and jobs belong to credited deposits, under all hazards.
THEOREM PipelineCorrect == Spec => []PipelineInv
<1>1. PipelineInit => PipelineInv
  <2> SUFFICES ASSUME PipelineInit PROVE PipelineInv
    OBVIOUS
  <2>1. IsRest(tick, "idle", 0, {})
    BY RestingFields, ChainAssumption DEF PipelineInit, Init
  <2>2. IndexerTypeOK
    BY <2>1, ChainAssumption
    DEF PipelineInit, Init, IndexerTypeOK, IsRest, TickStates, Rows, Unset
  <2>3. IndexerInv
    BY <2>1, <2>2 DEF PipelineInit, Init, IndexerInv, IsRest
  <2>4. JobsFiled
    BY DEF PipelineInit, Sweep!Init, JobsFiled, Sweep!JobStates
  <2> QED BY <2>3, <2>4 DEF PipelineInv
<1>2. PipelineInv /\ [PipelineNext]_vars => PipelineInv'
  <2> SUFFICES ASSUME PipelineInv, [PipelineNext]_vars PROVE PipelineInv'
    OBVIOUS
  <2> USE DEF PipelineInv
  <2>1. ASSUME IndexerStep \/ Crash PROVE IndexerInv'
    <3>1. CASE IndexerStep
      BY <3>1, TickSteps, StreamSteps DEF IndexerStep, Faults
    <3>2. CASE Crash
      BY <3>2, StreamSteps
    <3> QED BY <2>1, <3>1, <3>2
  <2>2. ASSUME UNCHANGED job, IndexerStep \/ Crash PROVE JobsFiled'
    BY <2>2, IndexerMoves DEF JobsFiled
  <2>3. CASE IndexerStep /\ UNCHANGED sweepOwn
    BY <2>1, <2>2, <2>3 DEF sweepOwn
  <2>4. CASE (Sweep!Step(OfActive) \/ Sweep!Faults) /\ UNCHANGED indexerOwn
    <3>1. /\ row' \in [Deposits -> Rows] /\ JobsFiled'
          /\ \A d \in Deposits : row'[d] # "none" => row[d] # "none"
      BY <2>4, SweeperRows DEF IndexerInv, IndexerTypeOK
    <3> QED BY <2>4, <3>1 DEF indexerOwn, IndexerInv, IndexerTypeOK
  <2>5. CASE Restart
    <3>1. UNCHANGED job /\ Crash
      BY <2>5 DEF Restart, Sweep!SweepCrash
    <3> QED BY <2>1, <2>2, <3>1
  <2>6. CASE UNCHANGED vars
    BY <2>6 DEF vars, indexerVars, sweepOwn, IndexerInv, IndexerTypeOK, JobsFiled
  <2> QED BY <2>3, <2>4, <2>5, <2>6 DEF PipelineNext
<1> QED BY <1>1, <1>2, PTL DEF Spec

\* The sweeper keeps its types by itself.
LEMMA SweepTypes ==
  ASSUME row \in [Deposits -> Rows], Sweep!SweepTypeOK,
         Sweep!Step(OfActive) \/ Sweep!Faults \/ Sweep!SweepCrash
  PROVE  Sweep!SweepTypeOK'
<1> DEFINE c == sweeper.cur
           Sweepers == [pc : {"idle", "queue", "jobs", "claimed", "sent"},
                        todo : SUBSET Deposits, list : SUBSET Deposits,
                        cur : Deposits \cup {NoDeposit}]
           Files(d) == job' = job \/ \E s \in Sweep!JobStates : job' = [job EXCEPT ![d] = s]
<1> USE DEF Sweep!SweepTypeOK, Sweep!JobStates
<1>1. ASSUME jobs' = jobs \/ \E d \in Deposits : jobs' = Append(jobs, d),
             \E d : Files(d), sent' \in [Deposits -> Nat], sweeper' \in Sweepers
      PROVE  Sweep!SweepTypeOK'
  <2>1. jobs' \in Seq(Deposits)
    <3>1. CASE jobs' = jobs
      BY <3>1
    <3>2. ASSUME NEW d \in Deposits, jobs' = Append(jobs, d) PROVE jobs' \in Seq(Deposits)
      BY <3>2
    <3> QED BY <1>1, <3>1, <3>2
  <2>2. job' \in [Deposits -> Sweep!JobStates]
    BY <1>1
  <2> QED BY <1>1, <2>1, <2>2
<1>2. Sweep!NextJob \in Sweepers /\ Sweep!Off \in Sweepers
  BY DEF Sweep!NextJob, Sweep!Off
<1>3. ASSUME NEW d, Sweep!Fail(d) PROVE Files(d)
  <2>1. CASE job[d] = "processing"
    BY <1>3, <2>1 DEF Sweep!Fail
  <2>2. CASE job[d] # "processing"
    BY <1>3, <2>2 DEF Sweep!Fail
  <2> QED BY <2>1, <2>2
<1>4. sent' = sent => sent' \in [Deposits -> Nat]
  OBVIOUS
<1>5. CASE Sweep!SweepStart(OfActive)
  <2> DEFINE t == {d \in Deposits : Sweep!Sweepable(d) /\ d \in OfActive}
  <2>1. t \in SUBSET Deposits
    OBVIOUS
  <2>2. UNCHANGED <<jobs, job, sent>> /\ sweeper' = [Sweep!Off EXCEPT !.pc = "queue", !.todo = t]
    BY <1>5 DEF Sweep!SweepStart
  <2> HIDE DEF t
  <2>3. sweeper' \in Sweepers
    BY <1>2, <2>1, <2>2
  <2> QED BY <1>1, <1>4, <2>2, <2>3
<1>6. ASSUME NEW d \in Deposits, Sweep!QueueJob(d) PROVE Sweep!SweepTypeOK'
  <2>1. UNCHANGED sent /\ sweeper' \in Sweepers
    BY <1>6 DEF Sweep!QueueJob
  <2>2. (jobs' = jobs \/ jobs' = Append(jobs, d)) /\ Files(d)
    BY <1>6 DEF Sweep!QueueJob
  <2> QED BY <1>1, <1>4, <2>1, <2>2
<1>7. CASE Sweep!ListJobs
  <2> DEFINE l == {d \in Sweep!Open :
                     Sweep!Cardinality({e \in Sweep!Open : Sweep!Older(e, d)}) < JobPage}
  <2>1. l \in SUBSET Deposits
    BY DEF Sweep!Open
  <2>2. UNCHANGED <<jobs, job, sent>> /\ sweeper' = [sweeper EXCEPT !.pc = "jobs", !.list = l]
    BY <1>7 DEF Sweep!ListJobs
  <2> HIDE DEF l
  <2> PICK w \in Sweepers : w = sweeper
    BY DEF Sweep!SweepTypeOK
  <2>3. sweeper' \in Sweepers
    <3>1. sweeper' = [w EXCEPT !.pc = "jobs", !.list = l]
      BY <2>2
    <3>2. sweeper' = [pc |-> "jobs", todo |-> w.todo, list |-> l, cur |-> w.cur]
      BY <3>1
    <3>3. w.todo \in SUBSET Deposits /\ w.cur \in Deposits \cup {NoDeposit}
      OBVIOUS
    <3> QED BY <2>1, <3>2, <3>3
  <2> QED BY <1>1, <1>4, <2>2, <2>3
<1>8. CASE Sweep!ClaimJob
  <2>1. PICK d \in sweeper.list :
          \/ /\ job' = [job EXCEPT ![d] = "processing"]
             /\ sweeper' = [sweeper EXCEPT !.pc = "claimed", !.cur = d,
                                           !.list = sweeper.list \ {d}]
          \/ /\ UNCHANGED job
             /\ sweeper' = [sweeper EXCEPT !.list = sweeper.list \ {d}]
    BY <1>8 DEF Sweep!ClaimJob
  <2>2. UNCHANGED <<jobs, sent>>
    BY <1>8 DEF Sweep!ClaimJob
  <2>3. d \in Deposits /\ sweeper.list \ {d} \in SUBSET Deposits
    OBVIOUS
  <2> PICK w \in Sweepers : w = sweeper
    BY DEF Sweep!SweepTypeOK
  <2>4. sweeper' \in Sweepers
    <3> DEFINE rest == w.list \ {d}
    <3>1. \/ sweeper' = [w EXCEPT !.pc = "claimed", !.cur = d, !.list = rest]
          \/ sweeper' = [w EXCEPT !.list = rest]
      BY <2>1
    <3>2. rest \in SUBSET Deposits
      BY <2>3
    <3> HIDE DEF rest
    <3>3. \/ sweeper' = [pc |-> "claimed", todo |-> w.todo, list |-> rest, cur |-> d]
          \/ sweeper' = [pc |-> w.pc, todo |-> w.todo, list |-> rest, cur |-> w.cur]
      BY <3>1
    <3>4. /\ w.pc \in {"idle", "queue", "jobs", "claimed", "sent"}
          /\ w.todo \in SUBSET Deposits /\ w.cur \in Deposits \cup {NoDeposit}
      OBVIOUS
    <3> QED BY <2>3, <3>2, <3>3, <3>4
  <2>5. Files(d)
    BY <2>1
  <2> QED BY <1>1, <1>4, <2>2, <2>4, <2>5
<1>9. ASSUME sent' = [sent EXCEPT ![c] = sent[c] + 1] PROVE sent' \in [Deposits -> Nat]
  <2>1. CASE c \in Deposits
    <3>1. sent[c] + 1 \in Nat
      BY <2>1
    <3> QED BY <1>9, <3>1
  <2>2. CASE c \notin Deposits
    BY <1>9, <2>2
  <2> QED BY <2>1, <2>2
<1>10. CASE Sweep!SweepRefused \/ Sweep!SweepCompleteError \/ Sweep!SweepLateError
  <2>1. UNCHANGED jobs /\ sweeper' = Sweep!NextJob /\ Sweep!Fail(c)
    BY <1>10 DEF Sweep!SweepRefused, Sweep!SweepCompleteError, Sweep!SweepLateError
  <2>2. sent' \in [Deposits -> Nat]
    BY <1>4, <1>9, <1>10 DEF Sweep!SweepRefused, Sweep!SweepCompleteError, Sweep!SweepLateError
  <2>3. Files(c)
    BY <1>3, <2>1
  <2> QED BY <1>1, <1>2, <2>1, <2>2, <2>3
<1>11. CASE Sweep!SweepSend
  <2>1. sweeper' \in Sweepers /\ UNCHANGED <<jobs, job>>
    BY <1>11 DEF Sweep!SweepSend
  <2> QED BY <1>1, <1>9, <1>11, <2>1 DEF Sweep!SweepSend
<1>12. CASE Sweep!SweepComplete
  <2>1. UNCHANGED <<jobs, sent>> /\ sweeper' = Sweep!NextJob /\ Files(c)
    BY <1>12 DEF Sweep!SweepComplete
  <2> QED BY <1>1, <1>2, <1>4, <2>1
<1>13. CASE Sweep!SweepEnd \/ Sweep!SweepAbort \/ Sweep!SweepCrash
  <2>1. UNCHANGED <<jobs, job, sent>> /\ sweeper' = Sweep!Off
    BY <1>13 DEF Sweep!SweepEnd, Sweep!SweepAbort, Sweep!SweepCrash
  <2> QED BY <1>1, <1>2, <1>4, <2>1
<1> QED BY <1>5, <1>6, <1>7, <1>8, <1>10, <1>11, <1>12, <1>13 DEF Sweep!Step, Sweep!Faults

\* Rows, balances, cursor, tick, jobs and sweeper hold values of their kinds,
\* under all hazards.
THEOREM TypeCorrect == Spec => []TypeOK
<1>1. PipelineInit => Sweep!SweepTypeOK
  BY DEF PipelineInit, Sweep!Init, Sweep!SweepTypeOK, Sweep!Off, Sweep!JobStates
<1>2. PipelineInv /\ Sweep!SweepTypeOK /\ [PipelineNext]_vars => Sweep!SweepTypeOK'
  <2> SUFFICES ASSUME PipelineInv, Sweep!SweepTypeOK, [PipelineNext]_vars
               PROVE  Sweep!SweepTypeOK'
    OBVIOUS
  <2>1. CASE Sweep!Step(OfActive) \/ Sweep!Faults \/ Restart
    BY <2>1, SweepTypes DEF Restart, PipelineInv, IndexerInv, IndexerTypeOK
  <2>2. CASE UNCHANGED sweepOwn
    BY <2>2 DEF sweepOwn, Sweep!SweepTypeOK
  <2> QED BY <2>1, <2>2 DEF PipelineNext, vars
<1>3. PipelineInv /\ Sweep!SweepTypeOK => TypeOK
  BY DEF PipelineInv, IndexerInv, TypeOK
<1> QED BY <1>1, <1>2, <1>3, PipelineCorrect, PTL DEF Spec

-------------------------------------------------------------------------------
(* The balances add up.                                                    *)

Counted == {"credited", "swept"}

\* A deposit is posted to the balance of its owner, ...
Posts(d) ==
  /\ row[d] = "detected"
  /\ row' = [row EXCEPT ![d] = "credited"]
  /\ balance' = [balance EXCEPT ![OwnerOf[d]] = balance[OwnerOf[d]] + Value[d]]

\* ... or nothing is posted, and at most one deposit is recorded.
Rests ==
  /\ balance' = balance
  /\ \A d \in Deposits : row'[d] \in Counted <=> row[d] \in Counted
  /\ \E e : \A d \in Deposits : row'[d] # "none" => row[d] # "none" \/ d = e

\* Only finitely many deposits are recorded, and each balance is their total.
BalanceInv == IsFiniteSet(Recorded) /\ CreditedOnce

\* A step of the indexer posts one deposit or none.
LEMMA PostsOne ==
  ASSUME IndexerInv, IndexerStep \/ Crash
  PROVE  Rests \/ \E d \in Deposits : Posts(d)
<1> DEFINE Moves == Rests \/ \E d \in Deposits : Posts(d)
<1> USE DEF chainVars, streamVars
<1>1. ASSUME NEW d \in Deposits, Record(d), UNCHANGED balance PROVE Moves
  <2>1. IndexerTypeOK
    BY DEF IndexerInv
  <2>2. \A e \in Deposits : \/ row'[e] = row[e]
                            \/ e = d /\ row[e] = "none" /\ row'[e] = "detected"
    BY <1>1, <2>1, RecordMoves
  <2> QED BY <1>1, <2>2 DEF Rests, Counted
<1>2. ASSUME UNCHANGED <<row, balance>> PROVE Moves
  BY <1>2 DEF Rests
<1>3. ASSUME NEW d \in Deposits, Credit(d) PROVE Moves
  <2>1. CASE Creditable(d)
    BY <1>3, <2>1 DEF Credit, Creditable, Posts
  <2>2. CASE ~Creditable(d)
    BY <1>2, <1>3, <2>2 DEF Credit
  <2> QED BY <2>1, <2>2
<1> SUFFICES Moves
  OBVIOUS
<1> HIDE DEF Moves
<1>4. CASE TickStep
  <2>1. ASSUME NEW d \in Deposits, ScanRecord(d) PROVE Moves
    BY <1>1, <2>1 DEF ScanRecord
  <2>2. ASSUME NEW d \in Deposits, FinalizeCredit(d) PROVE Moves
    BY <1>3, <2>2 DEF FinalizeCredit
  <2>3. CASE ScanCredit
    BY <1>3, <2>3 DEF ScanCredit, IndexerInv
  <2>4. CASE \/ TickStart \/ TickRead \/ Resolve \/ Fetch
             \/ ScanDone \/ FinalizeList \/ TickEnd
    BY <1>2, <2>4 DEF TickStart, TickRead, Resolve, Fetch, ScanDone,
                      FinalizeList, TickEnd
  <2> QED BY <1>4, <2>1, <2>2, <2>3, <2>4 DEF TickStep
<1>5. ASSUME NEW d \in Deposits, StreamEvent(d) \/ Reprocess(d) PROVE Moves
  <2>1. UNCHANGED balance /\ (Record(d) \/ UNCHANGED row)
    BY <1>5 DEF StreamEvent, Reprocess, Handle
  <2> QED BY <1>1, <1>2, <2>1
<1>6. ASSUME NEW h \in DOMAIN handler, HandlerCredit(h) PROVE Moves
  <2>1. handler[h] \in Deposits /\ Credit(handler[h])
    BY <1>6 DEF HandlerCredit, IndexerInv, IndexerTypeOK
  <2> QED BY <1>3, <2>1
<1>7. CASE Faults
  BY <1>2, <1>7 DEF Faults, TickError, TickSkipped, StreamFailure, HandlerError,
                    StreamEventError, Reorg
<1>8. CASE \/ StreamCursor \/ ClearRealtime \/ SetRealtime \/ NewBlock \/ Crash
           \/ \E u \in Users : SetWallet(u)
  BY <1>2, <1>8 DEF StreamCursor, ClearRealtime, SetRealtime, NewBlock, Crash,
                    SetWallet
<1> QED BY <1>4, <1>5, <1>6, <1>7, <1>8 DEF IndexerStep

\* Either way the balances keep adding up.
LEMMA BalanceSteps ==
  ASSUME IndexerTypeOK, BalanceInv, Rests \/ \E d \in Deposits : Posts(d)
  PROVE  BalanceInv'
<1>1. /\ \A d \in Deposits : Value[d] \in Int /\ OwnerOf[d] \in Users
      /\ row \in [Deposits -> Rows] /\ balance \in [Users -> Nat]
  BY ChainAssumption DEF IndexerTypeOK
<1>2. CASE Rests
  <2>1. PICK e : \A d \in Deposits : row'[d] # "none" => row[d] # "none" \/ d = e
    BY <1>2 DEF Rests
  <2>2. Recorded' \subseteq Recorded \cup {e}
    BY <2>1 DEF Recorded
  <2>3. IsFiniteSet(Recorded)'
    BY <2>2, FS_AddElement, FS_Subset DEF BalanceInv
  <2>4. ASSUME NEW u \in Users PROVE balance'[u] = Total(Value, Kept(u)')
    <3>1. Kept(u)' = Kept(u)
      BY <1>2 DEF Rests, Counted, Kept
    <3>2. balance'[u] = Total(Value, Kept(u))
      BY <1>2 DEF Rests, BalanceInv, CreditedOnce
    <3> QED BY Zenon, <3>1, <3>2
  <2> QED BY <2>3, <2>4 DEF BalanceInv, CreditedOnce
<1>3. ASSUME NEW d \in Deposits, Posts(d) PROVE BalanceInv'
  <2>1. /\ row[d] = "detected"
        /\ \A e \in Deposits : row'[e] = IF e = d THEN "credited" ELSE row[e]
    BY <1>1, <1>3 DEF Posts
  <2>2. Recorded' = Recorded
    BY <2>1 DEF Recorded
  <2>3. ASSUME NEW u \in Users PROVE balance'[u] = Total(Value, Kept(u)')
    <3>1. balance[u] = Total(Value, Kept(u)) /\ balance[u] \in Nat
      BY <1>1 DEF BalanceInv, CreditedOnce
    <3>2. CASE u = OwnerOf[d]
      <4>1. Kept(u)' = Kept(u) \cup {d} /\ d \notin Kept(u)
        BY <2>1, <3>2 DEF Kept
      <4>2. IsFiniteSet(Kept(u)) /\ \A x \in Kept(u) : Value[x] \in Int
        <5>1. Kept(u) \subseteq Recorded /\ Kept(u) \subseteq Deposits
          BY DEF Kept, Recorded
        <5> QED BY <1>1, <5>1, FS_Subset DEF BalanceInv
      <4>3. Total(Value, Kept(u) \cup {d}) = Total(Value, Kept(u)) + Value[d]
        BY <1>1, <4>1, <4>2, TotalWith
      <4>4. balance'[u] = balance[u] + Value[d]
        BY <1>1, <1>3, <3>2 DEF Posts
      <4>5. balance'[u] = Total(Value, Kept(u) \cup {d})
        BY <3>1, <4>3, <4>4
      <4> QED BY Zenon, <4>1, <4>5
    <3>3. CASE u # OwnerOf[d]
      <4>1. Kept(u)' = Kept(u)
        BY <2>1, <3>3 DEF Kept
      <4>2. balance'[u] = Total(Value, Kept(u))
        BY <1>1, <1>3, <3>1, <3>3 DEF Posts
      <4> QED BY Zenon, <4>1, <4>2
    <3> QED BY <3>2, <3>3
  <2>4. IsFiniteSet(Recorded)'
    BY Zenon, <2>2 DEF BalanceInv
  <2> QED BY <2>3, <2>4 DEF BalanceInv, CreditedOnce
<1> QED BY <1>2, <1>3

\* Under all hazards, reorganisations, restarts and the three ways to credit a
\* deposit included, a balance is the total of the deposits credited to it.
THEOREM CreditedOnceCorrect == Spec => []CreditedOnce
<1>1. PipelineInit => BalanceInv
  <2> SUFFICES ASSUME PipelineInit PROVE BalanceInv
    OBVIOUS
  <2>1. Recorded = {} /\ \A u \in Users : Kept(u) = {} /\ balance[u] = 0
    BY DEF PipelineInit, Init, Recorded, Kept
  <2>2. IsFiniteSet(Recorded)
    BY Zenon, <2>1, FS_EmptySet
  <2>3. \A u \in Users : balance[u] = Total(Value, Kept(u))
    BY Zenon, <2>1, TotalOfNone
  <2> QED BY <2>2, <2>3 DEF BalanceInv, CreditedOnce
<1>2. PipelineInv /\ BalanceInv /\ [PipelineNext]_vars => BalanceInv'
  <2> SUFFICES ASSUME PipelineInv, BalanceInv, [PipelineNext]_vars PROVE BalanceInv'
    OBVIOUS
  <2>1. CASE IndexerStep \/ Restart
    BY <2>1, PostsOne, BalanceSteps DEF PipelineInv, IndexerInv, Restart
  <2>2. CASE (Sweep!Step(OfActive) \/ Sweep!Faults) /\ UNCHANGED indexerOwn
    <3>1. \A d \in Deposits : \/ row'[d] = row[d]
                              \/ row[d] \in Counted /\ row'[d] = "swept"
      BY <2>2, SweeperRows DEF PipelineInv, IndexerInv, IndexerTypeOK, Counted
    <3>2. Rests
      BY <2>2, <3>1 DEF indexerOwn, Rests, Counted
    <3> QED BY <3>2, BalanceSteps DEF PipelineInv, IndexerInv
  <2>3. CASE UNCHANGED vars
    <3>1. Rests
      BY <2>3 DEF vars, indexerVars, Rests
    <3> QED BY <3>1, BalanceSteps DEF PipelineInv, IndexerInv
  <2> QED BY <2>1, <2>2, <2>3 DEF PipelineNext
<1>3. BalanceInv => CreditedOnce
  BY DEF BalanceInv
<1> QED BY <1>1, <1>2, <1>3, PipelineCorrect, PTL DEF Spec

-------------------------------------------------------------------------------
(* Nothing is credited early.                                              *)

\* Whoever is about to credit a deposit has seen its confirmations.
DeepInv ==
  /\ gone = {}
  /\ \A d \in Deposits : row[d] \in {"credited", "swept"} => Deep(d, head)
  /\ \A h \in DOMAIN handler : handler[h] # NoDeposit => Deep(handler[h], head)
  /\ tick.pc = "credit" => Deep(tick.cur, head)
  /\ tick.pc = "final" => \A d \in tick.todo : Deep(d, head)

\* Confirmations counted from an older head are still there.
LEMMA DeepStays ==
  ASSUME NEW d \in Deposits, NEW h \in Nat, NEW k \in Nat, h <= k, Deep(d, h)
  PROVE  Deep(d, k)
<1>1. BlockOf[d] \in Nat /\ Confs \in Nat
  BY ChainAssumption
<1> QED BY <1>1 DEF Deep

\* Without reorganisations every step keeps what was recorded on the chain.
LEMMA DeepSteps ==
  ASSUME IndexerInv, DeepInv, IndexerStep \/ Crash, "reorg" \notin Hazards
  PROVE  DeepInv'
<1> USE DEF chainVars, streamVars
<1>0. /\ head \in Nat /\ tick.head \in Nat /\ tick.head <= head /\ tick \in TickStates
      /\ tick.todo \subseteq Deposits
      /\ DOMAIN handler = {"stream", "manual"}
      /\ \A h \in DOMAIN handler : handler[h] # NoDeposit => handler[h] \in Deposits
  BY DEF IndexerInv, IndexerTypeOK, TickStates
<1>1. ASSUME UNCHANGED <<head, gone, handler>>, NEW d \in Deposits, Deep(d, head),
             Credit(d), \/ tick' = [tick EXCEPT !.pc = "scan", !.cur = NoDeposit]
                        \/ tick' = [tick EXCEPT !.todo = @ \ {d}] /\ tick.pc = "final"
                        \/ UNCHANGED tick
      PROVE  DeepInv'
  <2>1. \A e \in Deposits : row'[e] \in {"credited", "swept"} => Deep(e, head)
    BY <1>1, CreditMoves DEF DeepInv, IndexerInv
  <2>2. /\ tick'.pc = "credit" => tick.pc = "credit" /\ tick'.cur = tick.cur
        /\ tick'.pc = "final" => tick.pc = "final" /\ tick'.todo \subseteq tick.todo
    BY <1>0, <1>1 DEF TickStates
  <2> HIDE <1>0
  <2> QED BY <1>1, <2>1, <2>2 DEF DeepInv, Deep
<1>2. ASSUME UNCHANGED <<head, gone, handler>>,
             \A d \in Deposits : row'[d] \in {"credited", "swept"} => row'[d] = row[d],
             tick'.pc \in {"credit", "final"} =>
               tick'.pc = tick.pc /\ tick'.cur = tick.cur /\ tick'.todo = tick.todo
      PROVE  DeepInv'
  BY <1>2 DEF DeepInv, Deep
<1>3. CASE \/ TickStart \/ TickRead \/ Resolve \/ Fetch \/ ScanDone
           \/ TickEnd \/ TickError \/ TickSkipped
  <2>1. UNCHANGED <<head, gone, handler, row>>
    BY <1>3 DEF TickStart, TickRead, Resolve, Fetch, ScanDone, TickEnd, TickError,
                TickSkipped
  <2>2. tick'.pc \in {"idle", "read", "resolve", "list", "scan"}
    <3>1. CASE TickStart \/ TickSkipped \/ Fetch
      BY <1>0, <3>1 DEF TickStart, TickSkipped, Fetch, TickStates
    <3>2. CASE TickEnd \/ TickError \/ ScanDone \/ TickRead
      <4>1. \/ tick' = Resting \/ tick' = ToList
            \/ tick' = [Resting EXCEPT !.pc = "list", !.head = head]
            \/ tick' = [Resting EXCEPT !.pc = "resolve", !.head = head, !.map = cache']
        BY <3>2 DEF TickEnd, TickError, ScanDone, TickRead
      <4>2. /\ Resting.pc = "idle"
            /\ \A h : [Resting EXCEPT !.pc = "list", !.head = h].pc = "list"
            /\ \A h, M : [Resting EXCEPT !.pc = "resolve", !.head = h, !.map = M].pc
                        = "resolve"
        BY DEF Resting
      <4>3. ToList.pc = "list"
        BY <4>2 DEF ToList
      <4>4. tick'.pc \in {"idle", "list", "resolve"}
        <5>1. CASE tick' = Resting
          BY <4>2, <5>1
        <5>2. CASE tick' = ToList
          BY <4>3, <5>2
        <5>3. CASE tick' = [Resting EXCEPT !.pc = "list", !.head = head]
          BY <4>2, <5>3
        <5>4. CASE tick' = [Resting EXCEPT !.pc = "resolve", !.head = head, !.map = cache']
          BY <4>2, <5>4
        <5> QED BY <4>1, <5>1, <5>2, <5>3, <5>4
      <4> QED BY <4>4
    <3>3. CASE Resolve
      BY <1>0, <3>3 DEF Resolve, ToList, Resting, TickStates
    <3> QED BY <1>3, <3>1, <3>2, <3>3
  <2> QED BY <1>2, <2>1, <2>2
<1>4. ASSUME NEW d \in Deposits, ScanRecord(d)
      PROVE  DeepInv'
  <2>1. \A e \in Deposits : row'[e] \in {"credited", "swept"} => row'[e] = row[e]
    BY <1>4, RecordMoves DEF ScanRecord, IndexerInv
  <2>2. UNCHANGED <<head, gone, handler>>
    BY <1>4 DEF ScanRecord
  <2>3. CASE Deep(d, tick.head)
    <3>1. tick'.pc = "credit" /\ tick'.cur = d
      BY <1>0, <1>4, <2>3 DEF ScanRecord, TickStates
    <3>2. Deep(d, head)
      BY <1>0, <2>3, DeepStays
    <3> QED BY <2>1, <2>2, <3>1, <3>2 DEF DeepInv, Deep
  <2>4. CASE ~Deep(d, tick.head)
    <3>1. tick'.pc = "scan"
      BY <1>0, <1>4, <2>4 DEF ScanRecord, TickStates
    <3> QED BY <1>2, <2>1, <2>2, <3>1
  <2> QED BY <2>3, <2>4
<1>5. CASE ScanCredit
  <2>1. tick.cur \in Deposits /\ Deep(tick.cur, head)
    BY <1>5 DEF ScanCredit, IndexerInv, DeepInv
  <2> QED BY <1>1, <1>5, <2>1 DEF ScanCredit
<1>6. CASE FinalizeList
  <2>1. PICK T \in OldestOf(Candidates) : tick' = [tick EXCEPT !.pc = "final", !.todo = T]
    BY <1>6 DEF FinalizeList
  <2>2. T \subseteq Candidates
    BY DEF OldestOf, kSubset
  <2>3. \A d \in T : d \in Deposits /\ Deep(d, tick.head)
    BY <2>2 DEF Candidates
  <2>4. \A d \in T : Deep(d, head)
    BY <1>0, <2>3, DeepStays
  <2>5. tick'.pc = "final" /\ tick'.todo = T
    BY <1>0, <2>1 DEF TickStates
  <2>6. UNCHANGED <<head, gone, handler, row>>
    BY <1>6 DEF FinalizeList
  <2> QED BY <2>4, <2>5, <2>6 DEF DeepInv, Deep
<1>7. ASSUME NEW d \in Deposits, FinalizeCredit(d)
      PROVE  DeepInv'
  <2>1. Deep(d, head)
    BY <1>7 DEF FinalizeCredit, DeepInv
  <2> QED BY <1>1, <1>7, <2>1 DEF FinalizeCredit
<1>8. ASSUME NEW d \in Deposits, StreamEvent(d) \/ Reprocess(d)
      PROVE  DeepInv'
  <2>1. PICK h \in {"stream", "manual"} : Handle(h, d)
    BY <1>8 DEF StreamEvent, Reprocess
  <2>2. \A e \in Deposits : row'[e] \in {"credited", "swept"} => row'[e] = row[e]
    <3>1. CASE Record(d)
      BY <3>1, RecordMoves DEF IndexerInv
    <3>2. CASE UNCHANGED row
      BY <3>2
    <3> QED BY <2>1, <3>1, <3>2 DEF Handle
  <2>3. UNCHANGED <<head, gone, tick>>
    BY <2>1 DEF Handle
  <2>4. \/ UNCHANGED handler
        \/ handler' = [handler EXCEPT ![h] = NoDeposit]
        \/ handler' = [handler EXCEPT ![h] = d] /\ Deep(d, head)
    BY <2>1 DEF Handle
  <2> QED BY <2>2, <2>3, <2>4 DEF DeepInv, Deep
<1>9. ASSUME NEW h \in DOMAIN handler, HandlerCredit(h) \/ HandlerError(h)
      PROVE  DeepInv'
  <2>1. /\ UNCHANGED <<head, gone, tick>> /\ handler[h] # NoDeposit
        /\ handler' = [handler EXCEPT ![h] = NoDeposit]
    BY <1>9 DEF HandlerCredit, HandlerError
  <2>2. Credit(handler[h]) \/ UNCHANGED row
    BY <1>9 DEF HandlerCredit, HandlerError
  <2>3. handler[h] \in Deposits /\ Deep(handler[h], head)
    BY <1>0, <2>1 DEF DeepInv
  <2>4. \A e \in Deposits : row'[e] \in {"credited", "swept"} => Deep(e, head)
    <3>1. CASE Credit(handler[h])
      BY <2>3, <3>1, CreditMoves DEF DeepInv, IndexerInv
    <3>2. CASE UNCHANGED row
      BY <3>2 DEF DeepInv
    <3> QED BY <2>2, <3>1, <3>2
  <2> QED BY <2>1, <2>4 DEF DeepInv, Deep
<1>10. CASE NewBlock
  <2>1. head' = head + 1 /\ UNCHANGED <<gone, row, handler, tick>>
    BY <1>10 DEF NewBlock
  <2>2. \A d \in Deposits : Deep(d, head) => Deep(d, head')
    BY <1>0, <2>1, DeepStays
  <2>3. tick.pc = "credit" => tick.cur \in Deposits
    BY DEF IndexerInv
  <2>4. /\ \A d \in Deposits : row'[d] \in {"credited", "swept"} => Deep(d, head')
        /\ \A h \in DOMAIN handler' : handler'[h] # NoDeposit => Deep(handler'[h], head')
    BY <1>0, <2>1, <2>2 DEF DeepInv
  <2>5. /\ tick'.pc = "credit" => Deep(tick'.cur, head')
        /\ tick'.pc = "final" => \A d \in tick'.todo : Deep(d, head')
    BY <1>0, <2>1, <2>2, <2>3 DEF DeepInv
  <2> QED BY <2>1, <2>4, <2>5 DEF DeepInv, Deep
<1>11. CASE Crash
  <2>1. tick'.pc = "idle"
    BY <1>11 DEF Crash, Resting
  <2> QED BY <1>11, <2>1 DEF Crash, DeepInv, Deep
<1>12. CASE \/ StreamCursor \/ ClearRealtime \/ SetRealtime \/ StreamFailure
            \/ \E u \in Users : SetWallet(u)
            \/ \E d \in Deposits : StreamEventError(d)
  BY <1>2, <1>12 DEF StreamCursor, ClearRealtime, SetRealtime, StreamFailure,
                     SetWallet, StreamEventError
<1>13. \A d \in Deposits : ~Reorg(d)
  BY DEF Reorg
<1> HIDE DEF chainVars, streamVars
<1> QED BY <1>3, <1>4, <1>5, <1>6, <1>7, <1>8, <1>9, <1>10, <1>11, <1>12, <1>13
        DEF IndexerStep, TickStep, Faults

\* If the chain is never reorganised, nothing is credited before its
\* confirmations, by the tick, the stream or an administrator.
THEOREM CreditedIsConfirmedCorrect ==
  ASSUME "reorg" \notin Hazards
  PROVE  Spec => []CreditedIsConfirmed
<1>1. PipelineInit => DeepInv
  BY DEF PipelineInit, Init, DeepInv, Resting
<1>2. PipelineInv /\ DeepInv /\ [PipelineNext]_vars => DeepInv'
  <2> SUFFICES ASSUME PipelineInv, DeepInv, [PipelineNext]_vars PROVE DeepInv'
    OBVIOUS
  <2>1. CASE IndexerStep \/ Restart
    BY <2>1, DeepSteps DEF PipelineInv, Restart
  <2>2. CASE (Sweep!Step(OfActive) \/ Sweep!Faults) /\ UNCHANGED indexerOwn
    <3>1. \A d \in Deposits : row'[d] \in {"credited", "swept"} =>
                              row[d] \in {"credited", "swept"}
      BY <2>2, SweeperRows DEF PipelineInv, IndexerInv, IndexerTypeOK
    <3> QED BY <2>2, <3>1 DEF indexerOwn, DeepInv, Deep
  <2>3. CASE UNCHANGED vars
    BY <2>3 DEF vars, indexerVars, DeepInv, Deep
  <2> QED BY <2>1, <2>2, <2>3 DEF PipelineNext
<1>3. DeepInv => CreditedIsConfirmed
  BY DEF DeepInv, Deep, CreditedIsConfirmed
<1> QED BY <1>1, <1>2, <1>3, PipelineCorrect, PTL DEF Spec

-------------------------------------------------------------------------------
(* Nothing is passed over while the stream is off.                         *)

\* No stream, no reprocessing, no disabled wallet.
Polling == Realtime = {FALSE} /\ Hazards \cap {"disable", "manual", "stream"} = {}

\* Only the tick is at work, and it knows every wallet.
OnlyTick ==
  /\ active = Users /\ cache = Users
  /\ realtime = FALSE /\ stream = FALSE /\ seeking = FALSE /\ clearing = FALSE
  /\ inbox = {}
  /\ \A h \in DOMAIN handler : handler[h] = NoDeposit
  /\ tick.pc \in {"resolve", "scan", "credit"} => tick.map = Users
  /\ tick.pc = "resolve" => tick.todo = {}

\* Deposits are recorded in the order of their blocks, up to the cursor and up
\* to where the scan has got.  Where nothing was scanned to its end, the scan
\* will start behind the last recorded block, which must be before those that
\* are missing: only what cuts a scan off leaves part of a block.
InScope(d) == OnChain(d) /\ StartBlock <= BlockOf[d]
Scanning == tick.pc \in {"scan", "credit"}
Missing(d) == InScope(d) /\ row[d] = "none" /\ ~PartlyRecorded(d)

InOrder ==
  /\ \A d \in Deposits : Missing(d) =>
       /\ cursor < BlockOf[d]
       /\ \A e \in Deposits : row[e] # "none" => BlockOf[e] <= BlockOf[d]
       /\ Scanning => tick.next <= BlockOf[d] \/ d \in tick.todo
  /\ cursor = Unset /\ ~Scanning /\ Recorded # {} => Hazards \cap {"crash", "io_error"} # {}

ScanBounded ==
  /\ cursor <= head
  /\ tick.pc \in {"scan", "credit"} =>
       /\ tick.next <= tick.upto + 1 /\ tick.upto <= head
       /\ \A d \in tick.todo : BlockOf[d] < tick.next

PollInv == OnlyTick /\ InOrder /\ ScanBounded

\* What is recorded does not change what is missing of it.
LEMMA SameRecorded ==
  ASSUME \A e \in Deposits : row'[e] = "none" <=> row[e] = "none"
  PROVE  Recorded' = Recorded /\ \A d \in Deposits : PartlyRecorded(d)' <=> PartlyRecorded(d)
BY DEF Recorded, PartlyRecorded

\* A step that records nothing and does not move the scan on; only what cuts a
\* scan off leaves it, or forgets the cursor.
LEMMA QuietStep ==
  ASSUME IndexerInv, PollInv, OnlyTick', UNCHANGED head, gone \subseteq gone',
         \A e \in Deposits : row'[e] = "none" <=> row[e] = "none",
         \/ cursor' = cursor /\ (Scanning' <=> Scanning)
         \/ cursor' \in {cursor, Unset} /\ Hazards \cap {"crash", "io_error"} # {},
         \/ tick'.pc \notin {"scan", "credit"}
         \/ /\ tick.pc \in {"scan", "credit"}
            /\ tick'.next = tick.next /\ tick'.upto = tick.upto
            /\ tick'.todo = tick.todo
  PROVE  PollInv'
<1>1. head \in Nat /\ cursor' <= head
  BY DEF IndexerInv, IndexerTypeOK, PollInv, ScanBounded, Unset
<1>2. \A d \in Deposits : InScope(d)' => InScope(d) /\ BlockOf[d] \in Nat /\ Unset < BlockOf[d]
  BY ChainAssumption DEF InScope, OnChain, Unset
<1>3. Recorded' = Recorded /\ \A d \in Deposits : Missing(d)' => Missing(d)
  BY <1>2, SameRecorded DEF Missing
<1>4. cursor' = Unset /\ ~Scanning' /\ Recorded' # {} => Hazards \cap {"crash", "io_error"} # {}
  BY <1>3 DEF PollInv, InOrder
<1>5. ASSUME NEW d \in Deposits, Missing(d)'
      PROVE  /\ cursor' < BlockOf[d]
             /\ \A e \in Deposits : row'[e] # "none" => BlockOf[e] <= BlockOf[d]
             /\ Scanning' => tick'.next <= BlockOf[d] \/ d \in tick'.todo
  <2>1. Missing(d) /\ Unset < BlockOf[d]
    BY <1>2, <1>3, <1>5 DEF Missing
  <2> QED BY <2>1 DEF PollInv, InOrder, Scanning
<1>6. InOrder'
  BY <1>4, <1>5 DEF InOrder
<1>7. ScanBounded'
  BY <1>1 DEF PollInv, ScanBounded
<1> QED BY <1>6, <1>7 DEF PollInv

\* The scan moves on.
LEMMA ScanSteps ==
  ASSUME IndexerInv, PollInv, Polling,
         Resolve \/ Fetch \/ ScanCredit \/ ScanDone \/ \E d \in Deposits : ScanRecord(d)
  PROVE  PollInv'
<1> USE DEF chainVars, streamVars
<1>1. /\ head \in Nat /\ cursor \in Nat \cup {Unset} /\ StartBlock \in Nat
      /\ tick \in TickStates /\ tick.head <= head
      /\ \A d \in Deposits : BlockOf[d] \in Nat \ {0}
  BY ChainAssumption DEF IndexerInv, IndexerTypeOK, TickStates
<1>2. /\ tick.head \in Nat /\ tick.next \in Nat /\ tick.upto \in Nat
      /\ tick.todo \subseteq Deposits
  BY <1>1 DEF TickStates
<1>3. CASE Resolve
  <2> DEFINE c == IF cursor = Unset /\ Recorded # {} THEN LastRecorded ELSE cursor
             u == Lesser(tick.head, FirstBlock + MaxRange - 1)
             n == FirstBlock
  <2>1. /\ n \in Nat /\ u \in Nat /\ u <= tick.head
        /\ n <= tick.head => n <= u + 1
    BY <1>2, FirstBlockType, ChainAssumption DEF Lesser
  <2>2. c \in Nat \cup {Unset} /\ c <= head
    BY <1>1, LastRecordedIsMax DEF PollInv, ScanBounded
  <2>3. ASSUME NEW d \in Deposits, Missing(d)
        PROVE  c < BlockOf[d] /\ n <= BlockOf[d]
    <3>1. /\ cursor < BlockOf[d] /\ BlockOf[d] \in Nat /\ StartBlock <= BlockOf[d]
          /\ \A e \in Recorded : BlockOf[e] <= BlockOf[d]
      BY <1>1, <2>3 DEF PollInv, InOrder, InScope, Missing, Recorded
    <3>2. ASSUME cursor = Unset, Recorded # {}
          PROVE  LastRecorded \in Nat /\ LastRecorded < BlockOf[d]
      <4>1. Hazards \cap {"crash", "io_error"} # {}
        BY <1>3, <3>2 DEF PollInv, InOrder, Scanning, Resolve
      <4>2. \A e \in Recorded : BlockOf[e] < BlockOf[d]
        <5>1. \A e \in Recorded : BlockOf[e] # BlockOf[d]
          BY <2>3, <4>1 DEF Missing, PartlyRecorded, Recorded
        <5> QED BY <1>1, <3>1, <5>1 DEF Recorded
      <4> QED BY <3>2, <4>2, LastRecordedIsMax
    <3> HIDE DEF Recorded, LastRecorded
    <3> QED BY <1>1, <3>1, <3>2 DEF FirstBlock, Unset
  <2>4. /\ cursor' = c
        /\ UNCHANGED <<head, gone, active, cache, row, realtime, stream, seeking,
                       clearing, inbox, handler>>
        /\ \/ tick' = ToList
           \/ /\ n <= tick.head /\ tick.pc = "resolve"
              /\ tick' = [tick EXCEPT !.pc = "scan", !.next = n, !.upto = u]
    BY <1>2, <2>1, <1>3 DEF Resolve
  <2>5. Recorded' = Recorded /\ \A d \in Deposits : Missing(d)' => Missing(d)
    BY <2>4, SameRecorded DEF Missing, InScope, OnChain
  <2>6. c = Unset => Recorded = {}
    BY <1>1, LastRecordedIsMax DEF Unset
  <2>7. \A d \in Deposits : Missing(d)' =>
          c < BlockOf[d] /\ \A e \in Deposits : row'[e] # "none" => BlockOf[e] <= BlockOf[d]
    BY <2>3, <2>4, <2>5 DEF PollInv, InOrder
  <2> HIDE DEF c, n, u
  <2>8. CASE tick' = ToList
    <3>1. tick'.pc = "list"
      BY <2>8 DEF ToList, Resting
    <3>2. InOrder'
      BY <2>4, <2>5, <2>6, <2>7, <3>1 DEF InOrder, Scanning
    <3> QED BY <2>2, <2>4, <3>1, <3>2 DEF PollInv, OnlyTick, ScanBounded
  <2>9. CASE tick' # ToList
    <3>1. /\ tick'.pc = "scan" /\ tick'.next = n /\ tick'.upto = u
          /\ tick'.todo = tick.todo /\ tick'.map = Users
      BY <1>1, <2>4, <2>9 DEF TickStates, PollInv, OnlyTick
    <3>2. OnlyTick'
      BY <2>4, <3>1 DEF PollInv, OnlyTick
    <3>3. InOrder'
      BY <2>3, <2>4, <2>5, <2>7, <3>1 DEF InOrder, Scanning
    <3>4. tick.todo = {}
      BY <2>4, <2>9 DEF PollInv, OnlyTick
    <3>5. ScanBounded'
      BY <1>1, <1>2, <2>1, <2>2, <2>4, <2>9, <3>1, <3>4 DEF ScanBounded
    <3> QED BY <3>2, <3>3, <3>5 DEF PollInv
  <2> QED BY <2>8, <2>9
<1>4. CASE Fetch
  <2> DEFINE last == Lesser(tick.upto, tick.next + Chunk - 1)
             T == {d \in Deposits : /\ OnChain(d) /\ OwnerOf[d] \in tick.map
                                    /\ BlockOf[d] \in tick.next..last}
  <2>1. /\ last \in Nat /\ last <= tick.upto
        /\ tick.pc = "scan" /\ tick.todo = {}
    BY <1>2, <1>4, ChainAssumption DEF Fetch, Lesser
  <2>2. tick.map = Users
    BY <2>1 DEF PollInv, OnlyTick
  <2>3. ASSUME NEW d \in Deposits, Missing(d)
        PROVE  last + 1 <= BlockOf[d] \/ d \in T
    <3>1. tick.next <= BlockOf[d]
      BY <2>1, <2>3 DEF PollInv, InOrder, Scanning
    <3>2. OnChain(d) /\ OwnerOf[d] \in tick.map
      BY <2>2, <2>3, ChainAssumption DEF InScope, Missing
    <3> QED BY <1>1, <1>2, <2>1, <3>1, <3>2
  <2>4. \A d \in T : BlockOf[d] < last + 1
    BY <1>1, <1>2, <2>1
  <2>5. tick' = [tick EXCEPT !.next = last + 1, !.todo = T]
    BY <1>4 DEF Fetch
  <2> HIDE DEF last, T
  <2>6. /\ tick'.pc = "scan" /\ tick'.next = last + 1 /\ tick'.upto = tick.upto
        /\ tick'.todo = T /\ tick'.map = Users
    BY <1>1, <2>1, <2>2, <2>5 DEF TickStates
  <2>7. UNCHANGED <<head, gone, active, cache, row, realtime, stream, seeking,
                    clearing, inbox, handler, cursor>>
    BY <1>4 DEF Fetch
  <2>8. OnlyTick'
    BY <2>6, <2>7 DEF PollInv, OnlyTick
  <2>9. InOrder'
    <3>1. \A d \in Deposits : Missing(d)' => Missing(d)
      BY <2>7, SameRecorded DEF Missing, InScope, OnChain
    <3> QED BY <2>3, <2>6, <2>7, <3>1 DEF PollInv, InOrder, Scanning
  <2>10. ScanBounded'
    BY <1>2, <2>1, <2>4, <2>6, <2>7 DEF PollInv, ScanBounded
  <2> QED BY <2>8, <2>9, <2>10 DEF PollInv
<1>5. ASSUME NEW d \in Deposits, ScanRecord(d)
      PROVE  PollInv'
  <2>1. /\ tick.pc = "scan" /\ d \in tick.todo
        /\ \A e \in tick.todo : BlockOf[d] <= BlockOf[e]
        /\ Record(d)
        /\ UNCHANGED <<head, gone, active, cache, realtime, stream, seeking,
                       clearing, inbox, handler, cursor>>
    BY <1>5 DEF ScanRecord
  <2>2. /\ row'[d] # "none"
        /\ \A e \in Deposits : e # d => row'[e] = row[e]
    BY <2>1, RecordMoves DEF IndexerInv
  <2>3. /\ tick'.pc \in {"scan", "credit"} /\ tick'.next = tick.next
        /\ tick'.upto = tick.upto /\ tick'.map = tick.map
        /\ tick'.todo = tick.todo \ {d}
    BY <1>1, <1>5 DEF ScanRecord, TickStates
  <2>4. \A e \in Deposits : Missing(e)' => e # d /\ Missing(e)
    <3>1. \A e \in Deposits : PartlyRecorded(e) /\ e # d => PartlyRecorded(e)'
      BY <2>2 DEF PartlyRecorded
    <3> QED BY <2>1, <2>2, <3>1 DEF Missing, InScope, OnChain
  <2>5. \A e \in Deposits : Missing(e)' =>
          BlockOf[d] <= BlockOf[e] /\ (tick.next <= BlockOf[e] \/ e \in tick.todo \ {d})
    <3> SUFFICES ASSUME NEW e \in Deposits, Missing(e)'
                 PROVE  /\ BlockOf[d] <= BlockOf[e]
                        /\ tick.next <= BlockOf[e] \/ e \in tick.todo \ {d}
      OBVIOUS
    <3>1. e # d /\ (tick.next <= BlockOf[e] \/ e \in tick.todo)
      BY <2>1, <2>4 DEF PollInv, InOrder, Scanning
    <3>2. BlockOf[d] < tick.next
      BY <2>1 DEF PollInv, ScanBounded
    <3> QED BY <1>1, <1>2, <2>1, <3>1, <3>2
  <2>6. OnlyTick'
    BY <2>1, <2>3 DEF PollInv, OnlyTick
  <2>7. InOrder'
    <3> SUFFICES ASSUME NEW e \in Deposits, Missing(e)'
                 PROVE  /\ cursor < BlockOf[e]
                        /\ \A f \in Deposits : row'[f] # "none" => BlockOf[f] <= BlockOf[e]
                        /\ tick.next <= BlockOf[e] \/ e \in tick.todo \ {d}
      BY <2>1, <2>3 DEF InOrder, Scanning
    <3>1. Missing(e)
      BY <2>4
    <3> QED BY <2>2, <2>5, <3>1 DEF PollInv, InOrder
  <2>8. ScanBounded'
    BY <2>1, <2>3 DEF PollInv, ScanBounded
  <2> QED BY <2>6, <2>7, <2>8 DEF PollInv
<1>6. CASE ScanCredit
  <2>1. /\ tick.pc = "credit" /\ tick.cur \in Deposits /\ Credit(tick.cur)
        /\ UNCHANGED <<head, gone, active, cache, realtime, stream, seeking,
                       clearing, inbox, handler, cursor>>
    BY <1>6 DEF ScanCredit, IndexerInv
  <2>2. \A e \in Deposits : row'[e] = "none" <=> row[e] = "none"
    BY <2>1, CreditMoves DEF IndexerInv
  <2>3. /\ tick'.pc = "scan" /\ tick'.next = tick.next /\ tick'.upto = tick.upto
        /\ tick'.map = tick.map /\ tick'.todo = tick.todo
    BY <1>1, <1>6 DEF ScanCredit, TickStates
  <2>4. OnlyTick'
    BY <2>1, <2>3 DEF PollInv, OnlyTick
  <2>5. Scanning' /\ Scanning
    BY <2>1, <2>3 DEF Scanning
  <2> QED BY <2>1, <2>2, <2>3, <2>4, <2>5, QuietStep
<1>7. CASE ScanDone
  <2>1. /\ tick.pc = "scan" /\ tick.todo = {} /\ tick.upto < tick.next
        /\ cursor' = tick.upto /\ tick' = ToList
        /\ UNCHANGED <<head, gone, active, cache, realtime, stream, seeking,
                       clearing, inbox, handler, row>>
    BY <1>2, <1>7 DEF ScanDone
  <2>2. tick'.pc = "list"
    BY <2>1 DEF ToList, Resting
  <2>3. OnlyTick'
    BY <2>1, <2>2 DEF PollInv, OnlyTick
  <2>4. \A d \in Deposits : Missing(d) => tick.upto < BlockOf[d]
    BY <1>1, <1>2, <2>1 DEF PollInv, InOrder, Scanning
  <2>5. InOrder'
    <3>1. \A d \in Deposits : Missing(d)' => Missing(d)
      BY <2>1, SameRecorded DEF Missing, InScope, OnChain
    <3>2. cursor' # Unset
      BY <1>2, <2>1 DEF Unset
    <3> QED BY <2>1, <2>2, <2>4, <3>1, <3>2 DEF PollInv, InOrder, Scanning
  <2>6. ScanBounded'
    BY <2>1, <2>2 DEF PollInv, ScanBounded
  <2> QED BY <2>3, <2>5, <2>6 DEF PollInv
<1> HIDE DEF chainVars, streamVars
<1> QED BY <1>3, <1>4, <1>5, <1>6, <1>7

\* While the stream is off, the tick alone changes what was looked at.
LEMMA PollSteps ==
  ASSUME IndexerInv, PollInv, Polling, IndexerStep \/ Crash
  PROVE  PollInv'
<1> USE DEF chainVars, streamVars
<1>1. /\ "disable" \notin Hazards /\ "manual" \notin Hazards
      /\ "stream" \notin Hazards /\ Realtime = {FALSE}
  BY DEF Polling
<1>2. tick \in TickStates /\ DOMAIN handler = {"stream", "manual"}
  BY DEF IndexerInv, IndexerTypeOK, TickStates
<1>3. CASE Resolve \/ Fetch \/ ScanCredit \/ ScanDone \/ \E d \in Deposits : ScanRecord(d)
  BY <1>3, ScanSteps
<1>4. CASE TickStart
  <2>1. OnlyTick' /\ tick'.pc = "read"
    BY <1>2, <1>4 DEF TickStart, PollInv, OnlyTick, TickStates
  <2> QED BY <1>4, <2>1, QuietStep DEF TickStart, Scanning
<1>5. CASE TickRead
  <2>1. cache' = Users
    BY <1>5 DEF TickRead, AddressMap, PollInv, OnlyTick
  <2>2. \/ IsRest(tick', "resolve", head, Users)
        \/ IsRest(tick', "list", head, {})
    BY <1>5, <2>1, RestingFields DEF TickRead, IndexerInv, IndexerTypeOK
  <2>3. OnlyTick' /\ tick'.pc \notin {"scan", "credit"}
    BY <1>5, <2>1, <2>2 DEF TickRead, IsRest, PollInv, OnlyTick
  <2> QED BY <1>5, <2>3, QuietStep DEF TickRead, Scanning
<1>6. CASE FinalizeList
  <2>1. tick'.pc = "final"
    BY <1>2, <1>6 DEF FinalizeList, TickStates
  <2>2. OnlyTick'
    BY <1>6, <2>1 DEF FinalizeList, PollInv, OnlyTick
  <2> QED BY <1>6, <2>1, <2>2, QuietStep DEF FinalizeList, Scanning
<1>7. ASSUME NEW d \in Deposits, FinalizeCredit(d)
      PROVE  PollInv'
  <2>1. tick'.pc = "final"
    BY <1>2, <1>7 DEF FinalizeCredit, TickStates
  <2>2. \A e \in Deposits : row'[e] = "none" <=> row[e] = "none"
    BY <1>7, CreditMoves DEF FinalizeCredit, IndexerInv
  <2>3. OnlyTick'
    BY <1>7, <2>1 DEF FinalizeCredit, PollInv, OnlyTick
  <2> QED BY <1>7, <2>1, <2>2, <2>3, QuietStep DEF FinalizeCredit, Scanning
<1>8. CASE TickEnd \/ TickError
  <2>1. tick'.pc = "idle"
    BY <1>8 DEF TickEnd, TickError, Resting
  <2>2. OnlyTick'
    BY <1>8, <2>1 DEF TickEnd, TickError, PollInv, OnlyTick
  <2>3. ~Scanning \/ Hazards \cap {"crash", "io_error"} # {}
    BY <1>8 DEF TickEnd, TickError, Scanning
  <2>4. UNCHANGED <<head, gone, row, cursor>>
    BY <1>8 DEF TickEnd, TickError
  <2> QED BY <2>1, <2>2, <2>3, <2>4, QuietStep DEF Scanning
<1>9. CASE NewBlock
  <2>1. /\ head' = head + 1 /\ inbox' = {}
        /\ UNCHANGED <<gone, active, cache, row, realtime, stream, seeking,
                       clearing, cursor, handler, tick>>
    BY <1>9 DEF NewBlock, PollInv, OnlyTick
  <2>2. OnlyTick'
    BY <2>1 DEF PollInv, OnlyTick
  <2>3. /\ head \in Nat /\ cursor \in Nat \cup {Unset}
        /\ tick.next \in Nat /\ tick.upto \in Nat
        /\ \A d \in Deposits : BlockOf[d] \in Nat
    BY <1>2, ChainAssumption DEF IndexerInv, IndexerTypeOK, TickStates
  <2>4. ASSUME NEW d \in Deposits, Missing(d)'
        PROVE  /\ cursor < BlockOf[d]
               /\ \A e \in Deposits : row[e] # "none" => BlockOf[e] <= BlockOf[d]
               /\ Scanning => tick.next <= BlockOf[d] \/ d \in tick.todo
    <3>1. CASE BlockOf[d] <= head
      <4>1. Missing(d)
        BY <2>1, <2>4, <3>1, SameRecorded DEF Missing, InScope, OnChain
      <4> QED BY <4>1 DEF PollInv, InOrder
    <3>2. CASE ~(BlockOf[d] <= head)
      <4>1. cursor <= head /\ (Scanning => tick.next <= head + 1)
        BY <2>3 DEF PollInv, ScanBounded, Scanning
      <4>2. \A e \in Deposits : row[e] # "none" => BlockOf[e] <= head
        BY DEF IndexerInv
      <4> QED BY <2>3, <3>2, <4>1, <4>2 DEF Unset
    <3> QED BY <3>1, <3>2
  <2>5. InOrder'
    BY <2>1, <2>4 DEF PollInv, InOrder, Scanning, Recorded
  <2>6. ScanBounded'
    BY <2>1, <2>3 DEF PollInv, ScanBounded, Unset
  <2> QED BY <2>2, <2>5, <2>6 DEF PollInv
<1>10. CASE Crash
  <2>1. tick'.pc = "idle"
    BY <1>10 DEF Crash, Resting
  <2>2. OnlyTick'
    BY <1>2, <1>10, <2>1 DEF Crash, PollInv, OnlyTick
  <2> QED BY <1>10, <2>1, <2>2, QuietStep DEF Crash, Scanning
<1>11. CASE \E d \in Deposits : Reorg(d)
  <2>1. OnlyTick'
    BY <1>11 DEF Reorg, PollInv, OnlyTick
  <2>2. UNCHANGED <<head, row, cursor, tick>> /\ gone \subseteq gone'
    BY <1>11 DEF Reorg
  <2> QED BY <2>1, <2>2, QuietStep DEF Scanning
<1>12. /\ ~StreamCursor /\ ~ClearRealtime /\ ~SetRealtime
       /\ ~TickSkipped /\ ~StreamFailure
       /\ \A d \in Deposits : ~StreamEvent(d) /\ ~Reprocess(d) /\ ~StreamEventError(d)
       /\ \A h \in DOMAIN handler : ~HandlerCredit(h) /\ ~HandlerError(h)
       /\ \A u \in Users : ~SetWallet(u)
  BY <1>1 DEF PollInv, OnlyTick, StreamCursor, ClearRealtime, SetRealtime, TickSkipped,
              StreamFailure, StreamEvent, Reprocess, StreamEventError, HandlerCredit,
              HandlerError, SetWallet
<1> HIDE DEF chainVars, streamVars
<1> QED BY <1>3, <1>4, <1>5, <1>6, <1>7, <1>8, <1>9, <1>10, <1>11, <1>12
        DEF IndexerStep, TickStep, Faults

\* While the stream is off and no wallet is disabled, the scan passes over no
\* transfer, through failing calls, restarts and reorganisations, but the rest
\* of a block that a failing call or a restart left partly recorded.
THEOREM NothingSkippedCorrect ==
  ASSUME Polling
  PROVE  Spec => []NothingSkipped
<1>1. PipelineInit => PollInv
  BY ChainAssumption
  DEF PipelineInit, Init, Polling, PollInv, OnlyTick, InOrder, ScanBounded, InScope,
      OnChain, Resting, Unset, Missing, Scanning, Recorded
<1>2. PipelineInv /\ PollInv /\ [PipelineNext]_vars => PollInv'
  <2> SUFFICES ASSUME PipelineInv, PollInv, [PipelineNext]_vars PROVE PollInv'
    OBVIOUS
  <2>1. CASE IndexerStep \/ Restart
    BY <2>1, PollSteps DEF PipelineInv, Restart
  <2>2. CASE (Sweep!Step(OfActive) \/ Sweep!Faults) /\ UNCHANGED indexerOwn
    <3>1. \A d \in Deposits : row'[d] = "none" <=> row[d] = "none"
      BY <2>2, SweeperRows DEF PipelineInv, IndexerInv, IndexerTypeOK
    <3>2. OnlyTick' /\ UNCHANGED <<head, gone, cursor, tick>>
      BY <2>2 DEF indexerOwn, PollInv, OnlyTick
    <3> QED BY <3>1, <3>2, QuietStep DEF PipelineInv, Scanning
  <2>3. CASE UNCHANGED vars
    <3>1. OnlyTick' /\ UNCHANGED <<head, gone, cursor, tick, row>>
      BY <2>3 DEF vars, indexerVars, PollInv, OnlyTick
    <3> QED BY <3>1, QuietStep DEF PipelineInv, Scanning
  <2> QED BY <2>1, <2>2, <2>3 DEF PipelineNext
<1>3. PipelineInv /\ PollInv => NothingSkipped
  <2> SUFFICES ASSUME PipelineInv, PollInv, NEW d \in Deposits, OnChain(d),
                      BlockOf[d] \in StartBlock..cursor, row[d] = "none", ~PartlyRecorded(d)
               PROVE  FALSE
    BY DEF NothingSkipped
  <2>1. /\ BlockOf[d] \in Nat /\ StartBlock \in Nat /\ cursor \in Nat \cup {Unset}
    BY ChainAssumption DEF PipelineInv, IndexerInv, IndexerTypeOK
  <2>2. cursor < BlockOf[d]
    BY <2>1 DEF PollInv, InOrder, InScope, Missing, Unset
  <2> QED BY <2>1, <2>2 DEF Unset
<1> QED BY <1>1, <1>2, <1>3, PipelineCorrect, PTL DEF Spec

-------------------------------------------------------------------------------
(* Indexer and sweeper implement the promise.                              *)

outcomes == [d \in Deposits |-> OutcomeOf(d)]

\* The three steps of the promise, in the words of the rows.
LEMMA PromiseSteps ==
  ASSUME NEW d \in Deposits
  PROVE  /\ /\ outcomes[d] = "awaited"
            /\ outcomes' = [outcomes EXCEPT ![d] = "credited"]
            /\ balance' = [balance EXCEPT ![OwnerOf[d]] = @ + Value[d]]
            /\ UNCHANGED sent
            => Promise!Next
         /\ /\ outcomes[d] = "credited" /\ sent[d] = 0 /\ d \notin InTreasury
            /\ sent' = [sent EXCEPT ![d] = 1]
            /\ UNCHANGED <<outcomes, balance>>
            => Promise!Next
         /\ /\ outcomes[d] = "credited" /\ (sent[d] = 1 \/ d \in InTreasury)
            /\ outcomes' = [outcomes EXCEPT ![d] = "swept"]
            /\ UNCHANGED <<balance, sent>>
            => Promise!Next
BY DEF Promise!Next, Promise!Credit, Promise!Move, Promise!Close, outcomes

\* What a row that turns into another makes of the outcomes.
LEMMA OutcomesMove ==
  ASSUME row \in [Deposits -> Rows], NEW d \in Deposits, NEW s \in Counted,
         row' = [row EXCEPT ![d] = s]
  PROVE  outcomes' = [outcomes EXCEPT ![d] = s]
<1>1. \A e \in Deposits : row'[e] = IF e = d THEN s ELSE row[e]
  OBVIOUS
<1>2. \A e \in Deposits : OutcomeOf(e)' = IF e = d THEN s ELSE OutcomeOf(e)
  BY <1>1 DEF OutcomeOf, Counted
<1> QED BY <1>2 DEF outcomes

\* A step of the indexer credits one deposit, or promises nothing new.
LEMMA IndexerKeepsPromise ==
  ASSUME IndexerInv, IndexerStep \/ Crash, UNCHANGED sent
  PROVE  Promise!Next \/ UNCHANGED <<outcomes, balance, sent>>
<1>1. row \in [Deposits -> Rows]
  BY DEF IndexerInv, IndexerTypeOK
<1>2. CASE Rests
  <2>1. \A d \in Deposits : OutcomeOf(d)' = OutcomeOf(d)
    BY <1>2, IndexerMoves DEF Rests, Counted, OutcomeOf
  <2> QED BY <1>2, <2>1 DEF Rests, outcomes
<1>3. ASSUME NEW d \in Deposits, Posts(d) PROVE Promise!Next
  <2>1. outcomes[d] = "awaited"
    BY <1>3 DEF Posts, outcomes, OutcomeOf
  <2>2. outcomes' = [outcomes EXCEPT ![d] = "credited"]
    BY <1>1, <1>3, OutcomesMove DEF Posts, Counted
  <2> QED BY <1>3, <2>1, <2>2, PromiseSteps DEF Posts
<1> QED BY <1>2, <1>3, PostsOne

\* A step of the sweeper moves or closes one deposit, or promises nothing new.
LEMMA SweeperKeepsPromise ==
  ASSUME row \in [Deposits -> Rows], JobsFiled, SweepInv, UNCHANGED balance,
         Sweep!Step(OfActive) \/ Sweep!Faults, "late_error" \notin Sweeping
  PROVE  Promise!Next \/ UNCHANGED <<outcomes, balance, sent>>
<1> DEFINE c == sweeper.cur
<1>1. UNCHANGED row => UNCHANGED outcomes
  BY DEF outcomes, OutcomeOf
<1>2. CASE \/ Sweep!SweepStart(OfActive) \/ Sweep!ListJobs \/ Sweep!ClaimJob
           \/ Sweep!SweepEnd \/ Sweep!SweepRefused \/ Sweep!SweepAbort
  BY <1>1, <1>2 DEF Sweep!SweepStart, Sweep!ListJobs, Sweep!ClaimJob, Sweep!SweepEnd,
                    Sweep!SweepRefused, Sweep!SweepAbort
<1>3. ASSUME NEW d \in Deposits, Sweep!QueueJob(d)
      PROVE  Promise!Next \/ UNCHANGED <<outcomes, balance, sent>>
  <2>1. \/ UNCHANGED row
        \/ /\ row[d] = "credited" /\ d \in InTreasury
           /\ row' = [row EXCEPT ![d] = "swept"]
    BY <1>3 DEF Sweep!QueueJob, Sweep!Sweepable
  <2>2. UNCHANGED sent
    BY <1>3 DEF Sweep!QueueJob
  <2>3. CASE /\ row[d] = "credited" /\ d \in InTreasury
             /\ row' = [row EXCEPT ![d] = "swept"]
    <3>1. outcomes[d] = "credited" /\ outcomes' = [outcomes EXCEPT ![d] = "swept"]
      BY <2>3, OutcomesMove DEF Counted, outcomes, OutcomeOf
    <3> QED BY <2>2, <2>3, <3>1, PromiseSteps
  <2> QED BY <1>1, <2>1, <2>2, <2>3
<1>4. ASSUME c \in Deposits, job[c] = "processing"
      PROVE  outcomes[c] = "credited" /\ row[c] = "credited" /\ c \notin InTreasury
  BY <1>4 DEF JobsFiled, outcomes, OutcomeOf
<1>5. CASE Sweep!SweepSend
  <2>1. sent' = [sent EXCEPT ![c] = @ + 1] /\ sweeper.pc = "claimed" /\ UNCHANGED row
    BY <1>5 DEF Sweep!SweepSend
  <2>2. CASE c \in Deposits
    <3>1. job[c] = "processing" /\ sent[c] = 0
      BY <2>1, <2>2 DEF SweepInv, JobInHand
    <3>2. sent' = [sent EXCEPT ![c] = 1]
      BY <2>1, <2>2, <3>1
    <3> QED BY <1>1, <1>4, <2>1, <2>2, <3>1, <3>2, PromiseSteps
  <2>3. CASE c \notin Deposits
    <3>1. UNCHANGED sent
      BY <2>1, <2>3 DEF SweepInv, RowsOK
    <3> QED BY <1>1, <2>1, <3>1
  <2> QED BY <2>2, <2>3
<1>6. CASE Sweep!SweepComplete
  <2>1. UNCHANGED sent /\ sweeper.pc = "sent"
    BY <1>6 DEF Sweep!SweepComplete
  <2>2. CASE job[c] = "processing" /\ c \in Deposits
    <3>1. row' = [row EXCEPT ![c] = "swept"]
      BY <1>6, <2>2 DEF Sweep!SweepComplete
    <3>2. outcomes' = [outcomes EXCEPT ![c] = "swept"]
      BY <2>2, <3>1, OutcomesMove DEF Counted
    <3>3. sent[c] = 1
      BY <2>1, <2>2 DEF SweepInv, JobInHand
    <3> QED BY <1>4, <2>1, <2>2, <3>2, <3>3, PromiseSteps
  <2>3. CASE ~(job[c] = "processing" /\ c \in Deposits)
    <3>1. UNCHANGED row
      BY <1>6, <2>3 DEF Sweep!SweepComplete
    <3> QED BY <1>1, <2>1, <3>1
  <2> QED BY <2>2, <2>3
<1>7. ~Sweep!SweepLateError /\ ~Sweep!SweepCompleteError
  BY DEF Sweep!SweepLateError, Sweep!SweepCompleteError
<1> QED BY <1>2, <1>3, <1>5, <1>6, <1>7 DEF Sweep!Step, Sweep!Faults

\* If no call fails after its transfer has left, the indexer and the sweeper keep
\* the promise under every other hazard: a value is added to its owner's balance
\* once and stays there, only then the coins move to the treasury, at most once,
\* and only when they lie there the deposit is closed.
THEOREM KeepsDepositPromiseCorrect ==
  ASSUME "late_error" \notin Sweeping
  PROVE  Spec => KeepsDepositPromise
<1>1. PipelineInit => Promise!Init
  BY DEF PipelineInit, Init, Sweep!Init, Promise!Init, OutcomeOf
<1>2. ASSUME PipelineInv, SweepInv, [PipelineNext]_vars
      PROVE  Promise!Next \/ UNCHANGED <<outcomes, balance, sent>>
  <2>1. row \in [Deposits -> Rows]
    BY <1>2 DEF PipelineInv, IndexerInv, IndexerTypeOK
  <2>2. CASE IndexerStep /\ UNCHANGED sweepOwn
    BY <1>2, <2>2, IndexerKeepsPromise DEF PipelineInv, sweepOwn
  <2>3. CASE (Sweep!Step(OfActive) \/ Sweep!Faults) /\ UNCHANGED indexerOwn
    BY <1>2, <2>1, <2>3, SweeperKeepsPromise DEF PipelineInv, indexerOwn
  <2>4. CASE Restart
    <3>1. Crash /\ UNCHANGED sent
      BY <2>4 DEF Restart, Sweep!SweepCrash
    <3> QED BY <1>2, <3>1, IndexerKeepsPromise DEF PipelineInv
  <2>5. CASE UNCHANGED vars
    BY <2>5 DEF vars, indexerVars, sweepOwn, outcomes, OutcomeOf
  <2> QED BY <1>2, <2>2, <2>3, <2>4, <2>5 DEF PipelineNext
<1>3. UNCHANGED <<outcomes, balance, sent>> =>
        UNCHANGED <<[d \in Deposits |-> OutcomeOf(d)], balance, sent>>
  BY DEF outcomes
<1> QED BY <1>1, <1>2, <1>3, PipelineCorrect, SweepCorrect, PTL
        DEF Spec, KeepsDepositPromise, Promise!Spec
=============================================================================
