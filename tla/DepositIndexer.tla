---------------------------- MODULE DepositIndexer ----------------------------
(***************************************************************************)
(* From a transfer on the chain to a credit in the ledger: the polling     *)
(* tick of the indexer with its scan cursor, the realtime stream that      *)
(* replaces the scan while it is up, the administrator's reprocessing of   *)
(* one transaction, and the processor they all call.  One network.         *)
(***************************************************************************)
EXTENDS Integers, FiniteSetsExt

CONSTANTS
  Users,
  Deposits,      \* transfers to deposit addresses, told apart by hash and index
  OwnerOf, Value, BlockOf,  \* functions of Deposits
  Ledgered,      \* users whose ledger account, and its fee account, exist
  Confs,         \* confirmations required
  StartBlock,    \* configured first block of a scan without history
  MaxRange,      \* blocks one tick scans at most
  Chunk,         \* blocks fetched at once: one for the native coin
  Page,          \* rows one tick tries to credit at most
  Realtime,      \* values the runtime flag of the stream may take
  MaxHead,       \* bound: the chain stops growing here
  MaxReorg,      \* blocks a reorganisation may replace
  NoDeposit,
  Hazards

(***************************************************************************)
(* stream   : the websocket or a handler fails, or the health check of the *)
(*            database stops the stream                                    *)
(* manual   : an administrator reprocesses transactions                    *)
(* disable  : wallets are disabled and enabled; the address map is cached  *)
(* reorg    : recent blocks are replaced by ones without a transfer        *)
(* io_error : an RPC or database call fails                                *)
(* crash    : the process stops and starts again                           *)
(***************************************************************************)
IndexerHazards == {"stream", "manual", "disable", "reorg", "io_error", "crash"}

ASSUME ChainAssumption ==
  /\ OwnerOf \in [Deposits -> Users]
  /\ Value \in [Deposits -> Nat \ {0}]
  /\ BlockOf \in [Deposits -> Nat \ {0}]
  /\ NoDeposit \notin Deposits
  /\ Ledgered \subseteq Users
  /\ Confs \in Nat \ {0} /\ StartBlock \in Nat /\ MaxHead \in Nat
  /\ MaxRange \in Nat \ {0} /\ Chunk \in Nat \ {0} /\ Page \in Nat \ {0}
  /\ MaxReorg \in Nat
  /\ Realtime \subseteq BOOLEAN
  /\ Hazards \subseteq IndexerHazards

VARIABLES
  head,     \* height of the chain
  gone,     \* transfers a reorganisation took out of the chain
  active,   \* users whose wallet is not disabled
  cache,    \* users in the cached address map
  row,      \* OnchainDeposit.status, "none" before the row exists
  balance,  \* available balance of each user
  realtime, \* runtime flag depositRealtimeEnabled
  cursor,   \* latestScannedBlock, -1 when not set
  stream,   \* the realtime subscription is up
  seeking,  \* the head request that sets the cursor of a new stream is open
  clearing, \* a failed stream is about to clear the flag
  inbox,    \* events of the stream not handled yet
  handler,  \* the deposit a stream or manual handler is about to credit
  tick      \* the polling tick

chainVars == <<head, gone, active>>
streamVars == <<realtime, stream, seeking, clearing, inbox>>
indexerVars == <<head, gone, active, cache, row, balance, realtime, cursor,
                 stream, seeking, clearing, inbox, handler, tick>>

Unset == -1
Rows == {"none", "detected", "credited", "swept"}
OnChain(d) == BlockOf[d] <= head /\ d \notin gone
Lesser(a, b) == IF a < b THEN a ELSE b

-------------------------------------------------------------------------------
(* The processor.                                                          *)

Deep_OneShort(d, h) == h - BlockOf[d] + 1 >= Confs - 1
Deep(d, h) == h - BlockOf[d] + 1 >= Confs

Record(d) == row' = [row EXCEPT ![d] = IF @ = "none" THEN "detected" ELSE @]

Creditable_Twice(d) == row[d] # "none" /\ OwnerOf[d] \in Ledgered
Creditable(d) == row[d] = "detected" /\ OwnerOf[d] \in Ledgered

Credit_SidesSwapped(d) ==
  IF Creditable(d)
  THEN /\ row' = [row EXCEPT ![d] = "credited"]
       /\ balance' = [balance EXCEPT ![OwnerOf[d]] = @ - Value[d]]
  ELSE UNCHANGED <<row, balance>>
\* creditDetectedDeposit; its callers have counted the confirmations
Credit(d) ==
  IF Creditable(d)
  THEN /\ row' = [row EXCEPT ![d] = "credited"]
       /\ balance' = [balance EXCEPT ![OwnerOf[d]] = @ + Value[d]]
  ELSE UNCHANGED <<row, balance>>

\* getWalletAddressMap: the cached map while it is fresh enough
AddressMap == {cache, active}

-------------------------------------------------------------------------------
(* The tick.                                                               *)

Resting == [pc |-> "idle", head |-> 0, map |-> {}, next |-> 0, upto |-> 0,
            todo |-> {}, cur |-> NoDeposit]
ToList == [Resting EXCEPT !.pc = "list", !.head = tick.head]

\* A wanted stream that is not up is started; its cursor follows later.
TickStart ==
  /\ tick.pc = "idle"
  /\ IF realtime /\ ~stream THEN stream' = TRUE /\ seeking' = TRUE
                            ELSE UNCHANGED <<stream, seeking>>
  /\ tick' = [tick EXCEPT !.pc = "read"]
  /\ UNCHANGED <<chainVars, cache, row, balance, realtime, cursor, clearing,
                 inbox, handler>>

\* An unhealthy database ends the tick before it starts, and the stream with it.
TickSkipped ==
  /\ "stream" \in Hazards /\ tick.pc = "idle" /\ stream
  /\ stream' = FALSE
  /\ UNCHANGED <<chainVars, cache, row, balance, realtime, cursor, seeking,
                 clearing, inbox, handler, tick>>

TickRead ==
  /\ tick.pc = "read"
  /\ cache' \in AddressMap
  /\ tick' = IF cache' # {} /\ ~(realtime /\ stream)
             THEN [Resting EXCEPT !.pc = "resolve", !.head = head, !.map = cache']
             ELSE [Resting EXCEPT !.pc = "list", !.head = head]
  /\ UNCHANGED <<chainVars, row, balance, streamVars, cursor, handler>>

Recorded == {d \in Deposits : row[d] # "none"}
LastRecorded == Max({BlockOf[d] : d \in Recorded})

FirstBlock_LastRecordedAgain ==
  CASE cursor # Unset                   -> cursor + 1
    [] cursor = Unset /\ Recorded # {} -> LastRecorded + 2
    [] OTHER                            -> StartBlock
FirstBlock ==
  CASE cursor # Unset                   -> cursor + 1
    [] cursor = Unset /\ Recorded # {} -> LastRecorded + 1
    [] OTHER                            -> StartBlock

\* resolveFromBlock and the range of this tick
Resolve ==
  /\ tick.pc = "resolve"
  /\ cursor' = IF cursor = Unset /\ Recorded # {} THEN LastRecorded ELSE cursor
  /\ tick' = IF FirstBlock > tick.head THEN ToList
             ELSE [tick EXCEPT !.pc = "scan", !.next = FirstBlock,
                     !.upto = Lesser(tick.head, FirstBlock + MaxRange - 1)]
  /\ UNCHANGED <<chainVars, cache, row, balance, streamVars, handler>>

\* getLogs or getBlock for the next chunk
Fetch ==
  LET last == Lesser(tick.upto, tick.next + Chunk - 1) IN
  /\ tick.pc = "scan" /\ tick.todo = {} /\ tick.next <= tick.upto
  /\ tick' = [tick EXCEPT !.next = last + 1,
       !.todo = {d \in Deposits : /\ OnChain(d) /\ OwnerOf[d] \in tick.map
                                  /\ BlockOf[d] \in tick.next..last}]
  /\ UNCHANGED <<chainVars, cache, row, balance, streamVars, cursor, handler>>

ScanRecord(d) ==
  /\ tick.pc = "scan" /\ d \in tick.todo
  /\ \A e \in tick.todo : BlockOf[d] <= BlockOf[e]
  /\ Record(d)
  /\ tick' = IF Deep(d, tick.head)
             THEN [tick EXCEPT !.todo = @ \ {d}, !.pc = "credit", !.cur = d]
             ELSE [tick EXCEPT !.todo = @ \ {d}]
  /\ UNCHANGED <<chainVars, cache, balance, streamVars, cursor, handler>>

ScanCredit ==
  /\ tick.pc = "credit"
  /\ Credit(tick.cur)
  /\ tick' = [tick EXCEPT !.pc = "scan", !.cur = NoDeposit]
  /\ UNCHANGED <<chainVars, cache, streamVars, cursor, handler>>

ScanDone ==
  /\ tick.pc = "scan" /\ tick.todo = {} /\ tick.next > tick.upto
  /\ cursor' = tick.upto
  /\ tick' = ToList
  /\ UNCHANGED <<chainVars, cache, row, balance, streamVars, handler>>

\* finalizeDetectedDeposits: the oldest detected rows that are deep enough
Candidates_JustDeep ==
  {d \in Deposits : row[d] = "detected" /\ tick.head - BlockOf[d] + 1 = Confs}
Candidates == {d \in Deposits : row[d] = "detected" /\ Deep(d, tick.head)}
OldestOf(S) ==
  {T \in kSubset(Lesser(Page, Cardinality(S)), S) :
     \A d \in T, e \in S \ T : BlockOf[d] <= BlockOf[e]}

FinalizeList ==
  /\ tick.pc = "list"
  /\ \E T \in OldestOf(Candidates) :
       tick' = [tick EXCEPT !.pc = "final", !.todo = T]
  /\ UNCHANGED <<chainVars, cache, row, balance, streamVars, cursor, handler>>

FinalizeCredit(d) ==
  /\ tick.pc = "final" /\ d \in tick.todo
  /\ Credit(d)
  /\ tick' = [tick EXCEPT !.todo = @ \ {d}]
  /\ UNCHANGED <<chainVars, cache, streamVars, cursor, handler>>

TickEnd ==
  /\ tick.pc = "final" /\ tick.todo = {}
  /\ tick' = Resting
  /\ UNCHANGED <<chainVars, cache, row, balance, streamVars, cursor, handler>>

\* A failing call ends the tick for this network; the cursor stays.
TickError ==
  /\ "io_error" \in Hazards /\ tick.pc # "idle"
  /\ tick.pc = "final" => tick.todo # {}
  /\ tick' = Resting
  /\ UNCHANGED <<chainVars, cache, row, balance, streamVars, cursor, handler>>

-------------------------------------------------------------------------------
(* The stream, and reprocessing by hand.                                   *)

\* The head request of a started stream answers, even after it went down, or
\* fails with a warning.
StreamCursor ==
  /\ seeking
  /\ seeking' = FALSE
  /\ \/ cursor' = head
     \/ "io_error" \in Hazards /\ UNCHANGED cursor
  /\ UNCHANGED <<chainVars, cache, row, balance, realtime, stream, clearing,
                 inbox, handler, tick>>

\* The handlers read the map and the head, record, and credit what is deep.
Handle(h, d) ==
  /\ handler[h] = NoDeposit
  /\ cache' \in AddressMap
  /\ IF OwnerOf[d] \in cache'
     THEN /\ Record(d)
          /\ handler' = [handler EXCEPT ![h] = IF Deep(d, head) THEN d ELSE NoDeposit]
     ELSE UNCHANGED <<row, handler>>
  /\ UNCHANGED <<chainVars, balance, realtime, stream, seeking, clearing, cursor,
                 tick>>

StreamEvent(d) ==
  /\ d \in inbox /\ \A e \in inbox : BlockOf[d] <= BlockOf[e]
  /\ Handle("stream", d)
  /\ inbox' = inbox \ {d}

Reprocess(d) ==
  /\ "manual" \in Hazards /\ OnChain(d)
  /\ Handle("manual", d)
  /\ UNCHANGED inbox

HandlerCredit(h) ==
  /\ handler[h] # NoDeposit
  /\ Credit(handler[h])
  /\ handler' = [handler EXCEPT ![h] = NoDeposit]
  /\ UNCHANGED <<chainVars, cache, streamVars, cursor, tick>>

\* A task of the stream fails: the rest of its block is logged and forgotten.
AfterBlockOf(d) == {e \in inbox : BlockOf[e] # BlockOf[d]}

StreamEventError(d) ==
  /\ "stream" \in Hazards /\ d \in inbox
  /\ inbox' = AfterBlockOf(d)
  /\ UNCHANGED <<chainVars, cache, row, balance, realtime, stream, seeking,
                 clearing, cursor, handler, tick>>

\* The crediting transaction of a handler fails, by a conflict for one.
HandlerError(h) ==
  /\ "stream" \in Hazards /\ handler[h] # NoDeposit
  /\ handler' = [handler EXCEPT ![h] = NoDeposit]
  /\ inbox' = IF h = "stream" THEN AfterBlockOf(handler[h]) ELSE inbox
  /\ UNCHANGED <<chainVars, cache, row, balance, realtime, stream, seeking,
                 clearing, cursor, tick>>

\* The socket fails: the subscription is torn down at once, tasks already
\* queued still run, and the flag is cleared later, if that update succeeds.
StreamFailure ==
  /\ "stream" \in Hazards /\ stream
  /\ stream' = FALSE
  /\ clearing' = TRUE
  /\ UNCHANGED <<chainVars, cache, row, balance, realtime, seeking, inbox,
                 cursor, handler, tick>>

ClearRealtime ==
  /\ clearing
  /\ clearing' = FALSE
  /\ \/ realtime' = FALSE
     \/ "io_error" \in Hazards /\ UNCHANGED realtime
  /\ UNCHANGED <<chainVars, cache, row, balance, stream, seeking, inbox, cursor,
                 handler, tick>>

\* updateRuntimeConfig by an administrator; a running stream is left running.
SetRealtime ==
  /\ realtime' \in Realtime \ {realtime}
  /\ UNCHANGED <<chainVars, cache, row, balance, stream, seeking, clearing, inbox,
                 cursor, handler, tick>>

-------------------------------------------------------------------------------
(* The chain, the wallets and the process.                                 *)

NewBlock ==
  /\ head < MaxHead
  /\ head' = head + 1
  /\ inbox' = IF stream
              THEN inbox \cup {d \in Deposits \ gone : BlockOf[d] = head + 1}
              ELSE inbox
  /\ UNCHANGED <<gone, active, cache, row, balance, realtime, stream, seeking,
                 clearing, cursor, handler, tick>>

Reorg(d) ==
  /\ "reorg" \in Hazards
  /\ OnChain(d) /\ head - BlockOf[d] < MaxReorg
  /\ gone' = gone \cup {d}
  /\ UNCHANGED <<head, active, cache, row, balance, streamVars, cursor, handler, tick>>

SetWallet(u) ==
  /\ "disable" \in Hazards
  /\ active' = IF u \in active THEN active \ {u} ELSE active \cup {u}
  /\ UNCHANGED <<head, gone, cache, row, balance, streamVars, cursor, handler, tick>>

\* Cursor, subscription, queue and cache are in memory; the flag is not.
Crash ==
  /\ "crash" \in Hazards
  /\ tick' = Resting
  /\ handler' = [h \in DOMAIN handler |-> NoDeposit]
  /\ cursor' = Unset
  /\ stream' = FALSE /\ seeking' = FALSE /\ clearing' = FALSE /\ inbox' = {}
  /\ cache' = active
  /\ UNCHANGED <<chainVars, row, balance, realtime>>

-------------------------------------------------------------------------------
Init ==
  /\ head = 0 /\ gone = {} /\ active = Users /\ cache = Users
  /\ row = [d \in Deposits |-> "none"]
  /\ balance = [u \in Users |-> 0]
  /\ realtime \in Realtime
  /\ cursor = Unset
  /\ stream = FALSE /\ seeking = FALSE /\ clearing = FALSE /\ inbox = {}
  /\ handler = [h \in {"stream", "manual"} |-> NoDeposit]
  /\ tick = Resting

TickStep ==
  \/ TickStart \/ TickRead \/ Resolve \/ Fetch
  \/ \E d \in Deposits : ScanRecord(d) \/ FinalizeCredit(d)
  \/ ScanCredit \/ ScanDone \/ FinalizeList \/ TickEnd

Faults ==
  \/ TickError \/ TickSkipped \/ StreamFailure
  \/ \E h \in DOMAIN handler : HandlerError(h)
  \/ \E d \in Deposits : StreamEventError(d) \/ Reorg(d)

\* Everything but a restart, which takes the whole process down.
IndexerStep ==
  \/ TickStep
  \/ StreamCursor \/ ClearRealtime
  \/ \E d \in Deposits : StreamEvent(d) \/ Reprocess(d)
  \/ \E h \in DOMAIN handler : HandlerCredit(h)
  \/ SetRealtime \/ NewBlock
  \/ \E u \in Users : SetWallet(u)
  \/ Faults

\* The poll timer keeps firing, the event loop resumes what it started, and
\* blocks keep coming.
Fairness ==
  /\ WF_indexerVars(TickStep)
  /\ WF_indexerVars(NewBlock)
  /\ WF_indexerVars(StreamCursor) /\ WF_indexerVars(ClearRealtime)
  /\ WF_indexerVars(\E d \in Deposits : StreamEvent(d))
  /\ \A h \in {"stream", "manual"} : WF_indexerVars(HandlerCredit(h))

-------------------------------------------------------------------------------
TickPcs == {"idle", "read", "resolve", "scan", "credit", "list", "final"}

\* Every variable of the indexer holds a value of its declared kind.
IndexerTypeOK ==
  /\ head \in Nat /\ gone \subseteq Deposits
  /\ active \subseteq Users /\ cache \subseteq Users
  /\ row \in [Deposits -> Rows] /\ balance \in [Users -> Nat]
  /\ realtime \in BOOLEAN /\ stream \in BOOLEAN
  /\ seeking \in BOOLEAN /\ clearing \in BOOLEAN
  /\ inbox \subseteq Deposits
  /\ cursor \in Nat \cup {Unset}
  /\ handler \in [{"stream", "manual"} -> Deposits \cup {NoDeposit}]
  /\ tick \in [pc : TickPcs, head : Nat, map : SUBSET Users, next : Nat,
               upto : Nat, todo : SUBSET Deposits, cur : Deposits \cup {NoDeposit}]
=============================================================================
