--------------------------------- MODULE Feed ----------------------------------
(***************************************************************************)
(* The edge feed: updates of followed projects, a page at a time, newest   *)
(* first, each page read, analysed by a service that may be down, and kept *)
(* as decisions.  A circuit breaker stops asking a service that failed.    *)
(* The order inside a page is left out.                                    *)
(***************************************************************************)
EXTENDS Integers, Sequences, FiniteSetsExt

CONSTANTS
  Users, NoUser, Callers,
  MaxItems,          \* bound, as in Content
  Limit,             \* updates of a page
  Tolerated, Pause,  \* failures that open the circuit, and for how long
  MaxCalls           \* bound: calls of a scene

VARIABLES
  scene, clock, calls, items, follows,
  feeds,      \* feeds being paged through; seen, must and twice are history
  decisions,  \* EdgeDecision rows: the text scored and the text analysed
  circuit     \* the breaker: failures in a row, and when it closes again

Unscored == [scored |-> -1, ml |-> -1]
NoFeed == [pc |-> "idle", reader |-> NoUser, below |-> 0, page |-> {},
           seen |-> {}, must |-> {}, twice |-> FALSE]

\* Every call of any part counts against the bound.
Begin == calls < MaxCalls[scene] /\ calls' = calls + 1

Visible == {i \in 1..Len(items) : items[i].kind = "update" /\ items[i].status # "hidden"}
Expected(u) == IF follows[u].on THEN Visible ELSE {}

\* getFeed, first page: the follows are read, ...
Open(c, u) ==
  /\ "feed" \in scene /\ Begin /\ feeds[c].pc = "idle" /\ follows[u].on
  /\ "overlap_feeds" \in scene \/ \A o \in Callers : feeds[o].reader # u
  /\ feeds' = [feeds EXCEPT ![c] = [NoFeed EXCEPT !.pc = "find", !.reader = u, !.must = Visible,
                                                  !.below = Len(items) + 1]]
  /\ UNCHANGED <<decisions, circuit>>

\* ... and again with every page.
NextPage(c) ==
  /\ feeds[c].pc = "next"
  /\ feeds' = [feeds EXCEPT ![c].pc = IF follows[feeds[c].reader].on THEN "find" ELSE "end"]
  /\ UNCHANGED <<decisions, circuit>>

\* The updates before the cursor.  The first page has no cursor.
Before_Inclusive(i, f) == f.seen = {} \/ i <= f.below
Before(i, f) == f.seen = {} \/ i < f.below
Newest(S) == {i \in S : Cardinality({j \in S : j > i}) < Limit}

Find(c) ==
  LET f == feeds[c]  found == Newest({i \in Visible : Before(i, f)}) IN
  /\ f.pc = "find"
  /\ feeds' = [feeds EXCEPT ![c] =
       [f EXCEPT !.pc = "analyse", !.twice = @ \/ found \cap f.seen # {},
                 !.page = {[item |-> i, scored |-> items[i].text, ml |-> -1] : i \in found}]]
  /\ UNCHANGED <<decisions, circuit>>

-------------------------------------------------------------------------------
CircuitOpen == clock < circuit.until
Analysed(page) == {[d EXCEPT !.ml = d.scored] : d \in page}
Went(c, page) == feeds' = [feeds EXCEPT ![c].pc = "persist", ![c].page = page]

\* analyzeBatch asks if the circuit is closed; an answer may come after it opened.
Ask(c) ==
  /\ feeds[c].pc = "analyse" /\ feeds[c].page # {} /\ ~CircuitOpen
  /\ feeds' = [feeds EXCEPT ![c].pc = "asked"]
  /\ UNCHANGED <<decisions, circuit>>

Answer(c) ==
  /\ feeds[c].pc = "asked"
  /\ Went(c, Analysed(feeds[c].page))
  /\ circuit' = [failures |-> 0, until |-> 0]
  /\ UNCHANGED decisions

\* Only errors of the network count.
Fail(c, counts) ==
  LET n == circuit.failures + 1 IN
  /\ "ml_down" \in scene /\ feeds[c].pc = "asked"
  /\ Went(c, feeds[c].page)
  /\ circuit' = IF ~counts THEN circuit
                ELSE [failures |-> n,
                      until |-> IF n >= Tolerated THEN clock + Pause ELSE circuit.until]
  /\ UNCHANGED decisions

SkipAnalysis(c) ==
  /\ feeds[c].pc = "analyse" /\ (feeds[c].page = {} \/ CircuitOpen)
  /\ Went(c, feeds[c].page)
  /\ UNCHANGED <<decisions, circuit>>

\* persistDecisions: a field that was not analysed keeps its value.
Kept(u, page) ==
  [decisions EXCEPT ![u] = [i \in DOMAIN @ |->
     IF \E d \in page : d.item = i
     THEN LET d == CHOOSE d \in page : d.item = i
          IN  [scored |-> d.scored, ml |-> IF d.ml = -1 THEN @[i].ml ELSE d.ml]
     ELSE @[i]]]

Persist(c) ==
  LET f == feeds[c]  shown == {d.item : d \in f.page} IN
  /\ f.pc = "persist"
  /\ decisions' = Kept(f.reader, f.page)
  /\ feeds' = [feeds EXCEPT ![c] =
       [f EXCEPT !.pc = IF Cardinality(shown) = Limit THEN "next" ELSE "end",
                 !.below = IF shown = {} THEN @ ELSE Min(shown),
                 !.seen = @ \cup shown, !.page = {}]]
  /\ UNCHANGED circuit

Close(c) ==
  /\ feeds[c].pc \in {"next", "end"}
  /\ feeds' = [feeds EXCEPT ![c] = NoFeed]
  /\ UNCHANGED <<decisions, circuit>>

\* explain and feedback: a decision that was not kept is made, unanalysed.
Explain(c, u, i) ==
  /\ "feed" \in scene /\ Begin /\ feeds[c].pc = "idle" /\ i \in Visible
  /\ "overlap_feeds" \in scene \/ \A o \in Callers : feeds[o].reader # u
  /\ decisions[u][i] = Unscored
  /\ feeds' = [feeds EXCEPT ![c] = [NoFeed EXCEPT !.pc = "explain", !.reader = u,
       !.page = {[item |-> i, scored |-> items[i].text, ml |-> -1]}]]
  /\ UNCHANGED <<decisions, circuit>>

KeepExplained(c) ==
  /\ feeds[c].pc = "explain"
  /\ decisions' = Kept(feeds[c].reader, feeds[c].page)
  /\ feeds' = [feeds EXCEPT ![c] = NoFeed]
  /\ UNCHANGED circuit

-------------------------------------------------------------------------------
\* What a reader must be shown while other calls go on.
FeedsWatch ==
  LET expected == [u \in Users |-> Expected(u)] IN
  /\ feeds' = [c \in Callers |->
       IF feeds[c].pc = "idle" THEN feeds[c]
       ELSE [feeds[c] EXCEPT !.must = @ \cap expected'[feeds[c].reader]]]
  /\ UNCHANGED <<decisions, circuit>>

FeedInit ==
  /\ feeds = [c \in Callers |-> NoFeed] /\ circuit = [failures |-> 0, until |-> 0]
  /\ decisions = [u \in Users |-> [i \in 1..MaxItems |-> Unscored]]

FeedStep ==
  \E c \in Callers :
    \/ /\ \/ NextPage(c) \/ Find(c) \/ Ask(c) \/ Answer(c) \/ SkipAnalysis(c) \/ Persist(c)
          \/ Close(c) \/ KeepExplained(c) \/ \E counts \in BOOLEAN : Fail(c, counts)
       /\ UNCHANGED calls
    \/ \E u \in Users : Open(c, u) \/ \E i \in Visible : Explain(c, u, i)

FeedTypeOK ==
  LET pages == [item : Nat, scored : Nat, ml : Nat \cup {-1}] IN
  /\ \A c \in Callers :
       /\ feeds[c].pc \in {"idle", "find", "analyse", "asked", "persist", "next", "end", "explain"}
       /\ feeds[c].reader \in Users \cup {NoUser} /\ feeds[c].below \in Nat
       /\ \A d \in feeds[c].page : d \in pages
       /\ feeds[c].seen \cup feeds[c].must \subseteq 1..Len(items) /\ feeds[c].twice \in BOOLEAN
  /\ \A u \in Users : decisions[u] \in [1..MaxItems -> [scored : Nat \cup {-1}, ml : Nat \cup {-1}]]
  /\ circuit \in [failures : Nat, until : Nat]
===============================================================================
