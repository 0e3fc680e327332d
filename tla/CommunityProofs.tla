---------------------------- MODULE CommunityProofs ----------------------------
(***************************************************************************)
(* Proofs about Community for every set of users and calls, every scene    *)
(* and every length of a run: what bars a user is under, who writes, what  *)
(* is decided about content, levels, notices and the pages of a feed.      *)
(***************************************************************************)
EXTENDS Community, TotalsProofs, SequenceTheorems

-------------------------------------------------------------------------------
(* What calls in progress hold: the parts of the invariant that make the   *)
(* types inductive.                                                        *)

\* A moderator's call has a target and an order that says something.
OrderOK(o) ==
  /\ o.pc = "idle" => o = L!NoOrder
  /\ o.pc # "idle" => o.to \in Users /\ o.kind # "none"
  /\ o.pc = "impose" /\ o.kind = "restrict" =>
       /\ o.for["posting"] # 0 \/ o.for["commenting"] # 0
       /\ "single_restriction" \in scene \/ (o.for["posting"] # 0 /\ o.for["commenting"] # 0)
  /\ o.pc = "impose" /\ o.kind = "clear" => o.for = L!Nothing
  /\ o.pc = "record" => o.todo # <<>>
OrdersOK == \A c \in Callers : OrderOK(sanctioning[c])

\* A call that writes has an author, and what it writes under or changes exists.
WriteOK(w) ==
  /\ w.pc = "idle" => w = L!NoWrite
  /\ w.pc # "idle" => w.by \in Users
  /\ w.pc \in {"parent", "create"} => w.kind # "none" /\ (w.kind # "post" => w.of \in 1..Len(items))
  /\ w.pc = "parent" => w.kind \in {"reply", "comment"}
  /\ w.pc \in {"edit", "delete"} => w.of \in 1..Len(items)
  /\ w.pc = "delete" => "deletions" \in scene /\ items[w.of].kind = "comment"
  /\ w.pc = "edit" /\ w.next # "none" => "author_status" \in scene /\ items[w.of].kind = "update"
WritesOK == \A c \in Callers : WriteOK(writing[c])

\* A decision in progress is about an item, and audit entries are.
ReviewOK(r) ==
  /\ r.pc = "idle" => r = L!NoReview
  /\ r.pc # "idle" => /\ r.by \in Users /\ r.of \in 1..Len(items) /\ r.was # "none"
                      /\ r.next \in L!Statuses \cup L!Verdicts
ReviewsOK ==
  /\ \A c \in Callers : ReviewOK(reviewing[c])
  /\ \A j \in 1..Len(records) : records[j].of \in 1..Len(items)

MailsOK ==
  \A c \in Callers :
    /\ mailing[c].pc = "idle" => mailing[c] = N!NoMail
    /\ mailing[c].pc # "idle" => mailing[c].update \in N!Published

PageRows == [item : Nat, scored : Nat, ml : Nat \cup {-1}]
Feeds == [pc : {"idle", "find", "analyse", "asked", "persist", "next", "end", "explain"},
          reader : Users \cup {NoUser}, below : Nat, page : SUBSET PageRows,
          seen : SUBSET Nat, must : SUBSET Nat, twice : BOOLEAN]
FeedOK(f) ==
  /\ f.pc = "idle" => f = F!NoFeed
  /\ f.pc # "idle" => f.reader \in Users
  /\ f.seen \cup f.must \subseteq 1..Len(items)
  /\ \A d \in f.page : d.item \in 1..Len(items)
FeedsOK == feeds \in [Callers -> Feeds] /\ \A c \in Callers : FeedOK(feeds[c])
DecisionsOK ==
  decisions \in [Users -> [1..MaxItems -> [scored : Nat \cup {-1}, ml : Nat \cup {-1}]]]

TypeInv ==
  TypeOK /\ OrdersOK /\ WritesOK /\ ReviewsOK /\ MailsOK /\ FeedsOK /\ DecisionsOK

-------------------------------------------------------------------------------
(* Sanctions.                                                              *)

Was(u, kind, n) == IF kind = "clear" THEN SaidFirst(u, n) ELSE Said(u, kind, n)
Warnings(u) == {i \in 1..Len(trail) : trail[i].to = u /\ trail[i].kind = "warned"}
Chained(u) ==
  \A i \in 1..Len(trail) : trail[i].to = u =>
    \A kind \in {trail[i].kind} : trail[i].was = Was(u, kind, i - 1)
Now(u, k) == Said(u, k, Len(trail))
WasNow(u, kind) == Was(u, kind, Len(trail))
Settled(u) ==
  /\ \A k \in L!Columns : until[u][k] = Now(u, k)
  /\ Chained(u)
  /\ warnings[u] = Cardinality(Warnings(u))

Concerns(e, k) == e.kind = k \/ (e.kind = "clear" /\ k # "warned")

\* Between the profile and the trail: what is still to be filed is what the
\* profile says already.
Owed(o) ==
  /\ Chained(o.to)
  /\ \/ Len(o.todo) = 1
     \/ Len(o.todo) = 2 /\ o.todo[1].kind = "posting" /\ o.todo[2].kind = "commenting"
  /\ \A i \in 1..Len(o.todo) : LET e == o.todo[i] IN
       /\ e.to = o.to /\ e.was = WasNow(o.to, e.kind)
       /\ e.kind = "clear" => e.next = 0
       /\ \A k \in L!Columns : Concerns(e, k) => until[o.to][k] = e.next
  /\ \A k \in L!Columns :
       (\A i \in 1..Len(o.todo) : ~Concerns(o.todo[i], k)) => until[o.to][k] = Now(o.to, k)
  /\ warnings[o.to] = Cardinality(Warnings(o.to)) + IF o.todo[1].kind = "warned" THEN 1 ELSE 0

SanctionInv ==
  Without({"overlap_moderators", "record_error", "single_restriction"}) =>
    /\ \A c, d \in Callers :
         sanctioning[c].pc # "idle" /\ sanctioning[c].to = sanctioning[d].to => c = d
    /\ \A u \in Users : (\A c \in Callers : sanctioning[c].to # u) => Settled(u)
    /\ \A c \in Callers : \A o \in {sanctioning[c]} :
         /\ o.pc = "impose" => o.was = until[o.to] /\ Settled(o.to)
         /\ o.pc = "record" => Owed(o)

-------------------------------------------------------------------------------
(* Content.                                                                *)

\* Who was allowed to write still is when he writes, and what was open under
\* him still is.
Sound(w) ==
  /\ w.pc \in {"parent", "create"} /\ w.kind = "post" => L!MayPost(w.by)
  /\ w.pc \in {"parent", "create"} /\ w.kind \in {"reply", "comment"} =>
       L!MayComment(w.by) /\ items[w.of].kind # "comment"
  /\ w.pc = "create" /\ w.kind \in {"reply", "comment"} /\ Without({"author_status"}) =>
       items[w.of].status = "active"
  /\ w.pc \in {"edit", "delete"} /\ items[w.of].kind = "comment" =>
       items[w.of].status \in {"active", "deleted"}
Clean(x) ==
  /\ Without({"author_status"}) => x.fair
  /\ x.kind = "comment" /\ x.status \in {"hidden", "archived"} => x.text = x.kept
WriteInv ==
  Without({"late_moderation"}) =>
    /\ \A c \in Callers : \A w \in {writing[c]} : Sound(w)
    /\ \A i \in 1..Len(items) : Clean(items[i])

\* The audit entries of an item, up to the call that decides about it now.
FiledWell(i) == \A j \in 1..Len(records) : records[j].of = i => records[j].was = Filed(i, j - 1)
RecordInv ==
  Without({"late_moderation", "overlap_moderators", "record_error", "author_status"}) =>
    /\ \A c, d \in Callers : reviewing[c].pc # "idle" /\ reviewing[d].pc # "idle" => c = d
    /\ \A i \in 1..Len(items) : L!Exists(i) =>
         /\ FiledWell(i)
         /\ (\A c \in Callers : reviewing[c].of # i) => items[i].status = Filed(i, Len(records))
    /\ \A c \in Callers : \A r \in {reviewing[c]} :
         r.pc # "idle" /\ L!Exists(r.of) =>
           /\ r.was = Filed(r.of, Len(records))
           /\ items[r.of].status = IF r.pc = "set" THEN r.was ELSE r.next

-------------------------------------------------------------------------------
(* Levels.                                                                 *)

Agreed(u) ==
  /\ progress[u].level = shown[u] /\ shown[u] = told[u]
  /\ progress[u].level # 0 /\ Without({"deletions"}) =>
       progress[u].count = L!Count(u) /\ shown[u] = L!LevelOf(progress[u].count)

\* A call of his that is under way: what it knows already is so.
Climbing(w) ==
  /\ w.pc \in {"parent", "create", "edit", "delete"} => Agreed(w.by)
  /\ w.pc \in {"metrics", "target", "previous", "save"} =>
       progress[w.by].level = shown[w.by] /\ shown[w.by] = told[w.by]
  /\ w.pc \in {"target", "previous", "save", "show", "announce"} /\ Without({"deletions"}) =>
       w.count = L!Count(w.by)
  /\ w.pc \in {"previous", "save", "show", "announce"} /\ Without({"deletions"}) =>
       w.level = L!LevelOf(w.count)
  /\ w.pc = "save" => w.previous = progress[w.by].level
  /\ w.pc \in {"show", "announce"} =>
       progress[w.by].level = w.level /\ progress[w.by].count = w.count
  /\ w.pc = "show" => shown[w.by] = w.previous /\ told[w.by] = w.previous
  /\ w.pc = "announce" => shown[w.by] = w.level

LevelInv ==
  Without({"overlap_writes", "level_error"}) =>
    /\ \A c, d \in Callers : writing[c].pc # "idle" /\ writing[c].by = writing[d].by => c = d
    /\ \A u \in Users : ~Levelling(u) => Agreed(u)
    /\ \A c \in Callers : \A w \in {writing[c]} : Climbing(w)

-------------------------------------------------------------------------------
(* Notices.                                                                *)

\* What a call that publishes knows of a user: each row it has read is one
\* that he had.
Read(m, u) ==
  /\ "settings" \in m.unread \/ \E p \in m.had[u] : m.seen[u].master = p.master
  /\ "overrides" \in m.unread \/ \E p \in m.had[u] : m.seen[u].type = p.type
  /\ "categories" \in m.unread \/ \E p \in m.had[u] : m.seen[u].category = p.category
Always(m) == {u \in m.always : \A p \in N!Mixes(m.had[u]) : N!Wishes(p)}
Ever(m) == {u \in m.eligible : \E p \in N!Mixes(m.had[u]) : N!Wishes(p)}

\* Who is told, now or at the end, is told rightly.
Told(n) == n.must \subseteq n.to /\ n.to \subseteq n.may
Telling(m) ==
  m.pc # "idle" =>
    /\ flagCache \in m.modes /\ \A u \in Users : prefs[u] \in m.had[u]
    /\ m.always \subseteq N!Awaiting[m.urgency][m.modes]
    /\ N!Expecting[m.urgency][m.modes] \subseteq m.eligible
    /\ m.pc = "follows" => m.strict \in m.modes
    /\ m.pc = "filter" =>
         m.always \subseteq m.to /\ m.to \subseteq m.eligible /\ \A u \in Users : Read(m, u)
    /\ m.pc = "insert" => Always(m) \subseteq m.to /\ m.to \subseteq Ever(m)
NoticeInv ==
  /\ \A i \in 1..Len(notices) : Told(notices[i])
  /\ \A c \in Callers : \A m \in {mailing[c]} : Telling(m)

OnceInv ==
  /\ \A j \in 1..Len(notices) : notices[j].update \in N!Published
  /\ \A j, k \in 1..Len(notices) : notices[j].update = notices[k].update => j = k
  /\ \A c, d \in Callers : mailing[c].pc # "idle" /\ mailing[c].update = mailing[d].update => c = d
  /\ \A c \in Callers, j \in 1..Len(notices) : mailing[c].update # notices[j].update
  /\ Without({"mail_error"}) => \A i \in N!Published : i > Len(FirstItems[scene]) =>
       \/ \E c \in Callers : mailing[c].update = i
       \/ \E j \in 1..Len(notices) : notices[j].update = i

\* Calls one at a time: the one under way has the row's value.
FlagInv ==
  Without({"overlap_refresh", "flag_error"}) =>
    /\ \A c, d \in Callers : refreshing[c] # "idle" /\ refreshing[d] # "idle" => c = d
    /\ \A c \in Callers : refreshing[c] # "idle" => refreshing[c] = IF flagRow THEN "on" ELSE "off"
    /\ (\A c \in Callers : refreshing[c] = "idle") => flagCache = flagRow

-------------------------------------------------------------------------------
(* The edge feed.                                                          *)

Shown(f) == {d.item : d \in f.page}

\* A page in hand continues what was seen, without a gap and without a repetition.
Paged(f) ==
  /\ ~f.twice
  /\ f.pc \in {"find", "analyse", "asked", "persist", "next"} => \A s \in f.seen : f.below <= s
  /\ f.pc \in {"find", "next"} => \A i \in f.must \ f.seen : f.seen # {} => i < f.below
  /\ f.pc = "next" => f.seen # {}
  /\ f.pc \in {"analyse", "asked", "persist"} =>
       /\ IsFiniteSet(Shown(f)) /\ Cardinality(Shown(f)) <= Limit
       /\ \A p \in Shown(f) : f.seen # {} => p < f.below
       /\ \A i \in f.must \ (f.seen \cup Shown(f)) :
            Cardinality(Shown(f)) = Limit /\ \A p \in Shown(f) : i < p
  /\ f.pc = "end" => f.must \subseteq f.seen
PageInv ==
  \A c \in Callers : \A f \in {feeds[c]} :
    Paged(f) /\ (f.pc # "idle" => f.must \subseteq F!Expected(f.reader))

\* What is about to be kept was analysed as it was scored, and what is
\* explained was not analysed before.
Fits(f) ==
  /\ f.pc = "persist" /\ Without({"ml_down"}) => \A d \in f.page : d.ml = d.scored
  /\ f.pc = "explain" => \A d \in f.page : d.ml = -1
  /\ f.pc = "explain" /\ Without({"overlap_feeds"}) =>
       \A d \in f.page : d.item \in 1..MaxItems => decisions[f.reader][d.item].ml = -1
AnalysisInv ==
  /\ \A c \in Callers : \A f \in {feeds[c]} : Fits(f)
  /\ Without({"ml_down", "overlap_feeds"}) =>
       \A u \in Users, i \in 1..MaxItems : decisions[u][i].ml \in {-1, decisions[u][i].scored}

ReaderInv ==
  Without({"overlap_feeds"}) => \A c, o \in Callers :
    feeds[c].pc # "idle" /\ feeds[o].reader = feeds[c].reader => o = c
CircuitInv ==
  /\ circuit.until > 0 <=> circuit.failures >= Tolerated
  /\ Without({"ml_down"}) => circuit = [failures |-> 0, until |-> 0]
-------------------------------------------------------------------------------
(* Facts about numbers and sequences.                                      *)

LEMMA MaxIs ==
  ASSUME NEW S, NEW x \in S, S \subseteq Int, \A y \in S : x >= y
  PROVE  Max(S) = x
<1>1. \E z \in S : \A y \in S : z >= y
  OBVIOUS
<1>2. Max(S) \in S /\ \A y \in S : Max(S) >= y
  BY <1>1 DEF Max
<1> PICK m : m = Max(S)
  OBVIOUS
<1>3. m \in Int /\ x \in Int /\ m >= x /\ x >= m
  BY <1>2
<1> QED BY <1>3

LEMMA MinIs ==
  ASSUME NEW S, NEW x \in S, S \subseteq Int, \A y \in S : x <= y
  PROVE  Min(S) = x
<1>1. \E z \in S : \A y \in S : z <= y
  OBVIOUS
<1>2. Min(S) \in S /\ \A y \in S : Min(S) <= y
  BY <1>1 DEF Min
<1> PICK m : m = Min(S)
  OBVIOUS
<1>3. m \in Int /\ x \in Int /\ m <= x /\ x <= m
  BY <1>2
<1> QED BY <1>3

\* The last of some numbers up to a bound.
LEMMA MaxExists ==
  ASSUME NEW n \in Nat, NEW S, S \subseteq 0..n, S # {}
  PROVE  Max(S) \in S /\ \A y \in S : Max(S) >= y
<1> DEFINE T == {n - y : y \in S}
<1>1. T \in SUBSET Nat /\ T # {}
  <2>1. \A y \in S : y \in Nat /\ y <= n
    OBVIOUS
  <2>2. \A y \in S : n - y \in Nat
    BY <2>1
  <2> QED BY <2>2
<1>2. PICK t \in T : \A s \in T : t <= s
  BY <1>1, LeastNumber
<1>3. PICK x \in S : t = n - x
  OBVIOUS
<1>4. \A y \in S : n - y \in T
  OBVIOUS
<1>5. \A y \in S : x >= y
  BY <1>2, <1>3, <1>4
<1>6. S \subseteq Int
  OBVIOUS
<1> QED BY <1>3, <1>5, <1>6, MaxIs

\* What is left of a sequence once its first element is taken.
LEMMA TailIsLeft ==
  ASSUME NEW S, NEW r \in Seq(S), r # <<>>
  PROVE  /\ Head(r) \in S /\ Head(r) = r[1] /\ Len(r) \in Nat \ {0}
         /\ Tail(r) \in Seq(S) /\ Len(Tail(r)) = Len(r) - 1
         /\ \A i \in 1..Len(r) - 1 : Tail(r)[i] = r[i + 1]
         /\ Len(r) # 1 => Tail(r) # <<>>
<1>1. Len(r) \in Nat /\ Len(r) # 0
  BY EmptySeq
<1>2. Tail(r) \in Seq(S) /\ Len(Tail(r)) = Len(r) - 1 /\ Head(r) \in S /\ Head(r) = r[1]
  BY HeadTailProperties
<1>3. \A i \in 1..Len(r) - 1 : Tail(r)[i] = r[i + 1]
  BY <1>1, HeadTailProperties
<1>4. Len(r) # 1 => Tail(r) # <<>>
  <2>1. Tail(r) = <<>> => Len(Tail(r)) = 0
    BY EmptySeq
  <2>2. \A n \in Nat : n - 1 = 0 => n = 1
    OBVIOUS
  <2> QED BY <1>1, <1>2, <2>1, <2>2
<1> QED BY <1>1, <1>2, <1>3, <1>4

\* The parts count and compare like everybody.
LEMMA SameCounts == \A S : L!Cardinality(S) = Cardinality(S) /\ F!Cardinality(S) = Cardinality(S)
<1> TAKE S
<1>1. L!Cardinality(S) = Cardinality(S)
  BY Zenon DEF L!Cardinality, Cardinality
<1>2. F!Cardinality(S) = Cardinality(S)
  BY Zenon DEF F!Cardinality, Cardinality
<1> QED BY <1>1, <1>2

LEMMA SameEnds == \A S : L!Max(S) = Max(S) /\ F!Min(S) = Min(S)
<1> TAKE S
<1>1. L!Max(S) = Max(S)
  BY Zenon DEF L!Max, Max
<1>2. F!Min(S) = Min(S)
  BY Zenon DEF F!Min, Min
<1> QED BY <1>1, <1>2

-------------------------------------------------------------------------------
(* Types.                                                                  *)

\* What is ordered has a kind and an end for every bar.
LEMMA OrdersAreOrders ==
  ASSUME NEW by, NEW o \in L!Orders(by)
  PROVE  /\ o = <<o[1], o[2]>>
         /\ o[1] \in {"warn", "mute", "suspend", "restrict", "clear"}
         /\ o[2] \in [L!Columns -> Nat]
         /\ o[1] = "clear" => o[2] = L!Nothing
<1>1. L!Nothing \in [L!Columns -> Nat]
  BY DEF L!Nothing
<1>2. \A k, h \in Nat : L!Only(k, h) \in [L!Columns -> Nat]
  BY <1>1 DEF L!Only
<1>3. \A k : \A h \in Nat : L!Only(k, h) \in [L!Columns -> Nat]
  BY <1>1 DEF L!Only
<1>4. \A p, q \in Nat : [L!Only("posting", p) EXCEPT !["commenting"] = q] \in [L!Columns -> Nat]
  BY <1>3
<1>5. Hours \subseteq Nat
  BY CommunityAssumption
<1> QED BY <1>1, <1>3, <1>4, <1>5 DEF L!Orders

\* The trail gets rows about the user and with what was and is.
LEMMA EntriesAreRows ==
  ASSUME NEW o, o.to \in Users, o.kind \in {"warn", "mute", "suspend", "restrict", "clear"},
         o.for \in [L!Columns -> Nat], o.was \in [L!Columns -> Nat],
         until \in [Users -> [L!Columns -> Nat]], clock \in Nat,
         o.kind = "restrict" => o.for["posting"] # 0 \/ o.for["commenting"] # 0
  PROVE  /\ L!Entries(o) \in Seq([to : Users, kind : L!Columns \cup {"clear"}, was : Nat, next : Nat])
         /\ L!Entries(o) # <<>>
         /\ \A k \in L!Columns : L!Ends(o, k) \in Nat
<1> DEFINE rows == [to : Users, kind : L!Columns \cup {"clear"}, was : Nat, next : Nat]
<1>1. \A k \in L!Columns : L!Ends(o, k) \in Nat
  BY DEF L!Ends, L!AddHours
<1>2. \A k \in L!Columns : L!Entry(o, k) \in rows
  BY <1>1 DEF L!Entry
<1>3. L!FirstBar(o.was) \in Nat
  BY DEF L!FirstBar, L!Or, L!Columns, L!Bars
<1>4. CASE o.kind = "clear"
  BY <1>1, <1>3, <1>4 DEF L!Entries
<1>5. CASE o.kind = "warn"
  <2>1. L!Entries(o) = <<L!Entry(o, "warned")>>
    BY <1>5 DEF L!Entries
  <2>2. "warned" \in L!Columns
    BY DEF L!Columns
  <2> QED BY <1>1, <1>2, <2>1, <2>2
<1>6. CASE o.kind = "restrict"
  <2> DEFINE filed(k) == IF o.for[k] = 0 THEN <<>> ELSE <<L!Entry(o, k)>>
  <2>1. L!Entries(o) = filed("posting") \o filed("commenting")
    BY <1>6 DEF L!Entries
  <2>2. "posting" \in L!Columns /\ "commenting" \in L!Columns
    BY DEF L!Columns, L!Bars
  <2>3. \A k \in L!Columns : filed(k) = <<>> \/ (filed(k) = <<L!Entry(o, k)>> /\ L!Entry(o, k) \in rows)
    BY <1>2
  <2>4. filed("posting") # <<>> \/ filed("commenting") # <<>>
    BY <1>6
  <2> DEFINE p == filed("posting")
             q == filed("commenting")
  <2>5. p \in Seq(rows) /\ q \in Seq(rows)
    <3>1. <<>> \in Seq(rows) /\ \A e \in rows : <<e>> \in Seq(rows)
      OBVIOUS
    <3> HIDE DEF filed, rows
    <3>2. filed("posting") \in Seq(rows) /\ filed("commenting") \in Seq(rows)
      BY <2>2, <2>3, <3>1
    <3> QED BY <3>2
  <2>6. p # <<>> \/ q # <<>>
    BY <2>4
  <2>7. L!Entries(o) = p \o q
    BY <2>1
  <2> HIDE DEF filed, p, q
  <2>8. p \o q \in Seq(rows)
    BY <2>5
  <2>9. p \o q # <<>>
    BY <2>5, <2>6
  <2> QED BY <1>1, <2>7, <2>8, <2>9
<1>7. CASE o.kind \in {"mute", "suspend"}
  <2>1. L!Entries(o) = <<L!Entry(o, o.kind)>>
    BY <1>7 DEF L!Entries
  <2>2. o.kind \in L!Columns
    BY <1>7 DEF L!Columns, L!Bars
  <2> QED BY <1>1, <1>2, <2>1, <2>2
<1> QED BY <1>4, <1>5, <1>6, <1>7

\* The steps of sanctions keep the types.
LEMMA OrderStepTypes ==
  ASSUME L!SanctionsTypeOK, OrdersOK, clock \in Nat, L!SanctionStep, UNCHANGED scene
  PROVE  (L!SanctionsTypeOK /\ OrdersOK)'
<1> DEFINE values == [L!Columns -> Nat]
           rows == [to : Users, kind : L!Columns \cup {"clear"}, was : Nat, next : Nat]
           states == [pc : {"idle", "impose", "record"}, to : Users \cup {NoUser},
                      kind : {"none", "warn", "mute", "suspend", "restrict", "clear"},
                      for : values, was : values, todo : Seq(rows)]
<1>1. /\ until \in [Users -> values] /\ warnings \in [Users -> Nat] /\ trail \in Seq(rows)
      /\ sanctioning \in [Callers -> states] /\ \A c \in Callers : OrderOK(sanctioning[c])
  BY DEF L!SanctionsTypeOK, OrdersOK
<1> DEFINE Kept == /\ until' \in [Users -> values] /\ warnings' \in [Users -> Nat]
                   /\ trail' \in Seq(rows)
                   /\ sanctioning' \in [Callers -> states]
                   /\ \A c \in Callers : OrderOK(sanctioning'[c])
<1>2. SUFFICES Kept
  BY DEF L!SanctionsTypeOK, OrdersOK, OrderOK
<1>3. L!NoOrder \in states /\ OrderOK(L!NoOrder)
  <2>1. L!Nothing \in values
    BY DEF L!Nothing
  <2> QED BY <2>1 DEF L!NoOrder, OrderOK
<1>4. ASSUME NEW c \in Callers, NEW s \in states, OrderOK(s), sanctioning' = [sanctioning EXCEPT ![c] = s]
      PROVE  sanctioning' \in [Callers -> states] /\ \A d \in Callers : OrderOK(sanctioning'[d])
  <2> HIDE DEF states
  <2> QED BY <1>1, <1>4
<1>5. ASSUME NEW c \in Callers, L!Impose(c) PROVE Kept
  <2> DEFINE o == sanctioning[c]
             s == [o EXCEPT !.pc = "record", !.todo = L!Entries(o)]
  <2>1. o \in states /\ OrderOK(o) /\ o.pc = "impose"
    BY <1>1, <1>5 DEF L!Impose
  <2>2. /\ L!Entries(o) \in Seq(rows) /\ L!Entries(o) # <<>>
        /\ \A k \in L!Columns : L!Ends(o, k) \in Nat
    BY <1>1, <2>1, EntriesAreRows DEF OrderOK
  <2>3. sanctioning' = [sanctioning EXCEPT ![c] = s]
    BY <1>5 DEF L!Impose
  <2>4. until' \in [Users -> values]
    <3> DEFINE x == [k \in L!Columns |-> L!Ends(o, k)]
    <3>1. x \in values
      BY <2>2
    <3>2. until' = [until EXCEPT ![o.to] = x]
      BY <1>5 DEF L!Impose
    <3> HIDE DEF x
    <3> QED BY <1>1, <3>1, <3>2
  <2>5. warnings' \in [Users -> Nat] /\ trail' \in Seq(rows)
    BY <1>1, <1>5, <2>1 DEF L!Impose, OrderOK
  <2>6. s \in states /\ OrderOK(s)
    <3> DEFINE t == L!Entries(o)
    <3>1. t \in Seq(rows) /\ t # <<>> /\ s = [o EXCEPT !.pc = "record", !.todo = t]
      BY <2>2
    <3> HIDE DEF t, s, rows
    <3> QED BY <2>1, <3>1 DEF OrderOK
  <2> QED
    <3> HIDE DEF s, o, states
    <3> QED BY <1>4, <2>3, <2>4, <2>5, <2>6
<1>6. ASSUME NEW c \in Callers, L!Record(c) PROVE Kept
  <2> DEFINE o == sanctioning[c]
             s == IF Len(o.todo) = 1 THEN L!NoOrder ELSE [o EXCEPT !.todo = Tail(o.todo)]
  <2>1. o \in states /\ OrderOK(o) /\ o.pc = "record"
    BY <1>1, <1>6 DEF L!Record
  <2>2. sanctioning' = [sanctioning EXCEPT ![c] = s]
    BY <1>6 DEF L!Record
  <2>3. o.todo \in Seq(rows) /\ o.todo # <<>>
    BY <2>1 DEF OrderOK
  <2>4. trail' \in Seq(rows)
    <3> DEFINE e == Head(o.todo)
    <3>1. e \in rows
      <4> HIDE DEF rows
      <4> QED BY <2>3
    <3>2. trail' = Append(trail, e)
      BY <1>6 DEF L!Record
    <3> HIDE DEF e, rows
    <3> QED BY <1>1, <3>1, <3>2
  <2>5. s \in states /\ OrderOK(s)
    <3>1. CASE Len(o.todo) = 1
      <4>1. s = L!NoOrder
        BY <3>1
      <4> HIDE DEF s, o, states
      <4> QED BY <1>3, <4>1
    <3>2. CASE Len(o.todo) # 1
      <4> DEFINE t == Tail(o.todo)
      <4>1. t \in Seq(rows) /\ t # <<>> /\ s = [o EXCEPT !.todo = t]
        <5> HIDE DEF rows
        <5>2. t \in Seq(rows) /\ t # <<>>
          BY <2>3, <3>2, TailIsLeft
        <5> QED BY <3>2, <5>2
      <4> HIDE DEF t, s, rows
      <4> QED BY <2>1, <4>1 DEF OrderOK
    <3> QED BY <3>1, <3>2
  <2>6. until' = until /\ warnings' = warnings
    BY <1>6 DEF L!Record
  <2> QED
    <3> HIDE DEF s, o, states
    <3> QED BY <1>1, <1>4, <2>2, <2>4, <2>5, <2>6
<1>7. ASSUME NEW c \in Callers, L!OrderError(c) PROVE Kept
  <2> HIDE DEF states
  <2> QED BY <1>1, <1>3, <1>4, <1>7 DEF L!OrderError
<1>8. ASSUME NEW c \in Callers, NEW by \in Users, NEW u \in Users, NEW o \in L!Orders(by),
             L!Order(c, by, u, o[1], o[2])
      PROVE  Kept
  <2> DEFINE s == [pc |-> "impose", to |-> u, kind |-> o[1], for |-> o[2], was |-> until[u], todo |-> <<>>]
  <2>1. /\ o[1] \in {"warn", "mute", "suspend", "restrict", "clear"}
        /\ o[2] \in values /\ (o[1] = "clear" => o[2] = L!Nothing)
    BY OrdersAreOrders
  <2>2. s \in states
    <3>1. until[u] \in values
      BY <1>1
    <3> HIDE DEF values
    <3> QED BY <2>1, <3>1
  <2>3. OrderOK(s)
    BY <1>8, <2>1 DEF L!Order, L!Whole, OrderOK
  <2>4. sanctioning' = [sanctioning EXCEPT ![c] = s]
    BY <1>8 DEF L!Order
  <2>5. until' = until /\ warnings' = warnings /\ trail' = trail
    BY <1>8 DEF L!Order
  <2> HIDE DEF s, states
  <2> QED BY <1>1, <1>4, <2>2, <2>3, <2>4, <2>5
<1> QED
  <2> HIDE DEF states, rows, values
  <2> QED BY <1>5, <1>6, <1>7, <1>8 DEF L!SanctionStep

\* Items, and the calls about them.
States == L!Statuses \cup L!Verdicts \cup {"open", "deleted"}
ItemRows == [kind : {"post", "reply", "update", "comment", "report"}, by : Users, of : Nat,
             text : Nat, kept : Nat, status : States, fair : BOOLEAN]
Writes == [pc : {"idle", "parent", "create", "edit", "delete",
                 "metrics", "target", "previous", "save", "show", "announce"},
           by : Users \cup {NoUser}, kind : {"none", "post", "reply", "comment", "report"},
           of : Nat, next : L!Statuses \cup {"none"}, count : Nat, level : Nat, previous : Nat]
Reviews == [pc : {"idle", "set", "file"}, by : Users \cup {NoUser}, of : Nat,
            was : States \cup {"none"}, next : States \cup {"none"}]
ItemTypes ==
  /\ items \in Seq(ItemRows)
  /\ records \in Seq([by : Users, of : Nat, was : States, next : States])
  /\ writing \in [Callers -> Writes] /\ reviewing \in [Callers -> Reviews]

LEMMA ItemTypesAre == L!ContentTypeOK <=> ItemTypes
BY DEF L!ContentTypeOK, ItemTypes, States, ItemRows, Writes, Reviews

\* What may happen to the items in a step: one more, or another text or status.
Added(x) ==
  /\ x \in ItemRows /\ x.status = IF x.kind = "report" THEN "open" ELSE "active"
  /\ items' = Append(items, x)
Changed(i, y) ==
  /\ i \in 1..Len(items) /\ y \in ItemRows
  /\ y.kind = items[i].kind /\ y.by = items[i].by /\ y.of = items[i].of /\ y.fair = items[i].fair
  /\ items' = [items EXCEPT ![i] = y]

\* Who adds and who changes: a writer or a publication, an author or a moderator.
Fresh(x) ==
  \/ x.kind = "update" /\ x.fair /\ N!MailStep
  \/ \E c \in Callers : /\ L!Create(c) /\ x.kind = writing[c].kind /\ x.by = writing[c].by
                         /\ x.fair = L!Fair(writing[c])
Edited(i, y) ==
  \E c \in Callers : /\ L!Edit(c) /\ writing[c].of = i /\ items[i].status # "deleted"
                     /\ y.status = IF writing[c].next = "none" THEN items[i].status ELSE writing[c].next
Deleted(i, y) == \E c \in Callers : L!Delete(c) /\ writing[c].of = i /\ y.status = "deleted"
Moderated(i, y) ==
  \E c \in Callers : /\ L!SetStatus(c) /\ reviewing[c].of = i /\ items[i].status # "deleted"
                     /\ y.status = reviewing[c].next /\ y.text = items[i].text /\ y.kept = y.text
ItemsMove ==
  \/ UNCHANGED items
  \/ \E x : Added(x) /\ Fresh(x)
  \/ \E i, y : Changed(i, y) /\ (Edited(i, y) \/ Deleted(i, y) \/ Moderated(i, y))

Grown ==
  /\ items' \in Seq(ItemRows) /\ Len(items') >= Len(items)
  /\ \A i \in 1..Len(items) : /\ i \in 1..Len(items') /\ items'[i].kind = items[i].kind
                              /\ items'[i].by = items[i].by /\ items'[i].fair = items[i].fair

LEMMA AddedIs ==
  ASSUME items \in Seq(ItemRows), NEW x, Added(x)
  PROVE  /\ items' \in Seq(ItemRows) /\ Len(items') = Len(items) + 1 /\ items'[Len(items) + 1] = x
         /\ \A i \in 1..Len(items) : items'[i] = items[i]
         /\ Len(items) \in Nat
<1>1. x \in ItemRows /\ items' = Append(items, x)
  BY DEF Added
<1> HIDE DEF ItemRows
<1> QED BY <1>1

LEMMA ChangedIs ==
  ASSUME items \in Seq(ItemRows), NEW i, NEW y, Changed(i, y)
  PROVE  /\ items' \in Seq(ItemRows) /\ Len(items') = Len(items) /\ items'[i] = y
         /\ \A j \in 1..Len(items) : j # i => items'[j] = items[j]
         /\ Len(items) \in Nat
<1>1. i \in 1..Len(items) /\ y \in ItemRows /\ items' = [items EXCEPT ![i] = y]
  BY DEF Changed
<1> HIDE DEF ItemRows
<1> QED BY <1>1, ExceptSeq

LEMMA ItemsGrow ==
  ASSUME items \in Seq(ItemRows), ItemsMove
  PROVE  Grown
<1>1. CASE UNCHANGED items
  BY <1>1 DEF Grown
<1>2. ASSUME NEW x, Added(x) PROVE Grown
  <2>1. /\ items' \in Seq(ItemRows) /\ Len(items') = Len(items) + 1 /\ Len(items) \in Nat
        /\ \A i \in 1..Len(items) : items'[i] = items[i]
    BY <1>2, AddedIs
  <2> QED BY <2>1 DEF Grown
<1>3. ASSUME NEW i, NEW y, Changed(i, y) PROVE Grown
  <2>1. /\ items' \in Seq(ItemRows) /\ Len(items') = Len(items) /\ Len(items) \in Nat
        /\ items'[i] = y /\ \A j \in 1..Len(items) : j # i => items'[j] = items[j]
    BY <1>3, ChangedIs
  <2>2. y.kind = items[i].kind /\ y.by = items[i].by /\ y.fair = items[i].fair
    BY <1>3 DEF Changed
  <2> QED BY <2>1, <2>2 DEF Grown
<1> QED BY <1>1, <1>2, <1>3 DEF ItemsMove

\* What the calls hold stays true of more items.
LEMMA CallsGrow ==
  ASSUME Grown, UNCHANGED scene, items \in Seq(ItemRows)
  PROVE  /\ \A w \in Writes : WriteOK(w) => WriteOK(w)'
         /\ \A r \in Reviews : ReviewOK(r) => ReviewOK(r)'
         /\ UNCHANGED writing /\ writing \in [Callers -> Writes] /\ WritesOK => WritesOK'
         /\ UNCHANGED <<reviewing, records>> /\ reviewing \in [Callers -> Reviews] /\ ReviewsOK
              => ReviewsOK'
<1>1. \A i : i \in 1..Len(items) => i \in 1..Len(items') /\ items'[i].kind = items[i].kind
  BY DEF Grown
<1>2. ASSUME NEW w \in Writes, WriteOK(w) PROVE WriteOK(w)'
  BY <1>1, <1>2 DEF WriteOK
<1>3. ASSUME NEW r \in Reviews, ReviewOK(r) PROVE ReviewOK(r)'
  BY <1>1, <1>3 DEF ReviewOK
<1>4. ASSUME UNCHANGED writing, writing \in [Callers -> Writes], WritesOK PROVE WritesOK'
  BY <1>2, <1>4 DEF WritesOK
<1>5. ASSUME UNCHANGED <<reviewing, records>>, reviewing \in [Callers -> Reviews], ReviewsOK
      PROVE  ReviewsOK'
  BY <1>1, <1>3, <1>5 DEF ReviewsOK
<1> QED BY <1>2, <1>3, <1>4, <1>5

\* One call of a writer goes on: to a state of its own, and to no other.
LEMMA WriterMoves ==
  ASSUME Grown, UNCHANGED scene, items \in Seq(ItemRows), writing \in [Callers -> Writes], WritesOK,
         NEW c \in Callers, NEW w \in Writes, WriteOK(w), writing' = [writing EXCEPT ![c] = w]
  PROVE  writing' \in [Callers -> Writes] /\ WritesOK'
<1>1. \A v \in Writes : WriteOK(v) => WriteOK(v)'
  BY CallsGrow
<1>2. writing' \in [Callers -> Writes]
  OBVIOUS
<1>3. \A d \in Callers : writing'[d] \in Writes /\ WriteOK(writing'[d])
  BY DEF WritesOK
<1> QED BY <1>1, <1>2, <1>3 DEF WritesOK

LEMMA NoWriteIs == L!NoWrite \in Writes /\ WriteOK(L!NoWrite)
BY DEF L!NoWrite, Writes, WriteOK

\* The steps of writers keep the types, and do to the items what they may.
LEMMA WriteStepTypes ==
  ASSUME ItemTypes, WritesOK, L!WriteStep, UNCHANGED scene
  PROVE  ItemsMove /\ writing' \in [Callers -> Writes] /\ WritesOK'
<1>1. /\ items \in Seq(ItemRows) /\ writing \in [Callers -> Writes]
      /\ \A c \in Callers : writing[c] \in Writes /\ WriteOK(writing[c])
  BY DEF ItemTypes, WritesOK
<1>2. NoUser \notin Users /\ Speakers \subseteq Users /\ Managers \subseteq Users /\ Texts \in Nat \ {0}
  BY CommunityAssumption
<1> DEFINE Goal == ItemsMove /\ writing' \in [Callers -> Writes] /\ WritesOK'
<1> SUFFICES Goal
  OBVIOUS
<1>3. ASSUME NEW c \in Callers, NEW w \in Writes, WriteOK(w), writing' = [writing EXCEPT ![c] = w],
             ItemsMove
      PROVE  Goal
  <2>1. Grown
    BY <1>1, <1>3, ItemsGrow
  <2> QED BY <1>1, <1>3, <2>1, WriterMoves
<1>4. ASSUME NEW c \in Callers, L!Leave(c), ItemsMove PROVE Goal
  BY <1>3, <1>4, NoWriteIs DEF L!Leave
<1>5. ASSUME NEW c \in Callers, L!CheckParent(c) PROVE Goal
  <2> PICK v \in Writes : v = writing[c] /\ WriteOK(v)
    BY <1>1
  <2>1. v.pc = "parent" /\ ItemsMove
    BY <1>5 DEF L!CheckParent, ItemsMove
  <2>2. CASE L!Set(c, "create")
    <3> DEFINE w == [v EXCEPT !.pc = "create"]
    <3>1. writing' = [writing EXCEPT ![c] = w]
      BY <2>2 DEF L!Set
    <3>2. w \in Writes
      BY DEF Writes
    <3>3. WriteOK(w)
      BY <2>1 DEF WriteOK, Writes
    <3> HIDE DEF w
    <3> QED BY <1>3, <2>1, <3>1, <3>2, <3>3
  <2> QED BY <1>4, <1>5, <2>1, <2>2 DEF L!CheckParent
<1>6. ASSUME NEW c \in Callers, L!Create(c) PROVE Goal
  <2> PICK v \in Writes : v = writing[c] /\ WriteOK(v)
    BY <1>1
  <2> DEFINE x == [kind |-> v.kind, by |-> v.by, of |-> v.of, text |-> 0, kept |-> 0,
                   status |-> IF v.kind = "report" THEN "open" ELSE "active", fair |-> L!Fair(v)]
  <2>1. v.pc = "create" /\ v.kind # "none" /\ v.by \in Users /\ items' = Append(items, x)
    BY <1>6 DEF L!Create, WriteOK
  <2>2. Added(x)
    <3>1. L!Fair(v) \in BOOLEAN
      BY DEF L!Fair
    <3>2. x \in ItemRows
      BY <2>1, <3>1 DEF ItemRows, Writes, States, L!Statuses
    <3>3. x.status = IF x.kind = "report" THEN "open" ELSE "active"
      OBVIOUS
    <3> HIDE DEF x
    <3> QED BY <2>1, <3>2, <3>3 DEF Added
  <2>3. ItemsMove
    <3>1. Fresh(x)
      BY <1>6 DEF Fresh
    <3> HIDE DEF x
    <3> QED BY <2>2, <3>1 DEF ItemsMove
  <2>4. CASE L!Set(c, "metrics")
    <3> DEFINE w == [v EXCEPT !.pc = "metrics"]
    <3>1. writing' = [writing EXCEPT ![c] = w]
      BY <2>4 DEF L!Set
    <3>2. w \in Writes
      BY DEF Writes
    <3>3. WriteOK(w)
      BY <2>1 DEF WriteOK, Writes
    <3> HIDE DEF w
    <3> QED BY <1>3, <2>3, <3>1, <3>2, <3>3
  <2> QED BY <1>4, <1>6, <2>3, <2>4 DEF L!Create
<1>7. ASSUME NEW c \in Callers, L!Edit(c) PROVE Goal
  <2> PICK v \in Writes : v = writing[c] /\ WriteOK(v)
    BY <1>1
  <2>1. v.pc = "edit" /\ v.of \in 1..Len(items) /\ L!Leave(c)
    BY <1>7 DEF L!Edit, WriteOK
  <2>2. CASE ~L!Exists(v.of)
    <3>1. ItemsMove
      BY <1>7, <2>2 DEF L!Edit, ItemsMove
    <3> QED BY <1>4, <2>1, <3>1
  <2>3. CASE L!Exists(v.of)
    <3> PICK i \in 1..Len(items) : i = v.of
      BY <2>1
    <3> PICK z \in ItemRows : z = items[i]
      <4> HIDE DEF ItemRows
      <4> QED BY <1>1
    <3> DEFINE t == (z.text + 1) % Texts
               s == IF v.next = "none" THEN z.status ELSE v.next
               y == [z EXCEPT !.text = t, !.status = s]
    <3>1. t \in Nat /\ s \in States
      <4>1. z.text \in Nat /\ z.status \in States
        BY DEF ItemRows
      <4>2. v.next = "none" \/ v.next \in States
        BY DEF Writes, States
      <4> QED BY <1>2, <4>1, <4>2
    <3>2. items' = [items EXCEPT ![i] = y]
      <4>1. items' = [items EXCEPT ![i].text = t, ![i].status = s]
        BY <1>1, <1>7, <2>3 DEF L!Edit
      <4> HIDE DEF t, s
      <4>2. items' = [items EXCEPT ![i] = [items[i] EXCEPT !.text = t, !.status = s]]
        BY <1>1, <4>1, Zenon
      <4>3. y = [items[i] EXCEPT !.text = t, !.status = s]
        OBVIOUS
      <4> HIDE DEF y
      <4> QED BY <4>2, <4>3, Zenon
    <3> HIDE DEF t, s
    <3>3. /\ y \in ItemRows /\ y.status = s
          /\ y.kind = z.kind /\ y.by = z.by /\ y.of = z.of /\ y.fair = z.fair
      <4>1. z = [kind |-> z.kind, by |-> z.by, of |-> z.of, text |-> z.text, kept |-> z.kept,
                 status |-> z.status, fair |-> z.fair]
        BY DEF ItemRows
      <4>2. y = [z EXCEPT !.text = t, !.status = s]
        OBVIOUS
      <4> HIDE DEF y
      <4>3. y = [kind |-> z.kind, by |-> z.by, of |-> z.of, text |-> t, kept |-> z.kept,
                 status |-> s, fair |-> z.fair]
        BY <4>1, <4>2
      <4>4. /\ z.kind \in {"post", "reply", "update", "comment", "report"} /\ z.by \in Users
            /\ z.of \in Nat /\ z.kept \in Nat /\ z.fair \in BOOLEAN
        BY DEF ItemRows
      <4> QED BY <3>1, <4>3, <4>4 DEF ItemRows
    <3> HIDE DEF y
    <3>4. Changed(i, y)
      BY <3>2, <3>3 DEF Changed
    <3>5. Edited(i, y)
      BY <1>7, <2>3, <3>3 DEF Edited, L!Exists, s
    <3> QED BY <1>4, <2>1, <3>4, <3>5 DEF ItemsMove
  <2> QED BY <2>2, <2>3
<1>8. ASSUME NEW c \in Callers, L!Delete(c) PROVE Goal
  <2> PICK v \in Writes : v = writing[c] /\ WriteOK(v)
    BY <1>1
  <2>1. v.pc = "delete" /\ v.of \in 1..Len(items) /\ L!Leave(c)
    BY <1>8 DEF L!Delete, WriteOK
  <2> PICK i \in 1..Len(items) : i = v.of
    BY <2>1
  <2> PICK z \in ItemRows : z = items[i]
    <3> HIDE DEF ItemRows
    <3> QED BY <1>1
  <2> DEFINE y == [z EXCEPT !.status = "deleted"]
  <2>2. items' = [items EXCEPT ![i] = y]
    BY <1>8 DEF L!Delete
  <2>3. y \in ItemRows /\ y.kind = z.kind /\ y.by = z.by /\ y.of = z.of /\ y.fair = z.fair
    BY DEF ItemRows, States
  <2>4. Changed(i, y)
    <3> HIDE DEF y
    <3> QED BY <2>2, <2>3 DEF Changed
  <2>5. Deleted(i, y)
    <3>1. y.status = "deleted"
      BY DEF ItemRows
    <3> HIDE DEF y
    <3> QED BY <1>8, <3>1 DEF Deleted
  <2> HIDE DEF y
  <2> QED BY <1>4, <2>1, <2>4, <2>5 DEF ItemsMove
<1>9. ASSUME NEW c \in Callers, NEW u \in Speakers, NEW i \in 0..Len(items),
             NEW kind \in {"post", "reply", "comment", "report"}, L!Check(c, u, kind, i)
      PROVE  Goal
  <2> DEFINE w == [L!NoWrite EXCEPT !.pc = IF kind \in {"reply", "comment"} THEN "parent" ELSE "create",
                                    !.by = u, !.kind = kind, !.of = i]
  <2>1. writing' = [writing EXCEPT ![c] = w] /\ ItemsMove
    BY <1>9 DEF L!Check, ItemsMove
  <2>2. u \in Users /\ i \in Nat /\ Len(items) \in Nat
    BY <1>1, <1>2
  <2>3. kind # "post" => i \in 1..Len(items)
    BY <1>9, <2>2 DEF L!Check
  <2>4. w \in Writes
    BY <2>2 DEF Writes, L!NoWrite
  <2>5. WriteOK(w)
    BY <2>2, <2>3 DEF WriteOK, L!NoWrite
  <2> HIDE DEF w
  <2> QED BY <1>3, <2>1, <2>4, <2>5
<1>10. ASSUME NEW c \in Callers, NEW u \in Speakers \cup Managers, NEW i \in 1..Len(items),
              NEW what \in {"edit", "delete"}, NEW next \in L!Statuses \cup {"none"},
              L!Change(c, u, i, what, next)
       PROVE  Goal
  <2> DEFINE w == [L!NoWrite EXCEPT !.pc = what, !.by = u, !.of = i, !.next = next]
  <2>1. writing' = [writing EXCEPT ![c] = w] /\ ItemsMove
    BY <1>10 DEF L!Change, ItemsMove
  <2>2. u \in Users /\ i \in Nat
    BY <1>1, <1>2
  <2>3. /\ what = "delete" => items[i].kind = "comment" /\ "deletions" \in scene
        /\ next # "none" => items[i].kind = "update" /\ what = "edit" /\ "author_status" \in scene
    BY <1>10 DEF L!Change
  <2>4. w \in Writes
    BY <2>2 DEF Writes, L!NoWrite
  <2>5. WriteOK(w)
    BY <2>2, <2>3 DEF WriteOK, L!NoWrite
  <2> HIDE DEF w
  <2> QED BY <1>3, <2>1, <2>4, <2>5
<1> QED
  <2> HIDE DEF Goal
  <2> QED BY <1>5, <1>6, <1>7, <1>8, <1>9, <1>10 DEF L!WriteStep

LEMMA NoReviewIs == L!NoReview \in Reviews /\ ReviewOK(L!NoReview)
BY DEF L!NoReview, Reviews, ReviewOK

\* The steps of moderators.
LEMMA ModerationStepTypes ==
  ASSUME ItemTypes, ReviewsOK, L!ModerationStep, UNCHANGED scene
  PROVE  ItemsMove /\ reviewing' \in [Callers -> Reviews] /\ ReviewsOK'
         /\ records' \in Seq([by : Users, of : Nat, was : States, next : States])
<1> DEFINE rows == [by : Users, of : Nat, was : States, next : States]
           Goal == ItemsMove /\ reviewing' \in [Callers -> Reviews] /\ ReviewsOK' /\ records' \in Seq(rows)
<1> SUFFICES Goal
  OBVIOUS
<1>1. /\ items \in Seq(ItemRows) /\ reviewing \in [Callers -> Reviews] /\ records \in Seq(rows)
      /\ \A c \in Callers : reviewing[c] \in Reviews /\ ReviewOK(reviewing[c])
      /\ \A j \in 1..Len(records) : records[j].of \in 1..Len(items)
  BY DEF ItemTypes, ReviewsOK
<1>2. Len(items) \in Nat /\ Len(records) \in Nat
  <2> HIDE DEF rows
  <2> QED BY <1>1
<1>3. ASSUME NEW c \in Callers, NEW r \in Reviews, ReviewOK(r), reviewing' = [reviewing EXCEPT ![c] = r],
             ItemsMove, records' \in Seq(rows), \A j \in 1..Len(records') : records'[j].of \in 1..Len(items)
      PROVE  Goal
  <2>1. Grown
    BY <1>1, <1>3, ItemsGrow
  <2>2. \A i : i \in 1..Len(items) => i \in 1..Len(items')
    BY <2>1 DEF Grown
  <2>3. \A s \in Reviews : ReviewOK(s) => ReviewOK(s)'
    BY <1>1, <2>1, CallsGrow
  <2>4. \A d \in Callers : reviewing'[d] \in Reviews /\ ReviewOK(reviewing'[d])
    BY <1>1, <1>3
  <2>5. ReviewsOK'
    BY <1>3, <2>2, <2>3, <2>4 DEF ReviewsOK
  <2>6. reviewing' \in [Callers -> Reviews]
    BY <1>1, <1>3
  <2> QED BY <1>3, <2>5, <2>6
<1>4. ASSUME NEW c \in Callers, L!SetStatus(c) PROVE Goal
  <2> PICK r \in Reviews : r = reviewing[c] /\ ReviewOK(r)
    BY <1>1
  <2>1. r.pc = "set" /\ records' = records /\ r.of \in 1..Len(items) /\ r.next \in States
    BY <1>4 DEF L!SetStatus, ReviewOK, States
  <2>2. CASE ~L!Exists(r.of)
    BY <1>1, <1>3, <1>4, <2>1, <2>2, NoReviewIs DEF L!SetStatus, ItemsMove
  <2>3. CASE L!Exists(r.of)
    <3> PICK i \in 1..Len(items) : i = r.of
      BY <2>1
    <3> PICK z \in ItemRows : z = items[i]
      <4> HIDE DEF ItemRows
      <4> QED BY <1>1
    <3> DEFINE y == [z EXCEPT !.status = r.next, !.kept = z.text]
               s == [r EXCEPT !.pc = "file"]
    <3>1. items' = [items EXCEPT ![i] = y]
      <4>1. items' = [items EXCEPT ![i].status = r.next, ![i].kept = z.text]
        BY <1>4, <2>3 DEF L!SetStatus
      <4> QED BY <1>1, <4>1
    <3>2. y \in ItemRows /\ y.kind = z.kind /\ y.by = z.by /\ y.of = z.of /\ y.fair = z.fair
      BY <2>1 DEF ItemRows
    <3>3. Changed(i, y)
      <4> HIDE DEF y
      <4> QED BY <3>1, <3>2 DEF Changed
    <3>4. reviewing' = [reviewing EXCEPT ![c] = s]
      BY <1>4, <2>3 DEF L!SetStatus
    <3>5. s \in Reviews
      BY DEF Reviews
    <3>6. ReviewOK(s)
      BY <2>1 DEF ReviewOK, Reviews
    <3>7. ItemsMove
      <4>1. y.status = r.next /\ y.text = z.text /\ y.kept = z.text
        BY DEF ItemRows
      <4>2. Moderated(i, y)
        <5> HIDE DEF y
        <5> QED BY <1>4, <2>3, <4>1 DEF Moderated, L!Exists
      <4> HIDE DEF y
      <4> QED BY <3>3, <4>2 DEF ItemsMove
    <3> HIDE DEF s, rows
    <3> QED BY <1>1, <1>3, <2>1, <3>4, <3>5, <3>6, <3>7
  <2> QED BY <2>2, <2>3
<1>5. ASSUME NEW c \in Callers, L!File(c) PROVE Goal
  <2> PICK r \in Reviews : r = reviewing[c] /\ ReviewOK(r)
    BY <1>1
  <2>1. r.pc = "file" /\ r.of \in 1..Len(items) /\ r.by \in Users /\ r.was \in States /\ r.next \in States
    BY <1>5 DEF L!File, ReviewOK, States, Reviews
  <2> DEFINE x == [by |-> r.by, of |-> r.of, was |-> r.was, next |-> r.next]
  <2>2. /\ records' = Append(records, x) /\ reviewing' = [reviewing EXCEPT ![c] = L!NoReview]
        /\ ItemsMove
    BY <1>5 DEF L!File, ItemsMove
  <2>3. x \in rows /\ x.of = r.of
    BY <2>1 DEF Reviews
  <2>4. /\ records' \in Seq(rows) /\ Len(records') = Len(records) + 1
        /\ \A j \in 1..Len(records) + 1 : records'[j] = IF j = Len(records) + 1 THEN x ELSE records[j]
    <3> HIDE DEF x, rows
    <3> QED BY <1>1, <2>2, <2>3
  <2>5. \A j \in 1..Len(records') : records'[j].of \in 1..Len(items)
    <3> HIDE DEF x, rows
    <3> TAKE j \in 1..Len(records')
    <3>1. CASE j = Len(records) + 1
      BY <2>1, <2>3, <2>4, <3>1
    <3>2. CASE j # Len(records) + 1
      <4>1. j \in 1..Len(records) /\ j \in 1..Len(records) + 1
        BY <1>2, <2>4, <3>2
      <4> QED BY <1>1, <2>4, <3>2, <4>1
    <3> QED BY <3>1, <3>2
  <2> HIDE DEF x, rows
  <2> QED BY <1>3, <2>2, <2>4, <2>5, NoReviewIs
<1>6. ASSUME NEW c \in Callers, L!ReviewError(c) PROVE Goal
  BY <1>1, <1>3, <1>6, NoReviewIs DEF L!ReviewError, ItemsMove
<1>7. ASSUME NEW c \in Callers, NEW by \in Users, NEW i \in 1..Len(items),
             NEW next \in L!Statuses \cup L!Verdicts, L!Look(c, by, i, next)
      PROVE  Goal
  <2> PICK z \in ItemRows : z = items[i]
    <3> HIDE DEF ItemRows
    <3> QED BY <1>1
  <2> DEFINE s == [pc |-> "set", by |-> by, of |-> i, was |-> z.status, next |-> next]
  <2>1. reviewing' = [reviewing EXCEPT ![c] = s] /\ ItemsMove /\ records' = records
    BY <1>7 DEF L!Look, ItemsMove
  <2>2. z.status \in States /\ z.status # "none" /\ i \in Nat
    BY DEF ItemRows, States, L!Statuses, L!Verdicts
  <2>3. s \in Reviews
    BY <2>2 DEF Reviews, States
  <2>4. ReviewOK(s)
    BY <2>2 DEF ReviewOK
  <2> HIDE DEF s, rows
  <2> QED BY <1>1, <1>3, <2>1, <2>3, <2>4
<1> QED
  <2> HIDE DEF Goal
  <2> QED BY <1>4, <1>5, <1>6, <1>7 DEF L!ModerationStep

\* The steps of levels.
LEMMA CountIsNat ==
  ASSUME items \in Seq(ItemRows), NEW u
  PROVE  L!Count(u) \in Nat /\ L!LevelOf(L!Count(u)) \in Nat
<1> DEFINE S == {i \in 1..Len(items) : items[i].kind = "comment" /\ items[i].by = u /\ L!Exists(i)}
           n == L!Count(u)
           T == {1} \cup {l \in 1..Len(Required) : Required[l] <= n}
<1>1. IsFiniteSet(1..Len(items))
  <2>1. Len(items) \in Nat
    <3> HIDE DEF ItemRows
    <3> QED OBVIOUS
  <2> QED BY <2>1, FS_Interval
<1>2. S \subseteq 1..Len(items) /\ n = Cardinality(S)
  BY SameCounts DEF L!Count
<1>3. n \in Nat
  <2> HIDE DEF S, n
  <2> QED BY <1>1, <1>2, FS_Subset, FS_CardinalityType
<1>4. T # {} /\ T \subseteq 0..Len(Required) + 1 /\ Len(Required) + 1 \in Nat
  <2>1. Len(Required) \in Nat
    BY CommunityAssumption
  <2> QED BY <2>1
<1>5. T \subseteq Nat /\ Max(T) \in T
  <2> HIDE DEF T
  <2>1. PICK m \in Nat : T \subseteq 0..m
    BY <1>4
  <2>2. T \subseteq Nat
    BY <2>1
  <2>3. Max(T) \in T
    BY <1>4, <2>1, MaxExists
  <2> QED BY <2>2, <2>3
<1>6. L!LevelOf(n) = Max(T)
  BY SameEnds DEF L!LevelOf
<1> HIDE DEF T, n
<1>7. L!LevelOf(n) \in Nat
  BY <1>5, <1>6
<1> QED BY <1>3, <1>7 DEF n

\* A call of the level service with another step, count, level and previous level.
At(v, pc, count, level, previous) ==
  [pc |-> pc, by |-> v.by, kind |-> v.kind, of |-> v.of, next |-> v.next,
   count |-> count, level |-> level, previous |-> previous]

\* A call's count, level and previous level are kept as its write goes on.
LEMMA LevelWriteTypes ==
  ASSUME NEW v \in Writes, WriteOK(v), v.pc \in {"metrics", "target", "previous", "save", "show", "announce"},
         NEW pc \in {"target", "previous", "save", "show", "announce"},
         NEW count \in Nat, NEW level \in Nat, NEW previous \in Nat, NEW w,
         w = At(v, pc, count, level, previous)
  PROVE  w \in Writes /\ WriteOK(w)
<1>1. /\ v.by \in Users \cup {NoUser} /\ v.kind \in {"none", "post", "reply", "comment", "report"}
      /\ v.of \in Nat /\ v.next \in L!Statuses \cup {"none"}
  BY DEF Writes
<1>2. w \in Writes
  BY <1>1 DEF Writes, At
<1>3. w.pc = pc /\ w.by = v.by
  BY DEF At
<1>4. v.by \in Users
  BY DEF WriteOK
<1>5. WriteOK(w)
  BY <1>3, <1>4 DEF WriteOK
<1> QED BY <1>2, <1>5

LevelTypes == progress \in [Users -> [level : Nat, count : Nat]] /\ shown \in [Users -> Nat] /\ told \in [Users -> Nat]

LEMMA LevelStepTypes ==
  ASSUME ItemTypes, WritesOK, LevelTypes, L!LevelStep, UNCHANGED <<scene, items>>
  PROVE  writing' \in [Callers -> Writes] /\ WritesOK' /\ LevelTypes'
<1>1. /\ items \in Seq(ItemRows) /\ writing \in [Callers -> Writes]
      /\ \A c \in Callers : writing[c] \in Writes /\ WriteOK(writing[c])
  BY DEF ItemTypes, WritesOK
<1>2. Grown
  BY <1>1, ItemsGrow DEF ItemsMove
<1> DEFINE Goal == writing' \in [Callers -> Writes] /\ WritesOK' /\ LevelTypes'
<1> SUFFICES Goal
  OBVIOUS
<1>3. ASSUME NEW c \in Callers, NEW w \in Writes, WriteOK(w), writing' = [writing EXCEPT ![c] = w],
             LevelTypes'
      PROVE  Goal
  BY <1>1, <1>2, <1>3, WriterMoves
<1>4. ASSUME NEW c \in Callers, L!Leave(c), LevelTypes' PROVE Goal
  BY <1>3, <1>4, NoWriteIs DEF L!Leave
<1>5. ASSUME NEW c \in Callers,
             writing[c].pc \in {"metrics", "target", "previous", "save", "show", "announce"},
             NEW pc \in {"target", "previous", "save", "show", "announce"},
             NEW count \in Nat, NEW level \in Nat, NEW previous \in Nat, LevelTypes',
             writing' = [writing EXCEPT ![c] = At(writing[c], pc, count, level, previous)]
      PROVE  Goal
  <2> PICK v \in Writes : v = writing[c] /\ WriteOK(v)
    BY <1>1
  <2> DEFINE w == At(v, pc, count, level, previous)
  <2>1. w \in Writes /\ WriteOK(w)
    BY <1>5, LevelWriteTypes
  <2>2. writing' = [writing EXCEPT ![c] = w]
    BY <1>5
  <2> HIDE DEF w
  <2> QED BY <1>3, <1>5, <2>1, <2>2
<1>6. ASSUME NEW c \in Callers, L!GetMetrics(c) \/ L!GetTarget(c) \/ L!GetPrevious(c) PROVE Goal
  <2> PICK v \in Writes : v = writing[c] /\ WriteOK(v)
    BY <1>1
  <2> PICK n \in Nat : n = L!Count(v.by)
    BY <1>1, CountIsNat
  <2> PICK l \in Nat : l = L!LevelOf(n)
    BY <1>1, CountIsNat
  <2>1. v.count \in Nat /\ v.level \in Nat /\ v.previous \in Nat /\ LevelTypes'
    BY <1>6 DEF Writes, LevelTypes, L!GetMetrics, L!GetTarget, L!GetPrevious
  <2>2. CASE L!GetMetrics(c)
    <3>1. /\ v.pc = "metrics"
          /\ writing' = [writing EXCEPT ![c] = At(v, "target", n, v.level, v.previous)]
      <4>1. v.pc = "metrics" /\ writing' = [writing EXCEPT ![c].pc = "target", ![c].count = n]
        BY <2>2 DEF L!GetMetrics
      <4> DEFINE w == [v EXCEPT !.pc = "target", !.count = n]
      <4>2. w = [v EXCEPT !.pc = "target", !.count = n]
        OBVIOUS
      <4>3. writing' = [writing EXCEPT ![c] = w]
        BY <1>1, <4>1, Zenon
      <4> HIDE DEF w
      <4>4. w = At(v, "target", n, v.level, v.previous)
        BY <4>2 DEF At, Writes
      <4> QED BY <4>1, <4>3, <4>4
    <3> QED BY <1>5, <2>1, <3>1
  <2>3. CASE L!GetTarget(c)
    <3>1. /\ v.pc = "target"
          /\ writing' = [writing EXCEPT ![c] = At(v, "previous", v.count, l, v.previous)]
      <4>1. v.pc = "target" /\ writing' = [writing EXCEPT ![c].pc = "previous", ![c].level = l]
        BY <2>3 DEF L!GetTarget
      <4> DEFINE w == [v EXCEPT !.pc = "previous", !.level = l]
      <4>2. w = [v EXCEPT !.pc = "previous", !.level = l]
        OBVIOUS
      <4>3. writing' = [writing EXCEPT ![c] = w]
        BY <1>1, <4>1, Zenon
      <4> HIDE DEF w
      <4>4. w = At(v, "previous", v.count, l, v.previous)
        BY <4>2 DEF At, Writes
      <4> QED BY <4>1, <4>3, <4>4
    <3> QED BY <1>5, <2>1, <3>1
  <2>4. CASE L!GetPrevious(c)
    <3>1. v.pc = "previous" /\ v.by \in Users
      BY <2>4 DEF L!GetPrevious, WriteOK
    <3> PICK p \in Nat : p = progress[v.by].level
      BY <3>1 DEF LevelTypes
    <3>2. writing' = [writing EXCEPT ![c] = At(v, "save", v.count, v.level, p)]
      <4>1. writing' = [writing EXCEPT ![c].pc = "save", ![c].previous = p]
        BY <2>4 DEF L!GetPrevious
      <4> DEFINE w == [v EXCEPT !.pc = "save", !.previous = p]
      <4>2. w = [v EXCEPT !.pc = "save", !.previous = p]
        OBVIOUS
      <4>3. writing' = [writing EXCEPT ![c] = w]
        BY <1>1, <4>1, Zenon
      <4> HIDE DEF w
      <4>4. w = At(v, "save", v.count, v.level, p)
        BY <4>2 DEF At, Writes
      <4> QED BY <4>1, <4>3, <4>4
    <3> QED BY <1>5, <2>1, <3>1, <3>2
  <2> QED BY <1>6, <2>2, <2>3, <2>4
<1>7. ASSUME NEW c \in Callers, L!SaveProgress(c) \/ L!ShowLevel(c) \/ L!Announce(c) PROVE Goal
  <2> PICK v \in Writes : v = writing[c] /\ WriteOK(v)
    BY <1>1
  <2>1. v.pc \in {"save", "show", "announce"} /\ v.by \in Users
    BY <1>7 DEF L!SaveProgress, L!ShowLevel, L!Announce, WriteOK
  <2>2. v.count \in Nat /\ v.level \in Nat /\ v.previous \in Nat
    BY DEF Writes
  <2>3. LevelTypes'
    BY <1>7, <2>1, <2>2 DEF L!SaveProgress, L!ShowLevel, L!Announce, LevelTypes
  <2>4. ASSUME NEW pc \in {"show", "announce"}, L!Set(c, pc) PROVE Goal
    <3>1. writing' = [writing EXCEPT ![c] = At(v, pc, v.count, v.level, v.previous)]
      <4> DEFINE w == [v EXCEPT !.pc = pc]
      <4>1. w = [v EXCEPT !.pc = pc]
        OBVIOUS
      <4>2. writing' = [writing EXCEPT ![c] = w]
        BY <1>1, <2>4, Zenon DEF L!Set
      <4> HIDE DEF w
      <4>3. w = At(v, pc, v.count, v.level, v.previous)
        BY <4>1 DEF At, Writes
      <4> QED BY <4>2, <4>3
    <3> QED BY <1>5, <2>1, <2>2, <2>3, <3>1
  <2> QED BY <1>4, <1>7, <2>3, <2>4 DEF L!SaveProgress, L!ShowLevel, L!Announce
<1>8. ASSUME NEW c \in Callers, L!LevelError(c) PROVE Goal
  BY <1>4, <1>8 DEF L!LevelError, LevelTypes
<1>9. ASSUME NEW c \in Callers, NEW u \in Speakers, L!Recalculate(c, u) PROVE Goal
  <2> DEFINE w == [L!NoWrite EXCEPT !.pc = "metrics", !.by = u]
  <2>1. u \in Users
    BY CommunityAssumption
  <2>2. w \in Writes /\ WriteOK(w)
    BY <2>1 DEF L!NoWrite, Writes, WriteOK
  <2>3. writing' = [writing EXCEPT ![c] = w] /\ LevelTypes'
    BY <1>9 DEF L!Recalculate, LevelTypes
  <2> HIDE DEF w
  <2> QED BY <1>3, <2>2, <2>3
<1> QED
  <2> HIDE DEF Goal
  <2> QED BY <1>6, <1>7, <1>8, <1>9 DEF L!LevelStep

-------------------------------------------------------------------------------
(* Types of notices.                                                       *)

Mails == [pc : {"idle", "resolve", "follows", "filter", "insert"}, update : Nat,
          urgency : N!Urgencies, strict : BOOLEAN, to : SUBSET Users, unread : SUBSET N!Rows,
          seen : [Users -> N!Prefs], modes : SUBSET BOOLEAN, always : SUBSET Users,
          eligible : SUBSET Users, had : [Users -> SUBSET N!Prefs]]
NoticeRows == [update : Nat, to : SUBSET Users, must : SUBSET Users, may : SUBSET Users]
FollowRows == [on : BOOLEAN, least : N!Urgencies, muted : Nat]
SettingTypes ==
  /\ follows \in [Users -> FollowRows] /\ following \in [Callers -> Users \cup {NoUser}]
  /\ prefs \in [Users -> N!Prefs]
FlagTypes ==
  flagRow \in BOOLEAN /\ flagCache \in BOOLEAN /\ refreshing \in [Callers -> {"idle", "on", "off"}]
MailTypes == mailing \in [Callers -> Mails] /\ notices \in Seq(NoticeRows)

LEMMA NoticeTypesAre == N!NoticesTypeOK <=> SettingTypes /\ FlagTypes /\ MailTypes
BY DEF N!NoticesTypeOK, SettingTypes, FollowRows, FlagTypes, MailTypes, Mails, NoticeRows

LEMMA SettingStepTypes ==
  ASSUME SettingTypes, clock \in Nat, N!SettingStep
  PROVE  SettingTypes'
<1>1. \A u \in Choosers : u \in Users
  BY CommunityAssumption
<1>2. ASSUME NEW u \in Choosers, N!Follow(u) \/ N!Unfollow(u) PROVE SettingTypes'
  <2> DEFINE x == N!NoFollow
             y == [N!NoFollow EXCEPT !.on = TRUE]
  <2>1. x \in FollowRows /\ y \in FollowRows
    BY DEF N!NoFollow, N!Urgencies, FollowRows
  <2>2. /\ follows' \in {[follows EXCEPT ![u] = x], [follows EXCEPT ![u] = y]}
        /\ prefs' = prefs /\ following' = following
    BY <1>2 DEF N!Follow, N!Unfollow
  <2> HIDE DEF x, y
  <2>3. follows' \in [Users -> FollowRows]
    BY <1>1, <2>1, <2>2, Zenon DEF SettingTypes
  <2> QED BY <2>2, <2>3 DEF SettingTypes
<1>3. ASSUME NEW u \in Choosers, NEW c \in Callers, N!CheckFollow(c, u) PROVE SettingTypes'
  BY <1>1, <1>3 DEF N!CheckFollow, SettingTypes
<1>4. ASSUME NEW c \in Callers, NEW least \in N!Urgencies, NEW muted \in {0, clock + 1},
             N!SetFollow(c, least, muted)
      PROVE  SettingTypes'
  <2> DEFINE x == [on |-> TRUE, least |-> least, muted |-> muted]
  <2>1. x \in FollowRows
    BY DEF FollowRows
  <2>2. /\ following[c] \in Users /\ follows' = [follows EXCEPT ![following[c]] = x]
        /\ following' = [following EXCEPT ![c] = NoUser] /\ prefs' = prefs
    BY <1>4 DEF N!SetFollow, SettingTypes
  <2> HIDE DEF x
  <2> QED BY <2>1, <2>2 DEF SettingTypes
<1>5. ASSUME NEW u \in Choosers, NEW master \in BOOLEAN, NEW category \in BOOLEAN,
             NEW type \in {"unset", "on", "off"}, N!SetPrefs(u, master, type, category)
      PROVE  SettingTypes'
  <2> PICK x : x = [master |-> master, type |-> type, category |-> category]
    OBVIOUS
  <2>1. x \in N!Prefs
    BY DEF N!Prefs
  <2>2. prefs' = [prefs EXCEPT ![u] = x] /\ follows' = follows /\ following' = following
    BY <1>5 DEF N!SetPrefs
  <2> QED BY <1>1, <2>1, <2>2 DEF SettingTypes
<1> QED BY <1>2, <1>3, <1>4, <1>5 DEF N!SettingStep

LEMMA FlagStepTypes ==
  ASSUME FlagTypes, N!FlagStep
  PROVE  FlagTypes'
BY DEF FlagTypes, N!FlagStep, N!ReadFlag, N!CacheFlag, N!FlagError, N!SetFlag, N!Answers

\* A publication's record, one field at a time.
LEMMA MailIs ==
  ASSUME NEW m \in Mails
  PROVE  /\ m.pc \in {"idle", "resolve", "follows", "filter", "insert"} /\ m.update \in Nat
         /\ m.urgency \in N!Urgencies /\ m.strict \in BOOLEAN /\ m.to \in SUBSET Users
         /\ m.unread \in SUBSET N!Rows /\ m.seen \in [Users -> N!Prefs]
         /\ m.modes \in SUBSET BOOLEAN /\ m.always \in SUBSET Users
         /\ m.eligible \in SUBSET Users /\ m.had \in [Users -> SUBSET N!Prefs]
         /\ m = [pc |-> m.pc, update |-> m.update, urgency |-> m.urgency, strict |-> m.strict,
                 to |-> m.to, unread |-> m.unread, seen |-> m.seen, modes |-> m.modes,
                 always |-> m.always, eligible |-> m.eligible, had |-> m.had]
BY DEF Mails

LEMMA MailMade ==
  ASSUME NEW m,
         m = [pc |-> m.pc, update |-> m.update, urgency |-> m.urgency, strict |-> m.strict,
              to |-> m.to, unread |-> m.unread, seen |-> m.seen, modes |-> m.modes,
              always |-> m.always, eligible |-> m.eligible, had |-> m.had],
         m.pc \in {"idle", "resolve", "follows", "filter", "insert"}, m.update \in Nat,
         m.urgency \in N!Urgencies, m.strict \in BOOLEAN, m.to \in SUBSET Users,
         m.unread \in SUBSET N!Rows, m.seen \in [Users -> N!Prefs],
         m.modes \in SUBSET BOOLEAN, m.always \in SUBSET Users,
         m.eligible \in SUBSET Users, m.had \in [Users -> SUBSET N!Prefs]
  PROVE  m \in Mails
BY DEF Mails

\* Who watches changes what a publication is judged by, and nothing else.
LEMMA WatchTypes ==
  ASSUME mailing \in [Callers -> Mails], SettingTypes', FlagTypes', N!NoticesWatch
  PROVE  /\ mailing' \in [Callers -> Mails]
         /\ \A c \in Callers : /\ mailing'[c].pc = mailing[c].pc /\ mailing'[c].update = mailing[c].update
                               /\ mailing[c].pc = "idle" => mailing'[c] = mailing[c]
<1> DEFINE next(m) ==
      [m EXCEPT !.modes = m.modes \cup {flagCache'},
                !.always = m.always \cap N!Awaiting'[m.urgency][m.modes \cup {flagCache'}],
                !.eligible = m.eligible \cup N!Expecting'[m.urgency][m.modes \cup {flagCache'}],
                !.had = [u \in Users |-> m.had[u] \cup {prefs'[u]}]]
<1>1. ASSUME NEW m \in Mails
      PROVE  next(m) \in Mails /\ next(m).pc = m.pc /\ next(m).update = m.update
  <2> PICK k : k = m.modes \cup {flagCache'}
    OBVIOUS
  <2> PICK h : h = [u \in Users |-> m.had[u] \cup {prefs'[u]}]
    OBVIOUS
  <2> PICK a : a = N!Awaiting'[m.urgency][k]
    OBVIOUS
  <2> PICK e : e = N!Expecting'[m.urgency][k]
    OBVIOUS
  <2>1. k \in SUBSET BOOLEAN
    BY MailIs DEF FlagTypes
  <2>2. h \in [Users -> SUBSET N!Prefs]
    BY MailIs DEF SettingTypes
  <2>3. e \in SUBSET Users
    BY <2>1, MailIs DEF N!Expecting
  <2> PICK x : x = [m EXCEPT !.modes = k, !.always = m.always \cap a,
                             !.eligible = m.eligible \cup e, !.had = h]
    OBVIOUS
  <2>4. x = [pc |-> m.pc, update |-> m.update, urgency |-> m.urgency, strict |-> m.strict,
             to |-> m.to, unread |-> m.unread, seen |-> m.seen, modes |-> k,
             always |-> m.always \cap a, eligible |-> m.eligible \cup e, had |-> h]
    BY DEF Mails
  <2>5. /\ m.pc \in {"idle", "resolve", "follows", "filter", "insert"} /\ m.update \in Nat
        /\ m.urgency \in N!Urgencies /\ m.strict \in BOOLEAN /\ m.to \in SUBSET Users
        /\ m.unread \in SUBSET N!Rows /\ m.seen \in [Users -> N!Prefs]
        /\ m.always \cap a \in SUBSET Users /\ m.eligible \cup e \in SUBSET Users
    BY <2>3, MailIs
  <2>6. x \in Mails
    <3>1. /\ x.pc = m.pc /\ x.update = m.update /\ x.urgency = m.urgency /\ x.strict = m.strict
          /\ x.to = m.to /\ x.unread = m.unread /\ x.seen = m.seen /\ x.modes = k
          /\ x.always = m.always \cap a /\ x.eligible = m.eligible \cup e /\ x.had = h
      BY <2>4
    <3> QED BY <2>1, <2>2, <2>4, <2>5, <3>1, MailMade
  <2>7. x.pc = m.pc /\ x.update = m.update /\ next(m) = x
    BY <2>4, Zenon
  <2> QED BY <2>6, <2>7
<1>2. /\ mailing' = [c \in Callers |-> mailing'[c]]
      /\ \A c \in Callers :
           mailing'[c] = IF mailing[c].pc = "idle" THEN mailing[c] ELSE next(mailing[c])
  BY Zenon DEF N!NoticesWatch
<1> HIDE DEF next
<1>3. \A c \in Callers : /\ mailing'[c] \in Mails /\ mailing'[c].pc = mailing[c].pc
                         /\ mailing'[c].update = mailing[c].update
                         /\ mailing[c].pc = "idle" => mailing'[c] = mailing[c]
  BY <1>1, <1>2
<1> QED BY <1>2, <1>3

LEMMA PublishedGrows ==
  ASSUME Grown, items \in Seq(ItemRows)
  PROVE  N!Published \subseteq N!Published'
BY DEF Grown, N!Published

LEMMA NoMailIs == N!NoMail \in Mails /\ N!NoMail.pc = "idle" /\ N!NoMail.update = 0
<1> PICK s : s = [u \in Users |-> N!FirstPrefs]
  OBVIOUS
<1> PICK h : h = [u \in Users |-> {}]
  OBVIOUS
<1>1. s \in [Users -> N!Prefs] /\ h \in [Users -> SUBSET N!Prefs]
  BY DEF N!FirstPrefs, N!Prefs
<1>2. N!NoMail = [pc |-> "idle", update |-> 0, urgency |-> 0, strict |-> FALSE, to |-> {},
                  unread |-> {}, seen |-> s, modes |-> {}, always |-> {}, eligible |-> {}, had |-> h]
  BY DEF N!NoMail
<1> QED BY <1>1, <1>2 DEF Mails, N!Urgencies

\* The record after each step of a publication but the first and the last.
FlagRead(m) == [m EXCEPT !.pc = "follows", !.strict = flagCache]
Resolved(m) == [m EXCEPT !.pc = "filter", !.unread = N!Rows,
                         !.to = {u \in Users : N!Alerted(u, m.urgency, m.strict)}]
Loads(rows, old, new) ==
  [master   |-> IF "settings" \in rows THEN new.master ELSE old.master,
   type     |-> IF "overrides" \in rows THEN new.type ELSE old.type,
   category |-> IF "categories" \in rows THEN new.category ELSE old.category]
Loaded(m, rows) == [m EXCEPT !.unread = m.unread \ rows,
                             !.seen = [u \in Users |-> Loads(rows, m.seen[u], prefs[u])]]
Filtered(m) == [m EXCEPT !.pc = "insert", !.to = {u \in m.to : N!Wanted(m.seen[u])}]
Moves(m, q) ==
  \/ m.pc = "resolve" /\ q = FlagRead(m)
  \/ m.pc = "follows" /\ q = Resolved(m)
  \/ m.pc = "filter" /\ \E rows \in SUBSET N!Rows : q = Loaded(m, rows)
  \/ m.pc = "filter" /\ m.unread = {} /\ q = Filtered(m)
MovesOn(c) ==
  N!ResolveFlag(c) \/ N!Resolve(c) \/ N!Filter(c) \/ \E rows \in SUBSET N!Rows : N!LoadRows(c, rows)

LEMMA MovesAre ==
  ASSUME mailing \in [Callers -> Mails], NEW c \in Callers, MovesOn(c)
  PROVE  /\ UNCHANGED <<items, notices>>
         /\ \E q : mailing' = [mailing EXCEPT ![c] = q] /\ Moves(mailing[c], q)
<1> PICK m \in Mails : m = mailing[c]
  OBVIOUS
<1>1. CASE N!ResolveFlag(c)
  BY <1>1 DEF N!ResolveFlag, Moves, FlagRead
<1>2. CASE N!Resolve(c)
  BY <1>2 DEF N!Resolve, Moves, Resolved
<1>3. CASE N!Filter(c)
  BY <1>3 DEF N!Filter, Moves, Filtered
<1>4. ASSUME NEW rows \in SUBSET N!Rows, N!LoadRows(c, rows)
      PROVE  /\ UNCHANGED <<items, notices>>
             /\ \E q : mailing' = [mailing EXCEPT ![c] = q] /\ Moves(mailing[c], q)
  <2>1. /\ UNCHANGED <<items, notices>> /\ m.pc = "filter"
        /\ mailing' = [mailing EXCEPT ![c] = Loaded(m, rows)]
    BY <1>4 DEF N!LoadRows, Loaded, Loads
  <2> QED BY <2>1 DEF Moves
<1> QED BY <1>1, <1>2, <1>3, <1>4 DEF MovesOn

\* Each field after a move.
LEMMA MovesTypes ==
  ASSUME SettingTypes, FlagTypes, NEW m \in Mails, NEW q, Moves(m, q)
  PROVE  q \in Mails /\ m.pc # "idle" /\ q.pc # "idle" /\ q.update = m.update
<1>1. CASE m.pc = "resolve" /\ q = FlagRead(m)
  <2>1. q = [m EXCEPT !.pc = "follows", !.strict = flagCache]
    BY <1>1 DEF FlagRead
  <2> QED BY <1>1, <2>1 DEF Mails, FlagTypes
<1>2. CASE m.pc = "follows" /\ q = Resolved(m)
  <2> PICK t : t = {u \in Users : N!Alerted(u, m.urgency, m.strict)}
    OBVIOUS
  <2>1. q = [m EXCEPT !.pc = "filter", !.unread = N!Rows, !.to = t]
    BY <1>2 DEF Resolved
  <2>2. t \in SUBSET Users
    OBVIOUS
  <2> QED BY <1>2, <2>1, <2>2 DEF Mails
<1>3. ASSUME NEW rows \in SUBSET N!Rows, m.pc = "filter", q = Loaded(m, rows)
      PROVE  q \in Mails /\ m.pc # "idle" /\ q.pc # "idle" /\ q.update = m.update
  <2> PICK s : s = [u \in Users |-> Loads(rows, m.seen[u], prefs[u])]
    OBVIOUS
  <2>1. q = [m EXCEPT !.unread = m.unread \ rows, !.seen = s]
    BY <1>3 DEF Loaded
  <2>2. \A u \in Users : Loads(rows, m.seen[u], prefs[u]) \in N!Prefs
    <3>1. \A old, new \in N!Prefs : Loads(rows, old, new) \in N!Prefs
      BY DEF Loads, N!Prefs
    <3>2. \A u \in Users : m.seen[u] \in N!Prefs /\ prefs[u] \in N!Prefs
      BY MailIs DEF SettingTypes
    <3> QED BY <3>1, <3>2
  <2>3. s \in [Users -> N!Prefs]
    BY <2>2
  <2>4. /\ m.unread \ rows \in SUBSET N!Rows
        /\ m.update \in Nat /\ m.urgency \in N!Urgencies /\ m.strict \in BOOLEAN
        /\ m.to \in SUBSET Users /\ m.modes \in SUBSET BOOLEAN /\ m.always \in SUBSET Users
        /\ m.eligible \in SUBSET Users /\ m.had \in [Users -> SUBSET N!Prefs]
    BY MailIs
  <2>5. q = [pc |-> "filter", update |-> m.update, urgency |-> m.urgency, strict |-> m.strict,
             to |-> m.to, unread |-> m.unread \ rows, seen |-> s, modes |-> m.modes,
             always |-> m.always, eligible |-> m.eligible, had |-> m.had]
    BY <1>3, <2>1 DEF Mails
  <2>6. q \in Mails
    BY <2>3, <2>4, <2>5 DEF Mails
  <2> QED BY <1>3, <2>5, <2>6
<1>4. CASE m.pc = "filter" /\ q = Filtered(m)
  <2> PICK t : t = {u \in m.to : N!Wanted(m.seen[u])}
    OBVIOUS
  <2>1. q = [m EXCEPT !.pc = "insert", !.to = t]
    BY <1>4 DEF Filtered
  <2>2. t \in SUBSET Users
    BY MailIs
  <2> QED BY <1>4, <2>1, <2>2 DEF Mails
<1> QED BY <1>1, <1>2, <1>3, <1>4 DEF Moves

\* The record of a publication that begins.
Begun(n, urgency) ==
  [N!NoMail EXCEPT !.pc = "resolve", !.update = n, !.urgency = urgency, !.modes = {flagCache},
     !.always = N!Awaiting[urgency][{flagCache}], !.eligible = N!Expecting[urgency][{flagCache}],
     !.had = [v \in Users |-> {prefs[v]}]]

Begins(q, urgency) ==
  /\ q.pc = "resolve" /\ q.urgency = urgency
  /\ q.modes = {flagCache} /\ q.always = N!Awaiting[urgency][{flagCache}]
  /\ q.eligible = N!Expecting[urgency][{flagCache}] /\ q.had = [v \in Users |-> {prefs[v]}]

LEMMA BegunIs ==
  ASSUME SettingTypes, FlagTypes, NEW n \in Nat, NEW urgency \in N!Urgencies
  PROVE  /\ Begun(n, urgency) \in Mails /\ Begun(n, urgency).pc = "resolve"
         /\ Begun(n, urgency).update = n /\ Begins(Begun(n, urgency), urgency)
<1> PICK a : a = N!Awaiting[urgency][{flagCache}]
  OBVIOUS
<1> PICK e : e = N!Expecting[urgency][{flagCache}]
  OBVIOUS
<1> PICK h : h = [v \in Users |-> {prefs[v]}]
  OBVIOUS
<1> PICK m \in Mails : m = N!NoMail
  BY NoMailIs
<1> PICK q : q = Begun(n, urgency)
  OBVIOUS
<1>1. q = [m EXCEPT !.pc = "resolve", !.update = n, !.urgency = urgency, !.modes = {flagCache},
                    !.always = a, !.eligible = e, !.had = h]
  BY DEF Begun
<1>2. q = [pc |-> "resolve", update |-> n, urgency |-> urgency, strict |-> m.strict, to |-> m.to,
           unread |-> m.unread, seen |-> m.seen, modes |-> {flagCache},
           always |-> a, eligible |-> e, had |-> h]
  BY <1>1 DEF Mails
<1>3. {flagCache} \in SUBSET BOOLEAN
  BY DEF FlagTypes
<1>4. a \in SUBSET Users /\ e \in SUBSET Users
  BY <1>3 DEF N!Awaiting, N!Expecting
<1>5. h \in [Users -> SUBSET N!Prefs]
  BY DEF SettingTypes
<1>6. /\ m.strict \in BOOLEAN /\ m.to \in SUBSET Users /\ m.unread \in SUBSET N!Rows
      /\ m.seen \in [Users -> N!Prefs]
  BY MailIs
<1>7. q \in Mails
  <2>1. /\ q.pc = "resolve" /\ q.update = n /\ q.urgency = urgency /\ q.strict = m.strict
        /\ q.to = m.to /\ q.unread = m.unread /\ q.seen = m.seen /\ q.modes = {flagCache}
        /\ q.always = a /\ q.eligible = e /\ q.had = h
    BY <1>2
  <2> QED BY <1>2, <1>3, <1>4, <1>5, <1>6, <2>1, MailMade
<1>8. q.pc = "resolve" /\ q.update = n /\ Begins(q, urgency)
  BY <1>2 DEF Begins
<1> QED BY <1>7, <1>8

\* The steps of publication.
LEMMA MailStepTypes ==
  ASSUME items \in Seq(ItemRows), SettingTypes, FlagTypes, MailTypes, MailsOK, N!MailStep
  PROVE  ItemsMove /\ MailTypes' /\ MailsOK'
<1>1. /\ mailing \in [Callers -> Mails] /\ notices \in Seq(NoticeRows)
      /\ \A c \in Callers : mailing[c] \in Mails
      /\ \A c \in Callers : mailing[c].pc = "idle" => mailing[c] = N!NoMail
      /\ \A c \in Callers : mailing[c].pc # "idle" => mailing[c].update \in N!Published
  BY DEF MailTypes, MailsOK
<1> DEFINE Goal == ItemsMove /\ MailTypes' /\ MailsOK'
<1> SUFFICES Goal
  OBVIOUS
<1>2. ASSUME NEW c \in Callers, NEW m \in Mails, mailing' = [mailing EXCEPT ![c] = m],
             ItemsMove, notices' \in Seq(NoticeRows),
             m.pc = "idle" => m = N!NoMail, m.pc # "idle" => m.update \in N!Published'
      PROVE  Goal
  <2>1. N!Published \subseteq N!Published'
    BY <1>2, ItemsGrow, PublishedGrows
  <2>2. MailTypes'
    BY <1>1, <1>2 DEF MailTypes
  <2>3. MailsOK'
    BY <1>1, <1>2, <2>1 DEF MailsOK
  <2> QED BY <1>2, <2>2, <2>3
<1>3. ASSUME NEW c \in Callers, MovesOn(c) PROVE Goal
  <2>1. /\ UNCHANGED <<items, notices>>
        /\ \E q : mailing' = [mailing EXCEPT ![c] = q] /\ Moves(mailing[c], q)
    BY <1>1, <1>3, MovesAre
  <2>2. ItemsMove /\ N!Published' = N!Published
    BY <2>1 DEF ItemsMove, N!Published
  <2>3. PICK q : mailing' = [mailing EXCEPT ![c] = q] /\ Moves(mailing[c], q)
    BY <2>1
  <2>4. q \in Mails /\ mailing[c].pc # "idle" /\ q.pc # "idle" /\ q.update = mailing[c].update
    BY <1>1, <2>3, MovesTypes
  <2> QED BY <1>1, <1>2, <2>1, <2>2, <2>3, <2>4
<1>4. ASSUME NEW c \in Callers, N!Insert(c) PROVE Goal
  <2> PICK v \in Mails : v = mailing[c]
    BY <1>1
  <2> DEFINE x == [update |-> v.update, to |-> v.to, must |-> Always(v), may |-> Ever(v)]
  <2>1. x \in NoticeRows
    BY MailIs DEF NoticeRows, Always, Ever
  <2>2. /\ notices' = Append(notices, x) /\ mailing' = [mailing EXCEPT ![c] = N!NoMail]
        /\ ItemsMove
    BY <1>4 DEF N!Insert, ItemsMove, Always, Ever
  <2>3. notices' \in Seq(NoticeRows)
    <3> HIDE DEF x
    <3> QED BY <1>1, <2>1, <2>2
  <2> QED BY <1>2, <2>2, <2>3, NoMailIs
<1>5. ASSUME NEW c \in Callers, N!MailError(c) PROVE Goal
  BY <1>1, <1>2, <1>5, NoMailIs DEF N!MailError, ItemsMove
<1>6. ASSUME NEW c \in Callers, NEW u \in Users, NEW urgency \in N!Urgencies, N!Publish(c, u, urgency)
      PROVE  Goal
  <2> DEFINE x == [kind |-> "update", by |-> u, of |-> 0, text |-> 0, kept |-> 0,
                   status |-> "active", fair |-> TRUE]
             n == Len(items) + 1
             m == Begun(n, urgency)
  <2>1. items' = Append(items, x) /\ mailing' = [mailing EXCEPT ![c] = m] /\ notices' = notices
    BY <1>6 DEF N!Publish, Begun
  <2>2. Added(x)
    <3>1. x \in ItemRows
      BY DEF ItemRows, States, L!Statuses
    <3>2. x.status = IF x.kind = "report" THEN "open" ELSE "active"
      OBVIOUS
    <3> HIDE DEF x
    <3> QED BY <2>1, <3>1, <3>2 DEF Added
  <2>3. n \in Nat /\ n \in N!Published'
    <3>1. Len(items) \in Nat /\ Len(items') = Len(items) + 1 /\ items'[Len(items) + 1] = x
      BY <2>2, AddedIs
    <3> QED BY <3>1 DEF N!Published
  <2>5. m \in Mails /\ m.pc # "idle" /\ m.update = n
    <3> HIDE DEF m, n
    <3>1. m = Begun(n, urgency)
      BY DEF m
    <3>2. m \in Mails /\ m.pc = "resolve" /\ m.update = n
      BY <1>1, <2>3, <3>1, BegunIs
    <3> QED BY <3>2
  <2>6. ItemsMove
    <3>1. Fresh(x)
      BY DEF Fresh
    <3> HIDE DEF x
    <3> QED BY <2>2, <3>1 DEF ItemsMove
  <2> HIDE DEF m, n
  <2> QED BY <1>1, <1>2, <2>1, <2>3, <2>5, <2>6
<1> QED
  <2> HIDE DEF Goal
  <2> QED BY <1>3, <1>4, <1>5, <1>6 DEF N!MailStep, MovesOn

-------------------------------------------------------------------------------
(* Types of the feed.                                                      *)

CircuitTypes == circuit \in [failures : Nat, until : Nat]

LEMMA MinExists ==
  ASSUME NEW S \in SUBSET Nat, S # {}
  PROVE  Min(S) \in S /\ \A y \in S : Min(S) <= y
<1>1. PICK x \in S : \A y \in S : x <= y
  BY LeastNumber
<1>2. S \subseteq Int
  OBVIOUS
<1> QED BY <1>1, <1>2, MinIs

LEMMA NoFeedIs == F!NoFeed \in Feeds /\ FeedOK(F!NoFeed)
BY DEF F!NoFeed, Feeds, FeedOK, PageRows

LEMMA FeedMoves ==
  ASSUME FeedsOK, UNCHANGED items, NEW c \in Callers, NEW f \in Feeds, FeedOK(f),
         feeds' = [feeds EXCEPT ![c] = f]
  PROVE  FeedsOK'
<1>1. \A g \in Feeds : FeedOK(g) => FeedOK(g)'
  BY DEF FeedOK
<1>2. feeds' \in [Callers -> Feeds] /\ \A d \in Callers : FeedOK(feeds'[d]) /\ feeds'[d] \in Feeds
  BY DEF FeedsOK
<1> QED BY <1>1, <1>2 DEF FeedsOK

\* Who watches takes from what must be shown, and nothing else.
LEMMA FeedsWatched ==
  ASSUME FeedsOK, F!FeedsWatch, Grown, items \in Seq(ItemRows)
  PROVE  /\ FeedsOK' /\ decisions' = decisions /\ circuit' = circuit
         /\ \A c \in Callers :
              /\ feeds[c].pc = "idle" => feeds'[c] = feeds[c]
              /\ feeds'[c] = [feeds[c] EXCEPT !.must = feeds'[c].must]
              /\ feeds'[c].must \subseteq feeds[c].must
              /\ \A u \in Users :
                   feeds[c].pc # "idle" /\ feeds[c].reader = u => feeds'[c].must \subseteq F!Expected(u)'
<1> DEFINE visible == {i \in 1..Len(items') : items'[i].kind = "update" /\ items'[i].status # "hidden"}
           e(u) == IF follows'[u].on THEN visible ELSE {}
<1>9. \A u \in Users : F!Expected(u)' = e(u)
  BY DEF F!Expected, F!Visible
<1>1. \A c \in Callers : feeds[c] \in Feeds /\ FeedOK(feeds[c])
  BY DEF FeedsOK
<1>2. /\ decisions' = decisions /\ circuit' = circuit
      /\ feeds' = [c \in Callers |-> feeds'[c]]
      /\ \A c \in Callers : feeds[c].pc = "idle" => feeds'[c] = feeds[c]
  BY DEF F!FeedsWatch
<1>3. \A c \in Callers : feeds[c].pc # "idle" =>
        feeds'[c] = [feeds[c] EXCEPT !.must = feeds[c].must \cap e(feeds[c].reader)]
  <2>1. \A c \in Callers : feeds[c].pc # "idle" => feeds[c].reader \in Users
    BY <1>1 DEF FeedOK
  <2>2. \A c \in Callers : feeds'[c] =
          IF feeds[c].pc = "idle" THEN feeds[c]
          ELSE [feeds[c] EXCEPT !.must = feeds[c].must \cap ([u \in Users |-> e(u)])[feeds[c].reader]]
    BY DEF F!FeedsWatch, F!Expected, F!Visible
  <2> HIDE DEF e
  <2> QED BY <2>1, <2>2
<1>4. ASSUME NEW f \in Feeds, NEW m
      PROVE  /\ [f EXCEPT !.must = f.must \cap m] \in Feeds
             /\ [f EXCEPT !.must = f.must \cap m].must = f.must \cap m
             /\ FeedOK(f) /\ f.pc # "idle" => FeedOK([f EXCEPT !.must = f.must \cap m])
  BY DEF Feeds, FeedOK
<1>5. \A f \in Feeds : FeedOK(f) => FeedOK(f)'
  BY DEF FeedOK, Grown
<1> HIDE DEF e
<1>6. ASSUME NEW c \in Callers PROVE feeds'[c] \in Feeds /\ FeedOK(feeds'[c])
  <2>1. CASE feeds[c].pc = "idle"
    BY <1>1, <1>2, <2>1
  <2>2. CASE feeds[c].pc # "idle"
    <3> PICK f \in Feeds : f = feeds[c] /\ FeedOK(f)
      BY <1>1
    <3> PICK m : m = e(feeds[c].reader)
      OBVIOUS
    <3> DEFINE g == [f EXCEPT !.must = f.must \cap m]
    <3>1. g \in Feeds /\ FeedOK(g)
      BY <1>4, <2>2
    <3>2. feeds'[c] = g
      BY <1>3, <2>2
    <3> QED BY <3>1, <3>2
  <2> QED BY <2>1, <2>2
<1>7. FeedsOK'
  BY <1>2, <1>5, <1>6 DEF FeedsOK
<1>8. ASSUME NEW c \in Callers
      PROVE  /\ feeds'[c] = [feeds[c] EXCEPT !.must = feeds'[c].must]
             /\ feeds'[c].must \subseteq feeds[c].must
             /\ feeds[c].pc # "idle" => feeds'[c].must \subseteq e(feeds[c].reader)
  <2>1. CASE feeds[c].pc = "idle"
    <3> PICK f \in Feeds : f = feeds[c]
      BY <1>1
    <3>1. f = [f EXCEPT !.must = f.must]
      BY DEF Feeds
    <3> QED BY <1>2, <2>1, <3>1
  <2>2. CASE feeds[c].pc # "idle"
    <3>1. feeds'[c].must = feeds[c].must \cap e(feeds[c].reader)
      BY <1>1, <1>3, <1>4, <2>2
    <3> QED BY <1>3, <2>2, <3>1
  <2> QED BY <2>1, <2>2
<1> QED BY <1>2, <1>7, <1>8, <1>9

\* Decisions kept of a page.
LEMMA KeptTypes ==
  ASSUME DecisionsOK, NEW u \in Users, NEW page \in SUBSET PageRows, decisions' = F!Kept(u, page)
  PROVE  DecisionsOK'
<1> DEFINE rows == [scored : Nat \cup {-1}, ml : Nat \cup {-1}]
           d(i) == CHOOSE d \in page : d.item = i
           new(i) == IF \E x \in page : x.item = i
                     THEN [scored |-> d(i).scored, ml |-> IF d(i).ml = -1 THEN decisions[u][i].ml ELSE d(i).ml]
                     ELSE decisions[u][i]
           x == [i \in 1..MaxItems |-> new(i)]
<1>1. \A i \in 1..MaxItems : decisions[u][i] \in rows
  BY DEF DecisionsOK
<1>2. decisions' = [decisions EXCEPT ![u] = x]
  BY DEF F!Kept, DecisionsOK
<1>3. ASSUME NEW i \in 1..MaxItems PROVE new(i) \in rows
  <2>1. CASE \E y \in page : y.item = i
    <3>1. d(i) \in PageRows
      BY <2>1
    <3> HIDE DEF d
    <3> QED BY <1>1, <2>1, <3>1 DEF PageRows
  <2> QED BY <1>1, <2>1
<1>4. x \in [1..MaxItems -> rows]
  <2> HIDE DEF new, rows
  <2> QED BY <1>3
<1> HIDE DEF x
<1> QED BY <1>2, <1>4 DEF DecisionsOK

\* The steps of the feed.
LEMMA FeedStepTypes ==
  ASSUME FeedsOK, DecisionsOK, CircuitTypes, items \in Seq(ItemRows), clock \in Nat, F!FeedStep,
         UNCHANGED items
  PROVE  FeedsOK' /\ DecisionsOK' /\ CircuitTypes'
<1>1. /\ \A c \in Callers : feeds[c] \in Feeds /\ FeedOK(feeds[c])
      /\ Len(items) \in Nat
  <2> HIDE DEF ItemRows
  <2> QED BY DEF FeedsOK
<1> DEFINE Goal == FeedsOK' /\ DecisionsOK' /\ CircuitTypes'
<1> SUFFICES Goal
  OBVIOUS
<1>2. ASSUME NEW c \in Callers, NEW f \in Feeds, FeedOK(f), feeds' = [feeds EXCEPT ![c] = f],
             DecisionsOK', CircuitTypes'
      PROVE  Goal
  BY <1>2, FeedMoves
<1>3. UNCHANGED decisions => DecisionsOK'
  BY DEF DecisionsOK
<1>4. UNCHANGED circuit => CircuitTypes'
  BY DEF CircuitTypes
<1>5. F!Visible \subseteq 1..Len(items) /\ \A i \in F!Visible : items[i].text \in Nat
  <2>1. \A i \in 1..Len(items) : items[i] \in ItemRows
    <3> HIDE DEF ItemRows
    <3> QED OBVIOUS
  <2>2. F!Visible \subseteq 1..Len(items)
    BY DEF F!Visible
  <2> QED BY <2>1, <2>2 DEF ItemRows
<1>6. ASSUME NEW c \in Callers, F!NextPage(c) \/ F!Ask(c) PROVE Goal
  <2> PICK f \in Feeds : f = feeds[c] /\ FeedOK(f)
    BY <1>1
  <2>1. /\ f.pc # "idle" /\ UNCHANGED <<decisions, circuit>>
        /\ \E pc \in {"find", "end", "asked"} : feeds' = [feeds EXCEPT ![c].pc = pc]
    BY <1>6 DEF F!NextPage, F!Ask
  <2> PICK pc \in {"find", "end", "asked"} : feeds' = [feeds EXCEPT ![c].pc = pc]
    BY <2>1
  <2> DEFINE g == [f EXCEPT !.pc = pc]
  <2>2. g \in Feeds
    BY DEF Feeds
  <2>3. FeedOK(g)
    BY <2>1 DEF FeedOK, Feeds
  <2>4. feeds' = [feeds EXCEPT ![c] = g]
    OBVIOUS
  <2> HIDE DEF g
  <2> QED BY <1>2, <1>3, <1>4, <2>1, <2>2, <2>3, <2>4
<1>7. ASSUME NEW c \in Callers, F!Find(c) PROVE Goal
  <2> PICK f \in Feeds : f = feeds[c] /\ FeedOK(f)
    BY <1>1
  <2> DEFINE found == F!Newest({i \in F!Visible : F!Before(i, f)})
             page == {[item |-> i, scored |-> items[i].text, ml |-> -1] : i \in found}
             t == f.twice \/ found \cap f.seen # {}
             g == [f EXCEPT !.pc = "analyse", !.twice = t, !.page = page]
  <2>1. feeds' = [feeds EXCEPT ![c] = g] /\ f.pc = "find" /\ UNCHANGED <<decisions, circuit>>
    BY <1>7 DEF F!Find
  <2>2. found \subseteq F!Visible
    BY DEF F!Newest
  <2>3. page \in SUBSET PageRows /\ \A d \in page : d.item \in 1..Len(items)
    <3> HIDE DEF found
    <3> QED BY <1>1, <1>5, <2>2 DEF PageRows
  <2>4. t \in BOOLEAN
    BY DEF Feeds
  <2> HIDE DEF t, page
  <2>5. g \in Feeds
    BY <2>3, <2>4 DEF Feeds
  <2>6. FeedOK(g)
    BY <2>1, <2>3 DEF FeedOK, Feeds
  <2> HIDE DEF g
  <2> QED BY <1>2, <1>3, <1>4, <2>1, <2>5, <2>6
<1>8. ASSUME NEW c \in Callers, NEW page \in SUBSET PageRows, feeds[c].pc # "idle",
             \A d \in page : d.item \in 1..Len(items), F!Went(c, page), DecisionsOK', CircuitTypes'
      PROVE  Goal
  <2> PICK f \in Feeds : f = feeds[c] /\ FeedOK(f)
    BY <1>1
  <2> DEFINE g == [f EXCEPT !.pc = "persist", !.page = page]
  <2>1. g \in Feeds
    BY DEF Feeds
  <2>2. FeedOK(g)
    BY <1>8 DEF FeedOK, Feeds
  <2>3. feeds' = [feeds EXCEPT ![c] = g]
    BY <1>8 DEF F!Went
  <2> HIDE DEF g
  <2> QED BY <1>2, <1>8, <2>1, <2>2, <2>3
<1>9. ASSUME NEW c \in Callers, F!Answer(c) PROVE Goal
  <2> PICK f \in Feeds : f = feeds[c] /\ FeedOK(f)
    BY <1>1
  <2> DEFINE page == F!Analysed(f.page)
  <2>1. f.page \in SUBSET PageRows /\ \A d \in f.page : d.item \in 1..Len(items)
    BY DEF Feeds, FeedOK
  <2>2. page \in SUBSET PageRows
    BY <2>1 DEF PageRows, F!Analysed
  <2>3. \A d \in page : d.item \in 1..Len(items)
    BY <2>1 DEF PageRows, F!Analysed
  <2>4. F!Went(c, page) /\ feeds[c].pc # "idle" /\ DecisionsOK' /\ CircuitTypes'
    BY <1>3, <1>9 DEF F!Answer, CircuitTypes
  <2> HIDE DEF page
  <2> QED BY <1>8, <2>2, <2>3, <2>4
<1>10. ASSUME NEW c \in Callers, F!SkipAnalysis(c) \/ \E counts \in BOOLEAN : F!Fail(c, counts)
       PROVE  Goal
  <2> PICK f \in Feeds : f = feeds[c] /\ FeedOK(f)
    BY <1>1
  <2>1. f.page \in SUBSET PageRows /\ \A d \in f.page : d.item \in 1..Len(items)
    BY DEF Feeds, FeedOK
  <2>2. F!Went(c, f.page) /\ f.pc # "idle" /\ UNCHANGED decisions
    BY <1>10 DEF F!SkipAnalysis, F!Fail
  <2>3. CircuitTypes'
    <3>1. CASE F!SkipAnalysis(c)
      BY <1>4, <3>1 DEF F!SkipAnalysis
    <3>2. ASSUME NEW counts \in BOOLEAN, F!Fail(c, counts) PROVE CircuitTypes'
      <4>1. Pause \in Nat
        BY CommunityAssumption
      <4> QED BY <3>2, <4>1 DEF F!Fail, CircuitTypes
    <3> QED BY <1>10, <3>1, <3>2
  <2> QED BY <1>3, <1>8, <2>1, <2>2, <2>3
<1>11. ASSUME NEW c \in Callers, F!Persist(c) PROVE Goal
  <2> PICK f \in Feeds : f = feeds[c] /\ FeedOK(f)
    BY <1>1
  <2> DEFINE shows == {d.item : d \in f.page}
             pc == IF F!Cardinality(shows) = Limit THEN "next" ELSE "end"
             below == IF shows = {} THEN f.below ELSE F!Min(shows)
             seen == f.seen \cup shows
             g == [f EXCEPT !.pc = pc, !.below = below, !.seen = seen, !.page = {}]
  <2>1. /\ feeds' = [feeds EXCEPT ![c] = g] /\ f.pc = "persist" /\ UNCHANGED circuit
        /\ decisions' = F!Kept(f.reader, f.page)
    BY <1>11 DEF F!Persist
  <2>2. f.reader \in Users /\ f.page \in SUBSET PageRows /\ \A d \in f.page : d.item \in 1..Len(items)
    BY <2>1 DEF FeedOK, Feeds
  <2>3. shows \subseteq 1..Len(items) /\ shows \in SUBSET Nat
    BY <1>1, <2>2
  <2>4. below \in Nat
    <3>1. CASE shows = {}
      BY <3>1 DEF Feeds
    <3>2. CASE shows # {}
      <4> HIDE DEF shows
      <4>1. F!Min(shows) \in Nat
        BY <2>3, <3>2, MinExists, SameEnds
      <4> QED BY <3>2, <4>1
    <3> QED BY <3>1, <3>2
  <2>5. seen \in SUBSET Nat /\ pc \in {"next", "end"}
    BY <2>3 DEF Feeds
  <2>6. seen \cup f.must \subseteq 1..Len(items)
    BY <2>3 DEF FeedOK
  <2> HIDE DEF shows, pc, below, seen
  <2>7. g \in Feeds
    BY <2>4, <2>5 DEF Feeds
  <2>8. FeedOK(g)
    BY <2>1, <2>2, <2>5, <2>6 DEF FeedOK, Feeds
  <2>9. DecisionsOK'
    BY <2>1, <2>2, KeptTypes
  <2> HIDE DEF g
  <2> QED BY <1>2, <1>4, <2>1, <2>7, <2>8, <2>9
<1>12. ASSUME NEW c \in Callers, F!Close(c) PROVE Goal
  BY <1>2, <1>3, <1>4, <1>12, NoFeedIs DEF F!Close
<1>13. ASSUME NEW c \in Callers, F!KeepExplained(c) PROVE Goal
  <2> PICK f \in Feeds : f = feeds[c] /\ FeedOK(f)
    BY <1>1
  <2>1. /\ decisions' = F!Kept(f.reader, f.page) /\ f.pc # "idle" /\ UNCHANGED circuit
        /\ feeds' = [feeds EXCEPT ![c] = F!NoFeed]
    BY <1>13 DEF F!KeepExplained
  <2>2. f.reader \in Users /\ f.page \in SUBSET PageRows
    BY <2>1 DEF FeedOK, Feeds
  <2>3. DecisionsOK'
    BY <2>1, <2>2, KeptTypes
  <2> QED BY <1>2, <1>4, <2>1, <2>3, NoFeedIs
<1>14. ASSUME NEW c \in Callers, NEW u \in Users, F!Open(c, u) PROVE Goal
  <2> DEFINE g == [F!NoFeed EXCEPT !.pc = "find", !.reader = u, !.must = F!Visible,
                                   !.below = Len(items) + 1]
  <2>1. feeds' = [feeds EXCEPT ![c] = g] /\ UNCHANGED <<decisions, circuit>>
    BY <1>14 DEF F!Open
  <2>2. F!Visible \in SUBSET Nat /\ Len(items) + 1 \in Nat
    BY <1>1, <1>5
  <2>3. g \in Feeds
    BY <2>2 DEF Feeds, F!NoFeed
  <2>4. FeedOK(g)
    BY <1>5 DEF FeedOK, F!NoFeed
  <2> HIDE DEF g
  <2> QED BY <1>2, <1>3, <1>4, <2>1, <2>3, <2>4
<1>15. ASSUME NEW c \in Callers, NEW u \in Users, NEW i \in F!Visible, F!Explain(c, u, i) PROVE Goal
  <2> DEFINE x == [item |-> i, scored |-> items[i].text, ml |-> -1]
             g == [F!NoFeed EXCEPT !.pc = "explain", !.reader = u, !.page = {x}]
  <2>1. feeds' = [feeds EXCEPT ![c] = g] /\ UNCHANGED <<decisions, circuit>>
    BY <1>15 DEF F!Explain
  <2>2. x \in PageRows /\ x.item \in 1..Len(items)
    BY <1>1, <1>5 DEF PageRows
  <2> HIDE DEF x
  <2>3. g \in Feeds
    BY <2>2 DEF Feeds, F!NoFeed
  <2>4. FeedOK(g)
    BY <2>2 DEF FeedOK, F!NoFeed
  <2> HIDE DEF g
  <2> QED BY <1>2, <1>3, <1>4, <2>1, <2>3, <2>4
<1> QED
  <2> HIDE DEF Goal
  <2> QED BY <1>6, <1>7, <1>9, <1>10, <1>11, <1>12, <1>13, <1>14, <1>15 DEF F!FeedStep

-------------------------------------------------------------------------------
(* The types of the whole.                                                 *)

\* Which part a step may change.
LEMMA Frames ==
  ASSUME [Next]_vars
  PROVE  /\ UNCHANGED scene
         /\ clock' \in {clock, clock + 1} /\ (clock' # clock => Hour)
         /\ (L!SanctionStep /\ UNCHANGED clock) \/ UNCHANGED sanctionVars
         /\ (L!WriteStep /\ UNCHANGED sanctionVars /\ UNCHANGED clock)
              \/ (L!LevelStep /\ UNCHANGED items) \/ UNCHANGED writing
         /\ L!ModerationStep \/ UNCHANGED <<records, reviewing>>
         /\ L!WriteStep \/ L!ModerationStep \/ N!MailStep \/ UNCHANGED items
         /\ (L!LevelStep /\ UNCHANGED items) \/ UNCHANGED levelVars
         /\ N!SettingStep \/ UNCHANGED <<follows, following, prefs>>
         /\ N!FlagStep \/ UNCHANGED <<flagRow, flagCache, refreshing>>
         /\ \/ N!MailStep \/ UNCHANGED <<mailing, notices>>
            \/ N!NoticesWatch /\ UNCHANGED <<notices, items>>
         /\ \/ F!FeedStep /\ UNCHANGED items
            \/ F!FeedsWatch
            \/ UNCHANGED <<feedVars, items, follows>>
<1>0. CASE UNCHANGED vars
  BY <1>0 DEF vars, sanctionVars, contentVars, levelVars, noticeVars, feedVars
<1>1. CASE UNCHANGED scene /\ Hour /\ N!NoticesWatch /\ F!FeedsWatch
  BY <1>1 DEF Hour, sanctionVars, contentVars, levelVars, noticeVars, feedVars
<1>2. CASE UNCHANGED scene /\ L!SanctionStep /\ UNCHANGED <<clock, contentVars, levelVars, noticeVars, mailing, feedVars>>
  BY <1>2 DEF sanctionVars, contentVars, levelVars, noticeVars, feedVars
<1>3. CASE UNCHANGED scene /\ L!WriteStep /\ F!FeedsWatch
             /\ UNCHANGED <<clock, sanctionVars, records, reviewing, levelVars, noticeVars, mailing>>
  BY <1>3 DEF sanctionVars, contentVars, levelVars, noticeVars, feedVars
<1>4. CASE UNCHANGED scene /\ L!ModerationStep /\ F!FeedsWatch
             /\ UNCHANGED <<clock, sanctionVars, writing, levelVars, noticeVars, mailing>>
  BY <1>4 DEF sanctionVars, contentVars, levelVars, noticeVars, feedVars
<1>5. CASE UNCHANGED scene /\ L!LevelStep
             /\ UNCHANGED <<clock, sanctionVars, items, records, reviewing, noticeVars, mailing, feedVars>>
  BY <1>5 DEF sanctionVars, contentVars, levelVars, noticeVars, feedVars
<1>6. CASE UNCHANGED scene /\ N!SettingStep /\ N!NoticesWatch /\ F!FeedsWatch
             /\ UNCHANGED <<clock, sanctionVars, contentVars, levelVars, notices, flagRow, flagCache,
                            refreshing>>
  BY <1>6 DEF sanctionVars, contentVars, levelVars, noticeVars, feedVars
<1>7. CASE UNCHANGED scene /\ N!FlagStep /\ N!NoticesWatch
             /\ UNCHANGED <<clock, sanctionVars, contentVars, levelVars, notices, feedVars>>
  <2>1. UNCHANGED <<follows, following, prefs>>
    BY <1>7 DEF N!FlagStep, N!ReadFlag, N!CacheFlag, N!FlagError, N!SetFlag, N!settings
  <2> QED BY <1>7, <2>1 DEF sanctionVars, contentVars, levelVars, noticeVars, feedVars
<1>8. CASE UNCHANGED scene /\ N!MailStep /\ F!FeedsWatch
             /\ UNCHANGED <<clock, sanctionVars, records, writing, reviewing, levelVars, follows, following,
                            prefs, flagRow, flagCache, refreshing>>
  BY <1>8 DEF sanctionVars, contentVars, levelVars, noticeVars, feedVars
<1>9. CASE UNCHANGED scene /\ F!FeedStep /\ UNCHANGED <<clock, sanctionVars, contentVars, levelVars, noticeVars, mailing>>
  BY <1>9 DEF sanctionVars, contentVars, levelVars, noticeVars, feedVars
<1> QED BY <1>0, <1>1, <1>2, <1>3, <1>4, <1>5, <1>6, <1>7, <1>8, <1>9 DEF Next

\* Calls are counted up to their bound.
LEMMA CallsCounted ==
  ASSUME [Next]_vars
  PROVE  UNCHANGED calls \/ (calls < MaxCalls[scene] /\ calls' = calls + 1)
<1> DEFINE Goal == UNCHANGED calls \/ (calls < MaxCalls[scene] /\ calls' = calls + 1)
<1>1. CASE UNCHANGED vars
  BY <1>1 DEF vars
<1>2. CASE Hour
  BY <1>2 DEF Hour
<1>3. ASSUME L!SanctionStep PROVE Goal
  BY <1>3 DEF L!SanctionStep, L!Order, L!MayOrder, L!Begin
<1>4. ASSUME L!WriteStep PROVE Goal
  <2>1. \A c, u, kind, i : L!Check(c, u, kind, i) => L!Begin
    BY DEF L!Check, L!MayAdd, L!MayWrite
  <2>2. \A c, u, i, what, next : L!Change(c, u, i, what, next) => L!Begin
    BY DEF L!Change, L!MayWrite
  <2> QED BY <1>4, <2>1, <2>2 DEF L!WriteStep, L!Begin
<1>5. ASSUME L!ModerationStep PROVE Goal
  BY <1>5 DEF L!ModerationStep, L!Look, L!Begin
<1>6. ASSUME L!LevelStep PROVE Goal
  BY <1>6 DEF L!LevelStep, L!Recalculate, L!MayWrite, L!Begin
<1>7. ASSUME N!SettingStep PROVE Goal
  BY <1>7 DEF N!SettingStep, N!Follow, N!Unfollow, N!CheckFollow, N!SetFollow, N!SetPrefs, N!MayChange,
               N!Begin
<1>8. ASSUME N!FlagStep PROVE Goal
  BY <1>8 DEF N!FlagStep, N!SetFlag, N!Begin
<1>9. ASSUME N!MailStep PROVE Goal
  BY <1>9 DEF N!MailStep, N!Publish, N!Begin
<1>10. ASSUME F!FeedStep PROVE Goal
  BY <1>10 DEF F!FeedStep, F!Open, F!Explain, F!Begin
<1> QED
  <2> HIDE DEF Goal
  <2>1. Next => Goal
    <3>1. UNCHANGED calls => Goal
      BY DEF Goal
    <3> QED BY <1>2, <1>3, <1>4, <1>5, <1>6, <1>7, <1>8, <1>9, <1>10, <3>1 DEF Next, Hour
  <2> QED BY <1>1, <2>1 DEF Goal

\* The types, part by part.
TypeTable ==
  /\ scene \in Scenes /\ clock \in 1..LastHour /\ calls \in 0..MaxCalls[scene]
  /\ L!SanctionsTypeOK /\ OrdersOK
  /\ ItemTypes /\ WritesOK /\ ReviewsOK
  /\ LevelTypes
  /\ SettingTypes /\ FlagTypes /\ MailTypes /\ MailsOK
  /\ FeedsOK /\ DecisionsOK /\ CircuitTypes

LEMMA TypeInvIs == TypeInv <=> TypeTable
<1> USE DEF TypeTable
<1>1. FeedsOK /\ DecisionsOK /\ CircuitTypes => F!FeedTypeOK
  <2> SUFFICES ASSUME FeedsOK, DecisionsOK, CircuitTypes PROVE F!FeedTypeOK
    OBVIOUS
  <2>1. \A c \in Callers :
          /\ feeds[c].pc \in {"idle", "find", "analyse", "asked", "persist", "next", "end", "explain"}
          /\ feeds[c].reader \in Users \cup {NoUser} /\ feeds[c].below \in Nat
          /\ \A d \in feeds[c].page : d \in [item : Nat, scored : Nat, ml : Nat \cup {-1}]
          /\ feeds[c].seen \cup feeds[c].must \subseteq 1..Len(items) /\ feeds[c].twice \in BOOLEAN
    <3> TAKE c \in Callers
    <3> PICK f \in Feeds : f = feeds[c] /\ FeedOK(f)
      BY DEF FeedsOK
    <3>1. f.seen \cup f.must \subseteq 1..Len(items)
      BY DEF FeedOK
    <3> QED BY <3>1 DEF Feeds, PageRows
  <2> QED BY <2>1 DEF F!FeedTypeOK, DecisionsOK, CircuitTypes
<1>2. F!FeedTypeOK => CircuitTypes
  BY DEF F!FeedTypeOK, CircuitTypes
<1>3. L!LevelsTypeOK <=> LevelTypes
  BY DEF L!LevelsTypeOK, LevelTypes
<1> QED BY <1>1, <1>2, <1>3, ItemTypesAre, NoticeTypesAre DEF TypeInv, TypeOK

LEMMA ItemsAlways ==
  ASSUME TypeInv, [Next]_vars
  PROVE  ItemsMove /\ Grown /\ UNCHANGED scene
<1>1. ItemTypes /\ WritesOK /\ ReviewsOK /\ SettingTypes /\ FlagTypes /\ MailTypes /\ MailsOK
  BY TypeInvIs DEF TypeTable
<1>2. items \in Seq(ItemRows)
  BY <1>1 DEF ItemTypes
<1>3. UNCHANGED scene /\ (L!WriteStep \/ L!ModerationStep \/ N!MailStep \/ UNCHANGED items)
  BY Frames
<1>4. ItemsMove
  BY <1>1, <1>2, <1>3, WriteStepTypes, ModerationStepTypes, MailStepTypes DEF ItemsMove
<1> QED BY <1>2, <1>3, <1>4, ItemsGrow

\* Every step keeps every type, and what calls in progress hold.
LEMMA TypeStep ==
  ASSUME TypeInv, [Next]_vars
  PROVE  TypeInv'
<1>1. /\ scene \in Scenes /\ clock \in 1..LastHour /\ calls \in 0..MaxCalls[scene]
      /\ L!SanctionsTypeOK /\ OrdersOK
      /\ ItemTypes /\ WritesOK /\ ReviewsOK
      /\ LevelTypes
      /\ SettingTypes /\ FlagTypes /\ MailTypes /\ MailsOK
      /\ FeedsOK /\ DecisionsOK /\ CircuitTypes
  BY TypeInvIs DEF TypeTable
<1>2. ItemsMove /\ Grown /\ UNCHANGED scene
  BY ItemsAlways
<1>3. LastHour \in Nat /\ MaxCalls[scene] \in Nat
  BY <1>1, CommunityAssumption
<1>4. clock \in Nat
  BY <1>1
<1>5. items \in Seq(ItemRows) /\ items' \in Seq(ItemRows)
  BY <1>1, <1>2 DEF ItemTypes, Grown
<1>6. clock' \in 1..LastHour
  <2>1. clock' = clock \/ (clock' = clock + 1 /\ clock < LastHour)
    BY Frames DEF Hour
  <2> QED BY <1>1, <1>3, <2>1
<1>7. scene' \in Scenes /\ calls' \in 0..MaxCalls[scene']
  BY <1>1, <1>2, <1>3, CallsCounted
<1>8. (L!SanctionsTypeOK /\ OrdersOK)'
  <2>1. CASE UNCHANGED sanctionVars
    BY <1>1, <1>2, <2>1 DEF sanctionVars, L!SanctionsTypeOK, OrdersOK, OrderOK
  <2> QED BY <1>1, <1>2, <1>4, <2>1, Frames, OrderStepTypes
<1>9. writing' \in [Callers -> Writes] /\ WritesOK'
  <2>1. writing \in [Callers -> Writes]
    BY <1>1 DEF ItemTypes
  <2>2. CASE UNCHANGED writing
    BY <1>1, <1>2, <1>5, <2>1, <2>2, CallsGrow
  <2> QED BY <1>1, <1>2, <2>2, Frames, WriteStepTypes, LevelStepTypes
<1>10. /\ reviewing' \in [Callers -> Reviews] /\ ReviewsOK'
       /\ records' \in Seq([by : Users, of : Nat, was : States, next : States])
  <2>1. CASE UNCHANGED <<records, reviewing>>
    BY <1>1, <1>2, <1>5, <2>1, CallsGrow DEF ItemTypes
  <2> QED BY <1>1, <1>2, <2>1, Frames, ModerationStepTypes
<1>11. LevelTypes'
  <2>1. CASE UNCHANGED levelVars
    BY <1>1, <2>1 DEF levelVars, LevelTypes
  <2> QED BY <1>1, <1>2, <2>1, Frames, LevelStepTypes
<1>12. SettingTypes'
  <2>1. CASE UNCHANGED <<follows, following, prefs>>
    BY <1>1, <2>1 DEF SettingTypes
  <2> QED BY <1>1, <1>4, <2>1, Frames, SettingStepTypes
<1>13. FlagTypes'
  <2>1. CASE UNCHANGED <<flagRow, flagCache, refreshing>>
    BY <1>1, <2>1 DEF FlagTypes
  <2> QED BY <1>1, <2>1, Frames, FlagStepTypes
<1>14. MailTypes' /\ MailsOK'
  <2>1. mailing \in [Callers -> Mails] /\ notices \in Seq(NoticeRows)
    BY <1>1 DEF MailTypes
  <2>2. N!Published \subseteq N!Published'
    BY <1>2, <1>5, PublishedGrows
  <2>3. CASE UNCHANGED <<mailing, notices>>
    BY <1>1, <2>1, <2>2, <2>3 DEF MailTypes, MailsOK
  <2>4. CASE N!NoticesWatch /\ UNCHANGED notices
    <3>1. /\ mailing' \in [Callers -> Mails]
          /\ \A c \in Callers : /\ mailing'[c].pc = mailing[c].pc
                                /\ mailing'[c].update = mailing[c].update
                                /\ mailing[c].pc = "idle" => mailing'[c] = mailing[c]
      BY <1>12, <1>13, <2>1, <2>4, WatchTypes
    <3> QED BY <1>1, <2>1, <2>2, <2>4, <3>1 DEF MailTypes, MailsOK
  <2> QED BY <1>1, <1>5, <2>3, <2>4, Frames, MailStepTypes
<1>15. FeedsOK' /\ DecisionsOK' /\ CircuitTypes'
  <2>1. CASE UNCHANGED <<feedVars, items, follows>>
    BY <1>1, <2>1 DEF feedVars, FeedsOK, FeedOK, DecisionsOK, CircuitTypes
  <2>2. CASE F!FeedsWatch
    <3>1. FeedsOK' /\ decisions' = decisions /\ circuit' = circuit
      BY <1>1, <1>2, <1>5, <2>2, FeedsWatched
    <3> QED BY <1>1, <3>1 DEF DecisionsOK, CircuitTypes
  <2>3. CASE F!FeedStep /\ UNCHANGED items
    BY <1>1, <1>4, <1>5, <2>3, FeedStepTypes
  <2> QED BY <2>1, <2>2, <2>3, Frames
<1>16. ItemTypes'
  BY <1>5, <1>9, <1>10 DEF ItemTypes
<1>17. TypeTable'
  BY <1>6, <1>7, <1>8, <1>9, <1>10, <1>11, <1>12, <1>13, <1>14, <1>15, <1>16 DEF TypeTable
<1>18. TypeInv' <=> TypeTable'
  BY TypeInvIs, PTL
<1> QED BY <1>17, <1>18

LEMMA TypeFirst == Init => TypeInv
<1> SUFFICES ASSUME Init PROVE TypeInv
  OBVIOUS
<1>1. scene \in Scenes /\ clock \in 1..LastHour /\ calls \in 0..MaxCalls[scene]
  <2>1. LastHour \in Nat \ {0} /\ scene \in Scenes /\ MaxCalls[scene] \in Nat
    BY CommunityAssumption DEF Init
  <2> QED BY <2>1 DEF Init
<1>2. L!SanctionsTypeOK /\ OrdersOK
  <2>1. L!Nothing \in [L!Columns -> Nat]
    BY DEF L!Nothing
  <2> QED BY <2>1 DEF Init, L!SanctionsInit, L!SanctionsTypeOK, OrdersOK, OrderOK, L!NoOrder
<1>3. items \in Seq(ItemRows)
  <2>1. items \in Seq([kind : {"post", "reply", "update", "comment", "report"}, by : Users,
                       of : Nat, text : Nat, kept : Nat, status : {"open", "active"}, fair : {TRUE}])
    BY <1>1, FirstItemsAssumption DEF Init, L!ContentInit
  <2>2. [kind : {"post", "reply", "update", "comment", "report"}, by : Users,
         of : Nat, text : Nat, kept : Nat, status : {"open", "active"}, fair : {TRUE}]
          \subseteq ItemRows
    BY DEF ItemRows, States, L!Statuses
  <2> QED BY <2>1, <2>2, SeqMonotonic
<1>4. ItemTypes /\ WritesOK /\ ReviewsOK
  <2>1. /\ writing = [c \in Callers |-> L!NoWrite] /\ reviewing = [c \in Callers |-> L!NoReview]
        /\ records = <<>>
    BY DEF Init, L!ContentInit
  <2> QED BY <1>3, <2>1, NoWriteIs, NoReviewIs DEF ItemTypes, WritesOK, ReviewsOK
<1>5. LevelTypes
  BY DEF Init, L!LevelsInit, LevelTypes, L!NoProgress
<1>6. SettingTypes
  <2> DEFINE x(u) == [N!NoFollow EXCEPT !.on = u \in Followers]
  <2>1. \A u : x(u) \in FollowRows
    <3>1. \A b \in BOOLEAN : [N!NoFollow EXCEPT !.on = b] \in FollowRows
      BY DEF N!NoFollow, N!Urgencies, FollowRows
    <3>2. \A u : (u \in Followers) \in BOOLEAN
      OBVIOUS
    <3> QED BY Zenon, <3>1, <3>2
  <2>2. /\ follows = [u \in Users |-> x(u)] /\ prefs = [u \in Users |-> N!FirstPrefs]
        /\ following = [c \in Callers |-> NoUser]
    BY DEF Init, N!NoticesInit
  <2>3. N!FirstPrefs \in N!Prefs
    BY DEF N!FirstPrefs, N!Prefs
  <2> HIDE DEF x
  <2> QED BY <2>1, <2>2, <2>3 DEF SettingTypes
<1>7. FlagTypes
  BY DEF Init, N!NoticesInit, FlagTypes
<1>8. MailTypes /\ MailsOK
  BY NoMailIs DEF Init, N!NoticesInit, MailTypes, MailsOK
<1>9. FeedsOK /\ DecisionsOK /\ CircuitTypes
  BY NoFeedIs DEF Init, F!FeedInit, FeedsOK, DecisionsOK, CircuitTypes, F!Unscored
<1> QED BY <1>1, <1>2, <1>4, <1>5, <1>6, <1>7, <1>8, <1>9, TypeInvIs DEF TypeTable

THEOREM TypeInvCorrect == Spec => []TypeInv
<1>1. Init => TypeInv
  BY TypeFirst
<1>2. TypeInv /\ [Next]_vars => TypeInv'
  BY TypeStep
<1> QED BY <1>1, <1>2, PTL DEF Spec

\* Every variable of the community keeps its type: the bars, trail and calls of
\* sanctions, content and its calls, levels, notices and their settings, and
\* the feed with its decisions and its circuit.
THEOREM TypeCorrect == Spec => []TypeOK
<1>1. TypeInv => TypeOK
  BY DEF TypeInv
<1> QED BY <1>1, TypeInvCorrect, PTL

-------------------------------------------------------------------------------
(* Sanctions and their trail.                                              *)

TrailRows == [to : Users, kind : L!Columns \cup {"clear"}, was : Nat, next : Nat]
Orders == [pc : {"idle", "impose", "record"}, to : Users \cup {NoUser},
           kind : {"none", "warn", "mute", "suspend", "restrict", "clear"},
           for : [L!Columns -> Nat], was : [L!Columns -> Nat], todo : Seq(TrailRows)]

\* What was first of several bars is what the code says of them.
LEMMA SaidFirstIs ==
  ASSUME NEW u, NEW n
  PROVE  SaidFirst(u, n) = L!Or(Said(u, "suspend", n), L!Or(Said(u, "mute", n),
                             L!Or(Said(u, "posting", n), Said(u, "commenting", n))))
<1> DEFINE bars == <<"suspend", "mute", "posting", "commenting">>
           say(k) == Said(u, k, n)
           set == {i \in 1..4 : say(bars[i]) # 0}
<1>1. SaidFirst(u, n) = IF set = {} THEN 0 ELSE say(bars[Min(set)])
  BY DEF SaidFirst
<1>2. /\ bars[1] = "suspend" /\ bars[2] = "mute" /\ bars[3] = "posting" /\ bars[4] = "commenting"
  OBVIOUS
<1>3. set \subseteq Int
  OBVIOUS
<1> HIDE DEF say
<1>4. CASE say("suspend") # 0
  <2>1. 1 \in set /\ \A y \in set : 1 <= y
    BY <1>2, <1>4
  <2>2. Min(set) = 1
    <3> HIDE DEF set
    <3> QED BY <1>3, <2>1, MinIs
  <2> QED BY <1>1, <1>2, <1>4, <2>1, <2>2 DEF L!Or, say
<1>5. CASE say("suspend") = 0 /\ say("mute") # 0
  <2>1. 2 \in set /\ \A y \in set : 2 <= y
    BY <1>2, <1>5
  <2>2. Min(set) = 2
    <3> HIDE DEF set
    <3> QED BY <1>3, <2>1, MinIs
  <2> QED BY <1>1, <1>2, <1>5, <2>1, <2>2 DEF L!Or, say
<1>6. CASE say("suspend") = 0 /\ say("mute") = 0 /\ say("posting") # 0
  <2>1. 3 \in set /\ \A y \in set : 3 <= y
    BY <1>2, <1>6
  <2>2. Min(set) = 3
    <3> HIDE DEF set
    <3> QED BY <1>3, <2>1, MinIs
  <2> QED BY <1>1, <1>2, <1>6, <2>1, <2>2 DEF L!Or, say
<1>7. CASE say("suspend") = 0 /\ say("mute") = 0 /\ say("posting") = 0 /\ say("commenting") # 0
  <2>1. 4 \in set /\ \A y \in set : 4 <= y
    BY <1>2, <1>7
  <2>2. Min(set) = 4
    <3> HIDE DEF set
    <3> QED BY <1>3, <2>1, MinIs
  <2> QED BY <1>1, <1>2, <1>7, <2>1, <2>2 DEF L!Or, say
<1>8. CASE say("suspend") = 0 /\ say("mute") = 0 /\ say("posting") = 0 /\ say("commenting") = 0
  <2>1. set = {}
    BY <1>2, <1>8
  <2> QED BY <1>1, <1>8, <2>1 DEF L!Or, say
<1> QED BY <1>4, <1>5, <1>6, <1>7, <1>8

\* A new row says what it says about its user, and nothing else changes.
LEMMA SaidGoesOn ==
  ASSUME trail \in Seq(TrailRows), NEW e \in TrailRows, trail' = Append(trail, e), NEW u, NEW k
  PROVE  /\ \A n \in 0..Len(trail) : Said(u, k, n)' = Said(u, k, n)
         /\ Now(u, k)' = IF e.to = u /\ Concerns(e, k) THEN e.next ELSE Now(u, k)
<1> DEFINE about(n) == {i \in 1..n : trail[i].to = u /\ (trail[i].kind = k \/ (trail[i].kind = "clear" /\ k # "warned"))}
           about2(n) == {i \in 1..n : trail'[i].to = u /\ (trail'[i].kind = k \/ (trail'[i].kind = "clear" /\ k # "warned"))}
<1> PICK m \in Nat : m = Len(trail)
  <2> HIDE DEF TrailRows
  <2> QED OBVIOUS
<1>1. Len(trail') = m + 1 /\ trail'[m + 1] = e /\ \A i \in 1..m : trail'[i] = trail[i]
  <2> HIDE DEF TrailRows
  <2> QED OBVIOUS
<1>2. \A n : Said(u, k, n) = IF about(n) = {} THEN 0 ELSE trail[Max(about(n))].next
  BY DEF Said
<1>3. \A n : Said(u, k, n)' = IF about2(n) = {} THEN 0 ELSE trail'[Max(about2(n))].next
  BY DEF Said
<1>4. ASSUME NEW n \in 0..m
      PROVE  about2(n) = about(n) /\ (about(n) # {} => Max(about(n)) \in 1..m)
  <2>1. about2(n) = about(n)
    BY <1>1
  <2>2. about(n) \subseteq 0..n /\ about(n) \subseteq 1..m /\ n \in Nat
    OBVIOUS
  <2> HIDE DEF about
  <2> QED BY <2>1, <2>2, MaxExists
<1>5. ASSUME NEW n \in 0..m PROVE Said(u, k, n)' = Said(u, k, n)
  <2> HIDE DEF about, about2
  <2> QED BY <1>1, <1>2, <1>3, <1>4
<1>6. Now(u, k) = Said(u, k, m)
  BY DEF Now
<1>7. Now(u, k)' = IF about2(m + 1) = {} THEN 0 ELSE trail'[Max(about2(m + 1))].next
  <2>1. Now(u, k)' = IF about2(Len(trail')) = {} THEN 0 ELSE trail'[Max(about2(Len(trail')))].next
    BY DEF Now, Said
  <2> HIDE DEF about2
  <2> QED BY <1>1, <2>1
<1>8. CASE e.to = u /\ Concerns(e, k)
  <2>1. m + 1 \in about2(m + 1) /\ about2(m + 1) \subseteq Int /\ \A y \in about2(m + 1) : m + 1 >= y
    BY <1>1, <1>8 DEF Concerns
  <2> HIDE DEF about2
  <2>2. Max(about2(m + 1)) = m + 1
    BY <2>1, MaxIs
  <2> QED BY <1>1, <1>5, <1>7, <1>8, <2>1, <2>2
<1>9. CASE ~(e.to = u /\ Concerns(e, k))
  <2>1. about2(m + 1) = about2(m)
    BY <1>1, <1>9 DEF Concerns
  <2>2. m \in 0..m
    OBVIOUS
  <2>3. Said(u, k, m)' = IF about2(m) = {} THEN 0 ELSE trail'[Max(about2(m))].next
    BY <1>3
  <2>4. Said(u, k, m)' = Said(u, k, m)
    BY <1>5, <2>2
  <2> HIDE DEF about, about2
  <2>5. Now(u, k)' = Now(u, k)
    BY <1>6, <1>7, <2>1, <2>3, <2>4
  <2> QED BY <1>5, <1>9, <2>5
<1> QED BY <1>8, <1>9

\* A new row that says what was, of its user, keeps the trail in a chain.
LEMMA TrailGrows ==
  ASSUME trail \in Seq(TrailRows), NEW e \in TrailRows, trail' = Append(trail, e), NEW u,
         Chained(u), e.to = u => e.was = WasNow(u, e.kind)
  PROVE  /\ Chained(u)'
         /\ Cardinality(Warnings(u)) \in Nat
         /\ Cardinality(Warnings(u)') =
              Cardinality(Warnings(u)) + IF e.to = u /\ e.kind = "warned" THEN 1 ELSE 0
         /\ e.to # u => \A kind : WasNow(u, kind)' = WasNow(u, kind)
<1> PICK m \in Nat : m = Len(trail)
  <2> HIDE DEF TrailRows
  <2> QED OBVIOUS
<1>1. Len(trail') = m + 1 /\ trail'[m + 1] = e /\ \A i \in 1..m : trail'[i] = trail[i]
  <2> HIDE DEF TrailRows
  <2> QED OBVIOUS
<1>2. \A n \in 0..m : \A k : Said(u, k, n)' = Said(u, k, n)
  BY SaidGoesOn
<1>3. \A n \in 0..m : SaidFirst(u, n)' = SaidFirst(u, n)
  BY <1>2 DEF SaidFirst
<1>4. \A n \in 0..m : \A kind : Was(u, kind, n)' = Was(u, kind, n)
  BY <1>2, <1>3 DEF Was
<1>5. Chained(u)'
  <2> SUFFICES ASSUME NEW i \in 1..m + 1, trail'[i].to = u, NEW kind, trail'[i].kind = kind
               PROVE  trail'[i].was = Was(u, kind, i - 1)'
    BY <1>1 DEF Chained
  <2>1. CASE i = m + 1
    <3>1. trail'[i] = e /\ i - 1 = m /\ m \in 0..m
      BY <1>1, <2>1
    <3>2. e.was = Was(u, kind, m)
      BY <3>1 DEF WasNow
    <3> QED BY <1>4, <3>1, <3>2
  <2>2. CASE i \in 1..m
    <3>1. trail'[i] = trail[i] /\ i - 1 \in 0..m
      BY <1>1, <2>2
    <3>2. trail[i].was = Was(u, kind, i - 1)
      BY <2>2, <3>1 DEF Chained
    <3> QED BY <1>4, <3>1, <3>2
  <2> QED BY <2>1, <2>2
<1>6. /\ Cardinality(Warnings(u)) \in Nat
      /\ Cardinality(Warnings(u)') =
           Cardinality(Warnings(u)) + IF e.to = u /\ e.kind = "warned" THEN 1 ELSE 0
  <2>1. Warnings(u) \subseteq 1..m /\ IsFiniteSet(1..m)
    <3>1. IsFiniteSet(1..m)
      BY FS_Interval
    <3> QED BY <3>1 DEF Warnings
  <2>2. IsFiniteSet(Warnings(u)) /\ Cardinality(Warnings(u)) \in Nat
    BY <2>1, FS_Subset, FS_CardinalityType
  <2>3. Warnings(u)' = {i \in 1..m + 1 : trail'[i].to = u /\ trail'[i].kind = "warned"}
    BY <1>1 DEF Warnings
  <2>4. CASE e.to = u /\ e.kind = "warned"
    <3>1. Warnings(u)' = Warnings(u) \cup {m + 1} /\ m + 1 \notin Warnings(u)
      BY <1>1, <2>3, <2>4 DEF Warnings
    <3>2. Cardinality(Warnings(u) \cup {m + 1}) = Cardinality(Warnings(u)) + 1
      BY <2>2, <3>1, FS_AddElement
    <3> QED BY <2>2, <2>4, <3>1, <3>2
  <2>5. CASE ~(e.to = u /\ e.kind = "warned")
    <3>1. Warnings(u)' = Warnings(u)
      BY <1>1, <2>3, <2>5 DEF Warnings
    <3> QED BY <2>2, <2>5, <3>1
  <2> QED BY <2>4, <2>5
<1>7. ASSUME e.to # u PROVE \A kind : WasNow(u, kind)' = WasNow(u, kind)
  <2>1. \A k : Now(u, k)' = Now(u, k)
    BY <1>7, SaidGoesOn
  <2>2. \A k : Said(u, k, Len(trail))' = Said(u, k, Len(trail))
    BY <2>1 DEF Now
  <2>3. SaidFirst(u, Len(trail))' = SaidFirst(u, Len(trail))
    BY <2>2 DEF SaidFirst
  <2> QED BY <2>2, <2>3 DEF WasNow, Was
<1> QED BY <1>5, <1>6, <1>7

\* Where the trail is as it was, it says what it said.
LEMMA TrailStays ==
  ASSUME UNCHANGED trail, NEW u
  PROVE  /\ Chained(u) => Chained(u)'
         /\ Warnings(u)' = Warnings(u)
         /\ \A k : Now(u, k)' = Now(u, k)
         /\ \A kind : WasNow(u, kind)' = WasNow(u, kind)
<1>1. \A n, k : Said(u, k, n)' = Said(u, k, n)
  BY DEF Said
<1>2. \A n : SaidFirst(u, n)' = SaidFirst(u, n)
  BY <1>1 DEF SaidFirst
<1>3. \A n, kind : Was(u, kind, n)' = Was(u, kind, n)
  BY <1>1, <1>2 DEF Was
<1>4. Chained(u) => Chained(u)'
  BY <1>3 DEF Chained
<1>5. Warnings(u)' = Warnings(u)
  BY DEF Warnings
<1>6. \A k : Now(u, k)' = Now(u, k)
  BY <1>1 DEF Now
<1>7. \A kind : WasNow(u, kind)' = WasNow(u, kind)
  BY <1>3 DEF WasNow
<1> QED BY <1>4, <1>5, <1>6, <1>7

\* What a call has imposed is what it has still to file.
LEMMA OwedImposed ==
  ASSUME TypeInv, "single_restriction" \notin scene,
         NEW o \in Orders, OrderOK(o), o.pc = "impose", o.was = until[o.to], Settled(o.to),
         NEW p, p = [o EXCEPT !.pc = "record", !.todo = L!Entries(o)],
         UNCHANGED trail, until' = [until EXCEPT ![o.to] = [k \in L!Columns |-> L!Ends(o, k)]],
         warnings' = IF o.kind = "warn" THEN [warnings EXCEPT ![o.to] = @ + 1] ELSE warnings
  PROVE  Owed(p)'
<1> PICK u \in Users : u = o.to
  BY DEF OrderOK
<1>1. /\ until \in [Users -> [L!Columns -> Nat]] /\ warnings \in [Users -> Nat]
      /\ clock \in Nat /\ clock \in 1..LastHour
  BY DEF TypeInv, TypeOK, L!SanctionsTypeOK
<1>2. /\ o.kind \in {"warn", "mute", "suspend", "restrict", "clear"} /\ o.for \in [L!Columns -> Nat]
      /\ o.was = until[u]
  BY DEF Orders, OrderOK
<1>3. /\ p.to = u /\ p.todo = L!Entries(o)
  BY DEF Orders
<1>4. Chained(u) /\ warnings[u] = Cardinality(Warnings(u))
  BY DEF Settled
<1>5. \A k \in L!Columns : until[u][k] = Now(u, k)
  BY DEF Settled
<1>6. Chained(u)' /\ Warnings(u)' = Warnings(u)
  BY <1>4, TrailStays
<1>7. \A k : Now(u, k)' = Now(u, k)
  BY TrailStays
<1>8. \A kind : WasNow(u, kind)' = WasNow(u, kind)
  BY TrailStays
<1>9. \A k \in L!Columns : WasNow(u, k) = until[u][k]
  BY <1>5 DEF WasNow, Was, Now, L!Columns, L!Bars
<1>10. WasNow(u, "clear") = L!FirstBar(until[u])
  <2>1. WasNow(u, "clear") = SaidFirst(u, Len(trail))
    BY DEF WasNow, Was
  <2>2. \A k \in L!Columns : Said(u, k, Len(trail)) = until[u][k]
    BY <1>5 DEF Now
  <2> QED BY <2>1, <2>2, SaidFirstIs DEF L!FirstBar, L!Columns, L!Bars
<1>11. until'[u] = [k \in L!Columns |-> L!Ends(o, k)]
  BY <1>1
<1>12. \A k \in L!Columns : until'[u][k] = L!Ends(o, k)
  BY <1>11
<1>13. \A k \in L!Columns : k \notin L!Written(o.kind) => L!Ends(o, k) = Now(u, k)
  BY <1>5 DEF L!Ends
<1>14. warnings'[u] = Cardinality(Warnings(u)) + IF o.kind = "warn" THEN 1 ELSE 0
  BY <1>1, <1>4
<1> DEFINE Filing(k) == [to |-> u, kind |-> k, was |-> until[u][k], next |-> L!Ends(o, k)]
<1>15. \A k : L!Entry(o, k) = Filing(k)
  BY <1>2 DEF L!Entry
<1> DEFINE todo == p.todo
<1> DEFINE Left ==
     /\ Len(todo) = 1 \/ (Len(todo) = 2 /\ todo[1].kind = "posting" /\ todo[2].kind = "commenting")
     /\ \A i \in 1..Len(todo) : LET e == todo[i] IN
          /\ e.to = u /\ e.was = WasNow(u, e.kind)
          /\ e.kind = "clear" => e.next = 0
          /\ \A k \in L!Columns : Concerns(e, k) => L!Ends(o, k) = e.next
     /\ \A k \in L!Columns :
          (\A i \in 1..Len(todo) : ~Concerns(todo[i], k)) => L!Ends(o, k) = Now(u, k)
     /\ todo[1].kind = "warned" <=> o.kind = "warn"
<1>16. Left
  <2>1. CASE o.kind = "clear"
    <3> DEFINE e == [to |-> u, kind |-> "clear", was |-> L!FirstBar(until[u]), next |-> 0]
    <3>1. todo = <<e>>
      BY <1>2, <1>3, <2>1 DEF L!Entries
    <3>2. \A k \in L!Columns : Concerns(e, k) => L!Ends(o, k) = 0
      BY <2>1 DEF Concerns, L!Ends, L!Written, L!Lifted, L!Columns, OrderOK, L!Nothing
    <3>3. \A k \in L!Columns : ~Concerns(e, k) => L!Ends(o, k) = Now(u, k)
      BY <1>13, <2>1 DEF Concerns, L!Written, L!Lifted, L!Columns, L!Bars
    <3>4. e.was = WasNow(u, e.kind) /\ e.kind = "clear" /\ e.to = u /\ e.next = 0
      BY <1>10
    <3>5. Len(todo) = 1 /\ todo[1] = e /\ 1..Len(todo) = {1}
      <4> HIDE DEF e, todo
      <4> QED BY <3>1
    <3> HIDE DEF e, todo
    <3> QED BY <2>1, <3>2, <3>3, <3>4, <3>5
  <2>2. ASSUME NEW K \in L!Columns, todo = <<L!Entry(o, K)>>, L!Written(o.kind) = {K},
               K = "warned" <=> o.kind = "warn"
        PROVE  Left
    <3> DEFINE e == Filing(K)
    <3>1. \A k \in L!Columns : Concerns(e, k) <=> k = K
      BY DEF Concerns, L!Columns, L!Bars
    <3>2. \A k \in L!Columns : k # K => L!Ends(o, k) = Now(u, k)
      BY <1>13, <2>2
    <3>3. e.was = WasNow(u, e.kind) /\ e.kind = K /\ e.kind # "clear" /\ e.to = u /\ e.next = L!Ends(o, K)
      BY <1>9 DEF L!Columns, L!Bars
    <3>4. Len(todo) = 1 /\ todo[1] = e /\ 1..Len(todo) = {1}
      <4>1. todo = <<e>>
        BY <1>15, <2>2
      <4> HIDE DEF e, todo
      <4> QED BY <4>1
    <3> HIDE DEF e, todo
    <3> QED BY <2>2, <3>1, <3>2, <3>3, <3>4
  <2>3. CASE o.kind \in {"warn", "mute", "suspend"}
    <3> DEFINE K == IF o.kind = "warn" THEN "warned" ELSE o.kind
    <3>1. K \in L!Columns /\ todo = <<L!Entry(o, K)>> /\ L!Written(o.kind) = {K}
          /\ (K = "warned" <=> o.kind = "warn")
      BY <1>3, <2>3 DEF L!Columns, L!Bars, L!Entries, L!Written
    <3> HIDE DEF K, Left
    <3> QED BY <2>2, <3>1
  <2>4. CASE o.kind = "restrict"
    <3> DEFINE e == Filing("posting")
               f == Filing("commenting")
    <3>1. o.for["posting"] # 0 /\ o.for["commenting"] # 0
      BY <2>4 DEF OrderOK
    <3>2. todo = <<L!Entry(o, "posting")>> \o <<L!Entry(o, "commenting")>>
      BY <1>3, <2>4, <3>1 DEF L!Entries
    <3>3. todo = <<e, f>>
      BY <1>15, <3>2
    <3>4. /\ \A k \in L!Columns : Concerns(e, k) <=> k = "posting"
          /\ \A k \in L!Columns : Concerns(f, k) <=> k = "commenting"
      BY DEF Concerns, L!Columns, L!Bars
    <3>5. \A k \in L!Columns : k \notin {"posting", "commenting"} => L!Ends(o, k) = Now(u, k)
      BY <1>13, <2>4 DEF L!Written
    <3>6. /\ e.was = WasNow(u, e.kind) /\ e.kind = "posting" /\ e.to = u /\ e.next = L!Ends(o, "posting")
          /\ f.was = WasNow(u, f.kind) /\ f.kind = "commenting" /\ f.to = u
          /\ f.next = L!Ends(o, "commenting")
      BY <1>9 DEF L!Columns, L!Bars
    <3>7. Len(todo) = 2 /\ todo[1] = e /\ todo[2] = f /\ 1..Len(todo) = {1, 2}
      <4> HIDE DEF e, f, todo
      <4> QED BY <3>3
    <3> HIDE DEF e, f, todo
    <3> QED BY <2>4, <3>4, <3>5, <3>6, <3>7
  <2> QED BY <1>2, <2>1, <2>3, <2>4
<1>17. \A i \in 1..Len(todo) : \A kind : WasNow(u, kind)' = WasNow(u, kind)
  BY <1>8
<1> HIDE DEF todo, Filing
<1>18. Left /\ todo = p.todo
  BY <1>16 DEF todo
<1> HIDE DEF Left
<1> SUFFICES /\ Chained(u)'
             /\ Len(p.todo) = 1 \/ (Len(p.todo) = 2 /\ p.todo[1].kind = "posting"
                                                     /\ p.todo[2].kind = "commenting")
             /\ \A i \in 1..Len(p.todo) :
                  /\ p.todo[i].to = u /\ \A kind : p.todo[i].kind = kind => p.todo[i].was = WasNow(u, kind)'
                  /\ p.todo[i].kind = "clear" => p.todo[i].next = 0
                  /\ \A k \in L!Columns : Concerns(p.todo[i], k) => until'[u][k] = p.todo[i].next
             /\ \A k \in L!Columns :
                  (\A i \in 1..Len(p.todo) : ~Concerns(p.todo[i], k)) => until'[u][k] = Now(u, k)'
             /\ warnings'[u] = Cardinality(Warnings(u)') + IF p.todo[1].kind = "warned" THEN 1 ELSE 0
  BY <1>3 DEF Owed, Concerns
<1> QED BY <1>6, <1>7, <1>8, <1>12, <1>14, <1>18 DEF Left

\* What a call files settles its target, or leaves what is still to be filed.
LEMMA OwedFiled ==
  ASSUME TypeInv, NEW o \in Orders, OrderOK(o), o.pc = "record", Owed(o),
         trail' = Append(trail, Head(o.todo)), UNCHANGED <<until, warnings>>
  PROVE  /\ Head(o.todo) \in TrailRows /\ Head(o.todo).to = o.to
         /\ Len(o.todo) = 1 => Settled(o.to)'
         /\ \A p : Len(o.todo) # 1 /\ p = [o EXCEPT !.todo = Tail(@)] => Owed(p)'
<1> PICK u \in Users : u = o.to
  BY DEF OrderOK
<1>1. trail \in Seq(TrailRows) /\ o.todo \in Seq(TrailRows) /\ o.todo # <<>>
  BY DEF TypeInv, TypeOK, L!SanctionsTypeOK, TrailRows, Orders, OrderOK
<1> PICK e : e = Head(o.todo)
  OBVIOUS
<1>2. e \in TrailRows /\ e = o.todo[1] /\ Len(o.todo) \in Nat \ {0}
  <2> HIDE DEF TrailRows
  <2> QED BY <1>1, TailIsLeft
<1>3. Chained(u) /\ (Len(o.todo) = 1 \/ Len(o.todo) = 2)
  BY DEF Owed
<1>4. \A i \in 1..Len(o.todo) :
        /\ o.todo[i].to = u /\ o.todo[i].was = WasNow(u, o.todo[i].kind)
        /\ o.todo[i].kind = "clear" => o.todo[i].next = 0
        /\ \A k \in L!Columns : Concerns(o.todo[i], k) => until[u][k] = o.todo[i].next
  BY DEF Owed
<1>5. \A k \in L!Columns :
        (\A i \in 1..Len(o.todo) : ~Concerns(o.todo[i], k)) => until[u][k] = Now(u, k)
  BY DEF Owed
<1>6. warnings[u] = Cardinality(Warnings(u)) + IF e.kind = "warned" THEN 1 ELSE 0
  BY <1>2 DEF Owed
<1>7. e.to = u /\ e.was = WasNow(u, e.kind) /\ \A k \in L!Columns : Concerns(e, k) => until[u][k] = e.next
  BY <1>2, <1>3, <1>4
<1>8. \A k : Now(u, k)' = IF Concerns(e, k) THEN e.next ELSE Now(u, k)
  BY <1>1, <1>2, <1>7, SaidGoesOn
<1>9. /\ Chained(u)'
      /\ Cardinality(Warnings(u)') = Cardinality(Warnings(u)) + IF e.kind = "warned" THEN 1 ELSE 0
  BY <1>1, <1>2, <1>3, <1>7, TrailGrows
<1>10. warnings'[u] = Cardinality(Warnings(u)')
  BY <1>6, <1>9
<1>11. ASSUME Len(o.todo) = 1 PROVE Settled(u)'
  <2>1. \A k \in L!Columns : ~Concerns(e, k) => until[u][k] = Now(u, k)
    BY <1>2, <1>5, <1>11
  <2>2. \A k \in L!Columns : until'[u][k] = Now(u, k)'
    BY <1>7, <1>8, <2>1
  <2> QED BY <1>9, <1>10, <2>2 DEF Settled
<1>12. ASSUME NEW p, Len(o.todo) # 1, p = [o EXCEPT !.todo = Tail(@)] PROVE Owed(p)'
  <2>1. Len(o.todo) = 2 /\ o.todo[1].kind = "posting" /\ o.todo[2].kind = "commenting"
    BY <1>12 DEF Owed
  <2> PICK f : f = o.todo[2]
    OBVIOUS
  <2>2. p.to = u /\ p.todo = Tail(o.todo)
    BY <1>12 DEF Orders
  <2>3. Len(p.todo) = 1 /\ p.todo[1] = f
    <3> HIDE DEF TrailRows
    <3>1. Len(Tail(o.todo)) = Len(o.todo) - 1 /\ \A i \in 1..Len(o.todo) - 1 : Tail(o.todo)[i] = o.todo[i + 1]
      BY <1>1, TailIsLeft
    <3> QED BY <2>1, <2>2, <3>1
  <2>4. f.to = u /\ f.was = WasNow(u, "commenting") /\ f.kind = "commenting" /\ e.kind = "posting"
        /\ \A k \in L!Columns : Concerns(f, k) => until[u][k] = f.next
    BY <1>2, <1>4, <2>1
  <2>5. WasNow(u, "commenting")' = WasNow(u, "commenting")
    <3>1. Now(u, "commenting")' = Now(u, "commenting")
      BY <1>8, <2>4 DEF Concerns
    <3> QED BY <3>1 DEF WasNow, Was, Now
  <2>6. \A k \in L!Columns : ~Concerns(f, k) => until[u][k] = Now(u, k)'
    <3> TAKE k \in L!Columns
    <3>1. CASE Concerns(e, k)
      BY <1>7, <1>8, <3>1
    <3>2. CASE ~Concerns(e, k) /\ ~Concerns(f, k)
      <4>1. \A i \in 1..Len(o.todo) : ~Concerns(o.todo[i], k)
        BY <1>2, <2>1, <3>2
      <4> QED BY <1>5, <1>8, <3>2, <4>1
    <3> QED BY <3>1, <3>2
  <2>7. warnings'[u] = Cardinality(Warnings(u)') + IF f.kind = "warned" THEN 1 ELSE 0
    <3>1. Cardinality(Warnings(u)) \in Nat
      BY <1>1, <1>2, <1>3, <1>7, TrailGrows
    <3>2. Cardinality(Warnings(u)') = Cardinality(Warnings(u))
      BY <1>9, <2>4, <3>1
    <3> QED BY <1>6, <2>4, <3>1, <3>2
  <2> SUFFICES /\ Chained(u)'
               /\ Len(p.todo) = 1
               /\ \A i \in 1..Len(p.todo) :
                    /\ p.todo[i].to = u
                    /\ \A kind : p.todo[i].kind = kind => p.todo[i].was = WasNow(u, kind)'
                    /\ p.todo[i].kind = "clear" => p.todo[i].next = 0
                    /\ \A k \in L!Columns : Concerns(p.todo[i], k) => until'[u][k] = p.todo[i].next
               /\ \A k \in L!Columns :
                    (\A i \in 1..Len(p.todo) : ~Concerns(p.todo[i], k)) => until'[u][k] = Now(u, k)'
               /\ warnings'[u] = Cardinality(Warnings(u)') + IF p.todo[1].kind = "warned" THEN 1 ELSE 0
    BY <2>2 DEF Owed, Concerns
  <2> QED BY <1>9, <2>3, <2>4, <2>5, <2>6, <2>7
<1> QED BY <1>2, <1>7, <1>11, <1>12

\* What happens to others leaves a user, and what is owed about him, alone.
LEMMA Apart ==
  ASSUME TypeInv, NEW u \in Users, until'[u] = until[u], warnings'[u] = warnings[u],
         UNCHANGED trail \/ \E e \in TrailRows : e.to # u /\ trail' = Append(trail, e)
  PROVE  /\ Settled(u) => Settled(u)'
         /\ \A o \in Orders : o.to = u /\ Owed(o) => Owed(o)'
<1>1. trail \in Seq(TrailRows)
  BY DEF TypeInv, TypeOK, L!SanctionsTypeOK, TrailRows
<1>2. ASSUME Chained(u)
      PROVE  /\ Chained(u)' /\ Cardinality(Warnings(u)') = Cardinality(Warnings(u))
             /\ \A k : Now(u, k)' = Now(u, k)
             /\ \A kind : WasNow(u, kind)' = WasNow(u, kind)
  <2>1. CASE UNCHANGED trail
    BY <1>2, <2>1, TrailStays
  <2>2. CASE \E e \in TrailRows : e.to # u /\ trail' = Append(trail, e)
    <3> PICK e \in TrailRows : e.to # u /\ trail' = Append(trail, e)
      BY <2>2
    <3>1. \A k : Now(u, k)' = Now(u, k)
      BY <1>1, SaidGoesOn
    <3>2. /\ Chained(u)' /\ Cardinality(Warnings(u)) \in Nat
          /\ Cardinality(Warnings(u)') = Cardinality(Warnings(u)) + IF e.to = u /\ e.kind = "warned" THEN 1 ELSE 0
          /\ \A kind : WasNow(u, kind)' = WasNow(u, kind)
      BY <1>1, <1>2, TrailGrows
    <3>3. Cardinality(Warnings(u)') = Cardinality(Warnings(u))
      BY <3>2
    <3> QED BY <3>1, <3>2, <3>3
  <2> QED BY <2>1, <2>2
<1>3. Settled(u) => Settled(u)'
  BY <1>2 DEF Settled
<1>4. ASSUME NEW o \in Orders, o.to = u, Owed(o) PROVE Owed(o)'
  <2>1. Chained(u)
    BY <1>4 DEF Owed
  <2> SUFFICES /\ Chained(u)'
               /\ Len(o.todo) = 1 \/ (Len(o.todo) = 2 /\ o.todo[1].kind = "posting"
                                                       /\ o.todo[2].kind = "commenting")
               /\ \A i \in 1..Len(o.todo) :
                    /\ o.todo[i].to = u
                    /\ \A kind : o.todo[i].kind = kind => o.todo[i].was = WasNow(u, kind)'
                    /\ o.todo[i].kind = "clear" => o.todo[i].next = 0
                    /\ \A k \in L!Columns : Concerns(o.todo[i], k) => until'[u][k] = o.todo[i].next
               /\ \A k \in L!Columns :
                    (\A i \in 1..Len(o.todo) : ~Concerns(o.todo[i], k)) => until'[u][k] = Now(u, k)'
               /\ warnings'[u] = Cardinality(Warnings(u)') + IF o.todo[1].kind = "warned" THEN 1 ELSE 0
    BY <1>4 DEF Owed, Concerns
  <2> QED BY <1>2, <1>4, <2>1 DEF Owed
<1> QED BY <1>3, <1>4

\* Where calls neither overlap nor fail, nor restrict one thing only, every step
\* keeps what the trail says in line with the bars, and calls with what they owe.
LEMMA SanctionKept ==
  ASSUME TypeInv, SanctionInv, [Next]_vars
  PROVE  SanctionInv'
<1> DEFINE Mild == Without({"overlap_moderators", "record_error", "single_restriction"})
<1>1. UNCHANGED scene
  BY Frames
<1> SUFFICES ASSUME Mild
             PROVE  /\ \A c, d \in Callers :
                         sanctioning'[c].pc # "idle" /\ sanctioning'[c].to = sanctioning'[d].to => c = d
                    /\ \A u \in Users : (\A c \in Callers : sanctioning'[c].to # u) => Settled(u)'
                    /\ \A c \in Callers : \A o : o = sanctioning'[c] =>
                         /\ o.pc = "impose" => o.was = until'[o.to] /\ Settled(o.to)'
                         /\ o.pc = "record" => Owed(o)'
  BY <1>1 DEF SanctionInv, Without
<1>2. /\ \A c, d \in Callers :
           sanctioning[c].pc # "idle" /\ sanctioning[c].to = sanctioning[d].to => c = d
      /\ \A u \in Users : (\A c \in Callers : sanctioning[c].to # u) => Settled(u)
      /\ \A c \in Callers : \A o : o = sanctioning[c] =>
           /\ o.pc = "impose" => o.was = until[o.to] /\ Settled(o.to)
           /\ o.pc = "record" => Owed(o)
  BY DEF SanctionInv
<1>3. /\ {"overlap_moderators", "record_error", "single_restriction"} \cap scene = {}
      /\ NoUser \notin Users
  BY CommunityAssumption DEF Without
<1>4. /\ sanctioning \in [Callers -> Orders] /\ \A c \in Callers : OrderOK(sanctioning[c])
      /\ until \in [Users -> [L!Columns -> Nat]] /\ warnings \in [Users -> Nat]
  BY DEF TypeInv, TypeOK, L!SanctionsTypeOK, Orders, TrailRows, OrdersOK
<1>5. \A c \in Callers : /\ sanctioning[c].pc \in {"idle", "impose", "record"}
                         /\ sanctioning[c].pc # "idle" => sanctioning[c].to \in Users
                         /\ sanctioning[c].pc = "idle" => sanctioning[c].to = NoUser
  BY <1>4 DEF Orders, OrderOK, L!NoOrder
<1> HIDE DEF Mild
<1>6. CASE UNCHANGED sanctionVars
  <2>1. UNCHANGED <<until, warnings, trail, sanctioning>>
    BY <1>6 DEF sanctionVars
  <2>2. \A u \in Users : /\ Settled(u) => Settled(u)'
                         /\ \A o \in Orders : o.to = u /\ Owed(o) => Owed(o)'
    BY <2>1, Apart
  <2> QED BY <1>2, <1>4, <1>5, <2>1, <2>2
<1>7. ASSUME NEW c \in Callers, NEW u \in Users, NEW p, p = sanctioning'[c],
             \A d \in Callers : d # c => sanctioning'[d] = sanctioning[d] /\ sanctioning[d].to # u,
             p.to \in {u, NoUser}, p.pc # "idle" => p.to = u, p.pc = "idle" => p.to = NoUser,
             p.to = u => /\ p.pc = "impose" => p.was = until'[u] /\ Settled(u)'
                         /\ p.pc = "record" => Owed(p)',
             p.to = NoUser => p.pc = "idle" /\ Settled(u)',
             sanctioning[c].to \in {u, NoUser},
             \A v \in Users \ {u} : until'[v] = until[v] /\ warnings'[v] = warnings[v],
             UNCHANGED trail \/ \E e \in TrailRows : e.to = u /\ trail' = Append(trail, e)
      PROVE  /\ \A a, d \in Callers :
                  sanctioning'[a].pc # "idle" /\ sanctioning'[a].to = sanctioning'[d].to => a = d
             /\ \A v \in Users : (\A d \in Callers : sanctioning'[d].to # v) => Settled(v)'
             /\ \A d \in Callers : \A o : o = sanctioning'[d] =>
                  /\ o.pc = "impose" => o.was = until'[o.to] /\ Settled(o.to)'
                  /\ o.pc = "record" => Owed(o)'
  <2>1. \A v \in Users \ {u} : /\ Settled(v) => Settled(v)'
                               /\ \A o \in Orders : o.to = v /\ Owed(o) => Owed(o)'
    BY <1>7, Apart
  <2>2. \A a, d \in Callers :
          sanctioning'[a].pc # "idle" /\ sanctioning'[a].to = sanctioning'[d].to => a = d
    BY <1>2, <1>3, <1>5, <1>7
  <2>3. \A v \in Users : (\A d \in Callers : sanctioning'[d].to # v) => Settled(v)'
    <3> SUFFICES ASSUME NEW v \in Users, \A d \in Callers : sanctioning'[d].to # v
                 PROVE  Settled(v)'
      OBVIOUS
    <3>1. CASE v = u
      BY <1>7, <3>1
    <3>2. CASE v # u
      <4>1. \A d \in Callers : sanctioning[d].to # v
        BY <1>3, <1>7, <3>2
      <4> QED BY <1>2, <2>1, <3>2, <4>1
    <3> QED BY <3>1, <3>2
  <2>4. ASSUME NEW d \in Callers, NEW o, o = sanctioning'[d]
        PROVE  /\ o.pc = "impose" => o.was = until'[o.to] /\ Settled(o.to)'
               /\ o.pc = "record" => Owed(o)'
    <3>1. CASE d = c
      <4>1. o = p
        BY <1>7, <2>4, <3>1
      <4>2. CASE p.to = u
        BY <1>7, <4>1, <4>2
      <4>3. CASE p.to = NoUser
        BY <1>7, <4>1, <4>3
      <4> QED BY <1>7, <4>2, <4>3
    <3>2. CASE d # c
      <4>1. o = sanctioning[d] /\ o.to # u /\ o \in Orders
        BY <1>4, <1>7, <2>4, <3>2
      <4>2. o.pc # "idle" => o.to \in Users \ {u}
        BY <1>5, <4>1
      <4> QED BY <1>2, <1>7, <2>1, <4>1, <4>2
    <3> QED BY <3>1, <3>2
  <2> QED BY <2>2, <2>3, <2>4
<1>8. ASSUME L!SanctionStep, clock' = clock
      PROVE  /\ \A a, d \in Callers :
                  sanctioning'[a].pc # "idle" /\ sanctioning'[a].to = sanctioning'[d].to => a = d
             /\ \A v \in Users : (\A d \in Callers : sanctioning'[d].to # v) => Settled(v)'
             /\ \A d \in Callers : \A o : o = sanctioning'[d] =>
                  /\ o.pc = "impose" => o.was = until'[o.to] /\ Settled(o.to)'
                  /\ o.pc = "record" => Owed(o)'
  <2> PICK c \in Callers :
        \/ L!Impose(c) \/ L!Record(c) \/ L!OrderError(c)
        \/ \E by, u \in Users : \E o \in L!Orders(by) : L!Order(c, by, u, o[1], o[2])
    BY <1>8 DEF L!SanctionStep
  <2> PICK o : o = sanctioning[c]
    OBVIOUS
  <2>0. o \in Orders /\ OrderOK(o) /\ \A d \in Callers : d # c => sanctioning[d].to # o.to \/ o.pc = "idle"
    BY <1>2, <1>4
  <2>1. CASE \E by, u \in Users : \E x \in L!Orders(by) : L!Order(c, by, u, x[1], x[2])
    <3> PICK by \in Users, u \in Users : \E x \in L!Orders(by) : L!Order(c, by, u, x[1], x[2])
      BY <2>1
    <3> PICK x \in L!Orders(by) : L!Order(c, by, u, x[1], x[2])
      OBVIOUS
    <3> DEFINE p == [pc |-> "impose", to |-> u, kind |-> x[1], for |-> x[2], was |-> until[u], todo |-> <<>>]
    <3>1. sanctioning' = [sanctioning EXCEPT ![c] = p] /\ UNCHANGED <<until, warnings, trail>>
      BY DEF L!Order
    <3>2. sanctioning[c].pc = "idle" /\ \A d \in Callers : sanctioning[d].to # u
      BY <1>3 DEF L!Order, L!MayOrder
    <3>3. Settled(u)'
      BY <1>2, <3>1, <3>2, Apart
    <3>4. p.pc = "impose" /\ p.to = u /\ p.was = until[u]
      OBVIOUS
    <3> HIDE DEF p
    <3>5. p = sanctioning'[c] /\ \A d \in Callers : d # c => sanctioning'[d] = sanctioning[d]
      BY <1>4, <3>1
    <3> QED BY <1>3, <1>5, <1>7, <3>1, <3>2, <3>3, <3>4, <3>5
  <2>2. CASE L!Impose(c)
    <3> PICK p : p = [o EXCEPT !.pc = "record", !.todo = L!Entries(o)]
      OBVIOUS
    <3>1. o.pc = "impose" /\ o.was = until[o.to] /\ Settled(o.to) /\ o.to \in Users
      BY <1>2, <1>5, <2>2 DEF L!Impose
    <3>2. /\ sanctioning' = [sanctioning EXCEPT ![c] = p] /\ UNCHANGED trail
          /\ until' = [until EXCEPT ![o.to] = [k \in L!Columns |-> L!Ends(o, k)]]
          /\ warnings' = IF o.kind = "warn" THEN [warnings EXCEPT ![o.to] = @ + 1] ELSE warnings
      BY <2>2 DEF L!Impose
    <3>3. Owed(p)'
      <4>1. "single_restriction" \notin scene
        BY <1>3
      <4> QED BY <2>0, <3>1, <3>2, <4>1, OwedImposed
    <3>4. p.pc = "record" /\ p.to = o.to
      BY <2>0 DEF Orders
    <3>5. p = sanctioning'[c] /\ \A d \in Callers : d # c => sanctioning'[d] = sanctioning[d]
      BY <1>4, <3>2
    <3>6. \A v \in Users \ {o.to} : until'[v] = until[v] /\ warnings'[v] = warnings[v]
      BY <1>4, <3>2
    <3>7. p.to # NoUser /\ \A d \in Callers : d # c => sanctioning[d].to # o.to
      BY <1>3, <2>0, <3>1, <3>4
    <3>8. UNCHANGED trail /\ o.to \in Users /\ sanctioning[c].to = o.to
      BY <3>1, <3>2
    <3>9. /\ p.to = o.to => /\ (p.pc = "impose" => p.was = until'[o.to] /\ Settled(o.to)')
                           /\ (p.pc = "record" => Owed(p)')
          /\ p.to = NoUser => p.pc = "idle" /\ Settled(o.to)'
          /\ p.to \in {o.to, NoUser} /\ (p.pc # "idle" => p.to = o.to)
          /\ (p.pc = "idle" => p.to = NoUser)
      BY <3>3, <3>4, <3>7
    <3>10. /\ p = sanctioning'[c]
           /\ \A d \in Callers : d # c => sanctioning'[d] = sanctioning[d] /\ sanctioning[d].to # o.to
      BY <3>5, <3>7
    <3> QED BY <1>7, <3>6, <3>8, <3>9, <3>10
  <2>3. CASE L!Record(c)
    <3> DEFINE q == [o EXCEPT !.todo = Tail(@)]
               p == IF Len(o.todo) = 1 THEN L!NoOrder ELSE q
    <3>1. o.pc = "record" /\ Owed(o) /\ o.to \in Users
      BY <1>2, <1>5, <2>3 DEF L!Record
    <3>2. /\ sanctioning' = [sanctioning EXCEPT ![c] = p] /\ UNCHANGED <<until, warnings>>
          /\ trail' = Append(trail, Head(o.todo))
      BY <2>3 DEF L!Record
    <3>3. /\ Head(o.todo) \in TrailRows /\ Head(o.todo).to = o.to
          /\ Len(o.todo) = 1 => Settled(o.to)'
          /\ Len(o.todo) # 1 => Owed(q)'
      BY <2>0, <3>1, <3>2, OwedFiled
    <3>4. /\ Len(o.todo) = 1 => p = L!NoOrder /\ p.pc = "idle" /\ p.to = NoUser
          /\ Len(o.todo) # 1 => p = q /\ p.pc = "record" /\ p.to = o.to
      BY <2>0, <3>1 DEF Orders, L!NoOrder
    <3> HIDE DEF p, q
    <3>5. p = sanctioning'[c] /\ \A d \in Callers : d # c => sanctioning'[d] = sanctioning[d]
      BY <1>4, <3>2
    <3>6. UNCHANGED trail \/ \E e \in TrailRows : e.to = o.to /\ trail' = Append(trail, e)
      BY <3>2, <3>3
    <3>7. CASE Len(o.todo) = 1
      BY <1>3, <1>7, <2>0, <3>1, <3>2, <3>3, <3>4, <3>5, <3>6, <3>7
    <3>8. CASE Len(o.todo) # 1
      BY <1>3, <1>7, <2>0, <3>1, <3>2, <3>3, <3>4, <3>5, <3>6, <3>8
    <3> QED BY <3>7, <3>8
  <2>4. CASE L!OrderError(c)
    BY <1>3, <2>4 DEF L!OrderError
  <2> QED BY <2>1, <2>2, <2>3, <2>4
<1>9. UNCHANGED sanctionVars \/ (L!SanctionStep /\ clock' = clock)
  BY Frames
<1> QED BY <1>6, <1>8, <1>9

LEMMA SanctionFirst == Init => SanctionInv
<1> SUFFICES ASSUME Init PROVE SanctionInv
  OBVIOUS
<1>1. /\ until = [u \in Users |-> L!Nothing] /\ warnings = [u \in Users |-> 0]
      /\ trail = <<>> /\ sanctioning = [c \in Callers |-> L!NoOrder]
  BY DEF Init, L!SanctionsInit
<1>2. Len(trail) = 0 /\ 1..Len(trail) = {}
  BY <1>1
<1>3. \A c \in Callers : sanctioning[c].pc = "idle"
  BY <1>1 DEF L!NoOrder
<1>4. ASSUME NEW u \in Users PROVE Settled(u)
  <2>1. \A k : Now(u, k) = 0
    BY <1>2 DEF Now, Said
  <2>2. \A k \in L!Columns : until[u][k] = 0
    BY <1>1 DEF L!Nothing
  <2>3. Warnings(u) = {} /\ warnings[u] = 0
    BY <1>1, <1>2 DEF Warnings
  <2> QED BY <1>2, <2>1, <2>2, <2>3, FS_EmptySet DEF Settled, Chained
<1> QED BY <1>3, <1>4 DEF SanctionInv

LEMMA SanctionAlways == Spec => []SanctionInv
<1>1. TypeInv /\ SanctionInv /\ [Next]_vars => SanctionInv'
  BY SanctionKept
<1> QED BY <1>1, SanctionFirst, TypeInvCorrect, PTL DEF Spec

\* The trail of a user whom no call is about accounts for every bar he is under,
\* says of each entry what was before it, and has as many warnings as he was
\* given, unless calls about him overlap, fail half way or restrict one thing
\* only: however many moderators impose and file, in whatever order.
THEOREM SanctionsAgreeCorrect == Spec => []SanctionsAgree
<1>1. SanctionInv => SanctionsAgree
  <2> SUFFICES ASSUME SanctionInv, Without({"overlap_moderators", "record_error", "single_restriction"}),
                      NEW u \in Users, \A c \in Callers : sanctioning[c].to # u
               PROVE  /\ \A k \in L!Columns : until[u][k] = Said(u, k, Len(trail))
                      /\ \A i \in 1..Len(trail) : trail[i].to = u =>
                           trail[i].was = IF trail[i].kind = "clear" THEN SaidFirst(u, i - 1)
                                          ELSE Said(u, trail[i].kind, i - 1)
                      /\ warnings[u] = Cardinality({i \in 1..Len(trail) : trail[i].to = u
                                                                        /\ trail[i].kind = "warned"})
    BY DEF SanctionsAgree
  <2>1. Settled(u)
    BY DEF SanctionInv
  <2> QED BY <2>1 DEF Settled, Chained, Was, Now, Warnings
<1> QED BY <1>1, SanctionAlways, PTL

-------------------------------------------------------------------------------
(* Content: who writes, and under what.                                    *)

\* Nobody is barred from what he is about to write, once he was looked at.
LEMMA BarsWait ==
  ASSUME TypeInv, [Next]_vars, Without({"late_moderation"}), NEW c \in Callers,
         NEW u \in Users, writing[c].by = u
  PROVE  (L!MayPost(u) => L!MayPost(u)') /\ (L!MayComment(u) => L!MayComment(u)')
<1>1. until \in [Users -> [L!Columns -> Nat]] /\ clock \in Nat
  BY DEF TypeInv, TypeOK, L!SanctionsTypeOK
<1>2. clock' \in {clock, clock + 1}
  BY Frames
<1>3. until'[u] = until[u]
  <2>1. CASE UNCHANGED sanctionVars
    BY <2>1 DEF sanctionVars
  <2>2. CASE L!SanctionStep
    <3> PICK d \in Callers :
          \/ L!Impose(d) \/ L!Record(d) \/ L!OrderError(d)
          \/ \E by, v \in Users : \E o \in L!Orders(by) : L!Order(d, by, v, o[1], o[2])
      BY <2>2 DEF L!SanctionStep
    <3>1. CASE L!Impose(d)
      <4>1. sanctioning[d].to # u
        BY <3>1 DEF L!Impose, Without
      <4>2. until' = [until EXCEPT ![sanctioning[d].to] = [k \in L!Columns |-> L!Ends(sanctioning[d], k)]]
        BY <3>1 DEF L!Impose
      <4> QED BY <1>1, <4>1, <4>2
    <3>2. CASE ~L!Impose(d)
      BY <3>2 DEF L!Record, L!OrderError, L!Order
    <3> QED BY <3>1, <3>2
  <2> QED BY <2>1, <2>2, Frames
<1>4. \A k \in L!Columns : L!Holding(u, k)' => L!Holding(u, k)
  <2> TAKE k \in L!Columns
  <2>1. until[u][k] \in Nat
    BY <1>1
  <2> QED BY <1>1, <1>2, <1>3, <2>1 DEF L!Holding
<1> QED BY <1>4 DEF L!MayPost, L!MayComment, L!Columns, L!Bars

\* An item keeps its kind and author; its status is set by its author, who
\* deletes it, or a moderator.
LEMMA ItemFate ==
  ASSUME TypeInv, [Next]_vars, NEW i \in 1..Len(items), NEW y, y = items'[i]
  PROVE  /\ y.kind = items[i].kind /\ y.by = items[i].by /\ y.fair = items[i].fair
         /\ y = items[i] \/ Edited(i, y) \/ Deleted(i, y) \/ Moderated(i, y)
<1>1. ItemsMove
  BY ItemsAlways
<1>2. items \in Seq(ItemRows)
  BY TypeInvIs DEF TypeTable, ItemTypes
<1>3. CASE UNCHANGED items
  BY <1>3
<1>4. ASSUME NEW x, Added(x) PROVE y = items[i]
  BY <1>2, <1>4, AddedIs
<1>5. ASSUME NEW j, NEW z, Changed(j, z), Edited(j, z) \/ Deleted(j, z) \/ Moderated(j, z)
      PROVE  /\ y.kind = items[i].kind /\ y.by = items[i].by /\ y.fair = items[i].fair
             /\ y = items[i] \/ Edited(i, y) \/ Deleted(i, y) \/ Moderated(i, y)
  <2>1. items'[j] = z /\ \A k \in 1..Len(items) : k # j => items'[k] = items[k]
    BY <1>2, <1>5, ChangedIs
  <2>2. CASE i = j
    BY <1>5, <2>1, <2>2 DEF Changed
  <2>3. CASE i # j
    BY <2>1, <2>3
  <2> QED BY <2>2, <2>3
<1> QED BY <1>1, <1>3, <1>4, <1>5 DEF ItemsMove

\* What a call has looked at stays as it was, until it writes.
LEMMA WritersWait ==
  ASSUME TypeInv, WriteInv, [Next]_vars, Without({"late_moderation"}), NEW c \in Callers,
         NEW w, w = writing[c]
  PROVE  Sound(w)'
<1>1. /\ \A d \in Callers : writing[d] \in Writes /\ WriteOK(writing[d])
      /\ items \in Seq(ItemRows)
  BY TypeInvIs DEF TypeTable, ItemTypes, WritesOK
<1>2. Sound(w) /\ WriteOK(w) /\ w \in Writes
  BY <1>1 DEF WriteInv
<1>3. UNCHANGED scene
  BY Frames
<1>4. w.pc # "idle" => w.by \in Users
  BY <1>2 DEF WriteOK
<1>5. w.pc # "idle" => /\ L!MayPost(w.by) => L!MayPost(w.by)'
                       /\ L!MayComment(w.by) => L!MayComment(w.by)'
  BY <1>4, BarsWait
<1>6. ASSUME w.pc \in {"parent", "create", "edit", "delete"}, w.of \in 1..Len(items)
      PROVE  /\ items'[w.of].kind = items[w.of].kind
             /\ w.pc = "create" /\ items[w.of].kind # "comment" /\ Without({"author_status"}) =>
                  items'[w.of].status = items[w.of].status
             /\ w.pc \in {"edit", "delete"} /\ items[w.of].kind = "comment" =>
                  items'[w.of].status \in {items[w.of].status, "deleted"}
  <2> PICK i \in 1..Len(items) : i = w.of
    BY <1>6
  <2> PICK y : y = items'[i]
    OBVIOUS
  <2>1. /\ y.kind = items[i].kind
        /\ y = items[i] \/ Edited(i, y) \/ Deleted(i, y) \/ Moderated(i, y)
    BY ItemFate
  <2>2. CASE Edited(i, y)
    <3> PICK d \in Callers : /\ L!Edit(d) /\ writing[d].of = i
                             /\ y.status = IF writing[d].next = "none" THEN items[i].status
                                           ELSE writing[d].next
      BY <2>2 DEF Edited
    <3>1. writing[d].next # "none" => "author_status" \in scene /\ items[i].kind = "update"
      BY <1>1 DEF L!Edit, WriteOK
    <3> QED BY <2>1, <3>1 DEF Without
  <2>3. CASE Deleted(i, y)
    <3>1. y.status = "deleted" /\ items[i].kind = "comment"
      BY <1>1, <2>3 DEF Deleted, L!Delete, WriteOK
    <3> QED BY <1>6, <2>1, <3>1
  <2>4. CASE Moderated(i, y)
    <3>1. L!Unwatched(c)
      BY <2>4 DEF Moderated, L!SetStatus, Without
    <3> QED BY <1>6, <3>1 DEF L!Unwatched
  <2> QED BY <2>1, <2>2, <2>3, <2>4
<1>7. w.pc \in {"parent", "create"} /\ w.kind \in {"reply", "comment"} => w.of \in 1..Len(items)
  BY <1>2 DEF WriteOK
<1>8. w.pc \in {"edit", "delete"} => w.of \in 1..Len(items)
  BY <1>2 DEF WriteOK
<1>9. Without({"author_status"})' => Without({"author_status"})
  BY <1>3 DEF Without
<1> QED BY <1>2, <1>5, <1>6, <1>7, <1>8, <1>9 DEF Sound

\* Nothing is written unfairly, and what was moderated stays as it was then.
LEMMA ItemsStayClean ==
  ASSUME TypeInv, WriteInv, [Next]_vars, Without({"late_moderation"}), NEW i \in 1..Len(items'),
         NEW y, y = items'[i]
  PROVE  Clean(y)'
<1>1. /\ \A d \in Callers : writing[d] \in Writes /\ WriteOK(writing[d])
      /\ items \in Seq(ItemRows) /\ ItemsMove
  BY TypeInvIs, ItemsAlways DEF TypeTable, ItemTypes, WritesOK
<1>2. UNCHANGED scene
  BY Frames
<1>3. /\ \A d \in Callers : Sound(writing[d])
      /\ \A j \in 1..Len(items) : Clean(items[j])
  BY DEF WriteInv
<1> SUFFICES /\ Without({"author_status"}) => y.fair
             /\ y.kind = "comment" /\ y.status \in {"hidden", "archived"} => y.text = y.kept
  BY <1>2 DEF Clean, Without
<1>4. CASE i \in 1..Len(items)
  <2>1. /\ y.kind = items[i].kind /\ y.fair = items[i].fair
        /\ y = items[i] \/ Edited(i, y) \/ Deleted(i, y) \/ Moderated(i, y)
    BY <1>4, ItemFate
  <2>2. Clean(items[i])
    BY <1>3, <1>4
  <2>3. CASE Edited(i, y)
    <3> PICK d \in Callers : /\ L!Edit(d) /\ writing[d].of = i /\ items[i].status # "deleted"
                             /\ y.status = IF writing[d].next = "none" THEN items[i].status
                                           ELSE writing[d].next
      BY <2>3 DEF Edited
    <3>1. writing[d].pc = "edit" /\ WriteOK(writing[d]) /\ Sound(writing[d])
      BY <1>1, <1>3 DEF L!Edit
    <3>2. items[i].kind = "comment" => writing[d].next = "none" /\ items[i].status = "active"
      BY <3>1 DEF WriteOK, Sound
    <3> QED BY <2>1, <2>2, <3>2 DEF Clean
  <2>4. CASE Deleted(i, y)
    <3>1. y.status = "deleted"
      BY <2>4 DEF Deleted
    <3> QED BY <2>1, <2>2, <3>1 DEF Clean
  <2>5. CASE Moderated(i, y)
    <3>1. y.text = y.kept
      BY <2>5 DEF Moderated
    <3> QED BY <2>1, <2>2, <3>1 DEF Clean
  <2> QED BY <2>1, <2>2, <2>3, <2>4, <2>5 DEF Clean
<1>5. CASE i \notin 1..Len(items)
  <2>1. PICK x : Added(x) /\ Fresh(x)
    <3>1. ~UNCHANGED items
      BY <1>5
    <3>2. \A j, z : ~Changed(j, z)
      <4>1. \A j, z : Changed(j, z) => Len(items') = Len(items)
        BY <1>1, ChangedIs
      <4> QED BY <1>5, <4>1
    <3> QED BY <1>1, <3>1, <3>2 DEF ItemsMove
  <2>2. Len(items) \in Nat /\ Len(items') = Len(items) + 1 /\ items'[Len(items) + 1] = x
    BY <1>1, <2>1, AddedIs
  <2>3. y = x
    <3>1. i = Len(items) + 1
      BY <1>5, <2>2
    <3> QED BY <2>2, <3>1
  <2>4. x.kind = "comment" => x.status = "active"
    BY <2>1 DEF Added
  <2>5. Without({"author_status"}) => x.fair
    <3>1. CASE x.fair
      BY <3>1
    <3>2. ASSUME NEW d \in Callers, L!Create(d), x.fair = L!Fair(writing[d]), Without({"author_status"})
          PROVE  x.fair
      <4> PICK w \in Writes : w = writing[d] /\ WriteOK(w) /\ Sound(w)
        BY <1>1, <1>3
      <4>1. w.pc = "create" /\ w.kind # "none"
        BY <3>2 DEF L!Create, WriteOK
      <4>2. CASE w.kind = "post"
        <5>1. L!MayPost(w.by)
          BY <4>1, <4>2 DEF Sound
        <5> QED BY <3>2, <4>2, <5>1 DEF L!Fair, L!MayPost, L!Holding, L!Bars
      <4>3. CASE w.kind \in {"reply", "comment"}
        <5>1. L!MayComment(w.by) /\ items[w.of].status = "active"
          BY <3>2, <4>1, <4>3 DEF Sound
        <5> QED BY <3>2, <4>3, <5>1 DEF L!Fair, L!MayComment, L!Holding, L!Bars
      <4>4. CASE w.kind = "report"
        BY <3>2, <4>4 DEF L!Fair
      <4> QED BY <4>1, <4>2, <4>3, <4>4 DEF Writes
    <3> QED BY <2>1, <3>1, <3>2 DEF Fresh
  <2> QED BY <2>3, <2>4, <2>5
<1> QED BY <1>4, <1>5

\* A call that goes on to write was looked at, in this step or in the one before.
LEMMA WritersLook ==
  ASSUME TypeInv, WriteInv, [Next]_vars, Without({"late_moderation"}), NEW c \in Callers,
         NEW w, w = writing'[c]
  PROVE  Sound(w)'
<1>1. /\ writing \in [Callers -> Writes] /\ NoUser \notin Users
      /\ \A d \in Callers : writing[d] \in Writes /\ WriteOK(writing[d]) /\ Sound(writing[d])
  BY TypeInvIs, CommunityAssumption DEF TypeTable, ItemTypes, WritesOK, WriteInv
<1>2. CASE w = writing[c]
  BY <1>2, WritersWait
<1>3. CASE w.pc \notin {"parent", "create", "edit", "delete"}
  BY <1>3 DEF Sound
<1>4. ASSUME NEW d \in Callers, L!Leave(d) \/ L!Set(d, "metrics") \/ L!Set(d, "show") \/ L!Set(d, "announce")
      PROVE  Sound(w)'
  BY <1>1, <1>2, <1>3, <1>4 DEF L!Leave, L!Set, L!NoWrite, Writes
<1>5. ASSUME L!WriteStep, UNCHANGED sanctionVars, UNCHANGED clock PROVE Sound(w)'
  <2> PICK d \in Callers :
        \/ L!CheckParent(d) \/ L!Create(d) \/ L!Edit(d) \/ L!Delete(d)
        \/ \E u \in Speakers, i \in 0..Len(items) :
             \E kind \in {"post", "reply", "comment", "report"} : L!Check(d, u, kind, i)
        \/ \E u \in Speakers \cup Managers, i \in 1..Len(items) :
             \E what \in {"edit", "delete"}, next \in L!Statuses \cup {"none"} :
               L!Change(d, u, i, what, next)
    BY <1>5 DEF L!WriteStep
  <2>0. /\ UNCHANGED scene
        /\ \A u : (L!MayPost(u) => L!MayPost(u)') /\ (L!MayComment(u) => L!MayComment(u)')
    <3>1. until' = until /\ clock' = clock
      BY <1>5 DEF sanctionVars
    <3> QED BY <3>1, Frames DEF L!MayPost, L!MayComment, L!Holding
  <2>1. CASE L!Create(d) \/ L!Edit(d) \/ L!Delete(d)
    BY <1>4, <2>1 DEF L!Create, L!Edit, L!Delete
  <2>2. CASE L!CheckParent(d)
    <3> PICK v : v = writing[d]
      OBVIOUS
    <3>1. items' = items /\ v.pc = "parent" /\ Sound(v) /\ v \in Writes /\ WriteOK(v)
      BY <1>1, <2>2 DEF L!CheckParent
    <3>2. CASE L!Leave(d)
      BY <1>4, <3>2
    <3>3. CASE L!Set(d, "create") /\ items[v.of].status = "active"
      <4>1. CASE d # c
        BY <1>1, <1>2, <3>3, <4>1 DEF L!Set
      <4>2. CASE d = c
        <5>1. w = [v EXCEPT !.pc = "create"]
          BY <1>1, <3>3, <4>2 DEF L!Set
        <5>2. w.pc = "create" /\ w.kind = v.kind /\ w.by = v.by /\ w.of = v.of
          BY <3>1, <5>1 DEF Writes
        <5>3. v.kind \in {"reply", "comment"} /\ L!MayComment(v.by) /\ items[v.of].kind # "comment"
          BY <3>1 DEF Sound, WriteOK
        <5> QED BY <2>0, <3>1, <3>3, <5>2, <5>3 DEF Sound
      <4> QED BY <4>1, <4>2
    <3> QED BY <2>2, <3>2, <3>3 DEF L!CheckParent
  <2>3. ASSUME NEW u, NEW i, NEW kind \in {"post", "reply", "comment", "report"}, L!Check(d, u, kind, i)
        PROVE  Sound(w)'
    <3> DEFINE v == [L!NoWrite EXCEPT !.pc = IF kind \in {"reply", "comment"} THEN "parent" ELSE "create",
                                      !.by = u, !.kind = kind, !.of = i]
    <3>1. writing' = [writing EXCEPT ![d] = v] /\ items' = items
      BY <2>3 DEF L!Check
    <3>2. CASE d # c
      BY <1>1, <1>2, <3>1, <3>2
    <3>3. CASE d = c
      <4>1. w = v
        BY <1>1, <3>1, <3>3
      <4>2. /\ w.pc = IF kind \in {"reply", "comment"} THEN "parent" ELSE "create"
            /\ w.by = u /\ w.kind = kind /\ w.of = i
        BY <4>1 DEF L!NoWrite
      <4>3. /\ kind = "post" => L!MayPost(u)
            /\ kind \in {"reply", "comment"} => L!MayComment(u) /\ items[i].kind # "comment"
        BY <2>3 DEF L!Check
      <4> HIDE DEF v
      <4> QED BY <2>0, <3>1, <4>2, <4>3 DEF Sound
    <3> QED BY <3>2, <3>3
  <2>4. ASSUME NEW u, NEW i, NEW what \in {"edit", "delete"}, NEW next, L!Change(d, u, i, what, next)
        PROVE  Sound(w)'
    <3> DEFINE v == [L!NoWrite EXCEPT !.pc = what, !.by = u, !.of = i, !.next = next]
    <3>1. writing' = [writing EXCEPT ![d] = v] /\ items' = items
      BY <2>4 DEF L!Change
    <3>2. CASE d # c
      BY <1>1, <1>2, <3>1, <3>2
    <3>3. CASE d = c
      <4>1. w = v
        BY <1>1, <3>1, <3>3
      <4>2. w.pc = what /\ w.of = i
        BY <4>1 DEF L!NoWrite
      <4>3. items[i].kind = "comment" => items[i].status = "active"
        BY <2>4 DEF L!Change, L!MayChange
      <4> HIDE DEF v
      <4> QED BY <3>1, <4>2, <4>3 DEF Sound
    <3> QED BY <3>2, <3>3
  <2> QED BY <2>1, <2>2, <2>3, <2>4
<1>6. ASSUME L!LevelStep PROVE Sound(w)'
  <2> PICK d \in Callers :
        \/ L!GetMetrics(d) \/ L!GetTarget(d) \/ L!GetPrevious(d) \/ L!SaveProgress(d) \/ L!ShowLevel(d)
        \/ L!Announce(d) \/ L!LevelError(d)
        \/ \E u \in Speakers : L!Recalculate(d, u)
    BY <1>6 DEF L!LevelStep
  <2>1. CASE L!SaveProgress(d) \/ L!ShowLevel(d) \/ L!Announce(d) \/ L!LevelError(d)
    BY <1>4, <2>1 DEF L!SaveProgress, L!ShowLevel, L!Announce, L!LevelError
  <2>2. CASE L!GetMetrics(d) \/ L!GetTarget(d) \/ L!GetPrevious(d)
    BY <1>1, <1>2, <1>3, <2>2 DEF L!GetMetrics, L!GetTarget, L!GetPrevious, Writes
  <2>3. ASSUME NEW u, L!Recalculate(d, u) PROVE Sound(w)'
    <3> DEFINE v == [L!NoWrite EXCEPT !.pc = "metrics", !.by = u]
    <3>1. writing' = [writing EXCEPT ![d] = v] /\ v.pc = "metrics"
      BY <2>3 DEF L!Recalculate, L!NoWrite
    <3> HIDE DEF v
    <3> QED BY <1>1, <1>2, <1>3, <3>1
  <2> QED BY <2>1, <2>2, <2>3
<1>7. CASE UNCHANGED writing
  BY <1>2, <1>7
<1> QED BY <1>5, <1>6, <1>7, Frames

LEMMA WriteKept ==
  ASSUME TypeInv, WriteInv, [Next]_vars
  PROVE  WriteInv'
<1>1. UNCHANGED scene
  BY Frames
<1> SUFFICES ASSUME Without({"late_moderation"})
             PROVE  /\ \A c \in Callers : \A w : w = writing'[c] => Sound(w)'
                    /\ \A i \in 1..Len(items') : \A y : y = items'[i] => Clean(y)'
  BY <1>1 DEF WriteInv, Without, Clean
<1> QED BY WritersLook, ItemsStayClean

LEMMA WriteFirst == Init => WriteInv
<1> SUFFICES ASSUME Init PROVE WriteInv
  OBVIOUS
<1>1. scene \in Scenes /\ items = FirstItems[scene] /\ writing = [c \in Callers |-> L!NoWrite]
  BY DEF Init, L!ContentInit
<1>2. \A c \in Callers : Sound(writing[c])
  BY <1>1 DEF Sound, L!NoWrite
<1>3. \A i \in 1..Len(items) : items[i].fair /\ items[i].status \in {"open", "active"}
  <2> DEFINE rows == [kind : {"post", "reply", "update", "comment", "report"}, by : Users,
                      of : Nat, text : Nat, kept : Nat, status : {"open", "active"}, fair : {TRUE}]
  <2>1. items \in Seq(rows)
    BY <1>1, FirstItemsAssumption
  <2>2. \A i \in 1..Len(items) : items[i] \in rows
    <3> HIDE DEF rows
    <3> QED BY <2>1
  <2> QED BY <2>2
<1> QED BY <1>2, <1>3 DEF WriteInv, Clean

LEMMA WriteAlways == Spec => []WriteInv
<1>1. TypeInv /\ WriteInv /\ [Next]_vars => WriteInv'
  BY WriteKept
<1> QED BY <1>1, WriteFirst, TypeInvCorrect, PTL DEF Spec

-------------------------------------------------------------------------------
(* Content: the audit entries.                                             *)

RecordRows == [by : Users, of : Nat, was : States, next : States]
FiledNow(i) == Filed(i, Len(records))

\* A new entry is the last about its item; the others say what they said.
LEMMA FiledGoesOn ==
  ASSUME records \in Seq(RecordRows), NEW e \in RecordRows, records' = Append(records, e),
         NEW i, items'[i].kind = items[i].kind
  PROVE  /\ \A n \in 0..Len(records) : Filed(i, n)' = Filed(i, n)
         /\ FiledNow(i)' = IF e.of = i THEN e.next ELSE FiledNow(i)
         /\ FiledWell(i) /\ (e.of = i => e.was = FiledNow(i)) => FiledWell(i)'
<1> DEFINE about(n) == {j \in 1..n : records[j].of = i}
           about2(n) == {j \in 1..n : records'[j].of = i}
           first == IF items[i].kind = "report" THEN "open" ELSE "active"
<1> PICK m \in Nat : m = Len(records)
  <2> HIDE DEF RecordRows
  <2> QED OBVIOUS
<1>1. Len(records') = m + 1 /\ records'[m + 1] = e /\ \A j \in 1..m : records'[j] = records[j]
  <2> HIDE DEF RecordRows
  <2> QED OBVIOUS
<1>2. \A n : Filed(i, n) = IF about(n) # {} THEN records[Max(about(n))].next ELSE first
  BY DEF Filed
<1>3. \A n : Filed(i, n)' = IF about2(n) # {} THEN records'[Max(about2(n))].next ELSE first
  BY DEF Filed
<1>4. ASSUME NEW n \in 0..m
      PROVE  about2(n) = about(n) /\ (about(n) # {} => Max(about(n)) \in 1..m)
  <2>1. about2(n) = about(n)
    BY <1>1
  <2>2. about(n) \subseteq 0..n /\ about(n) \subseteq 1..m /\ n \in Nat
    OBVIOUS
  <2> HIDE DEF about
  <2> QED BY <2>1, <2>2, MaxExists
<1>5. ASSUME NEW n \in 0..m PROVE Filed(i, n)' = Filed(i, n)
  <2> HIDE DEF about, about2, first
  <2> QED BY <1>1, <1>2, <1>3, <1>4
<1>6. FiledNow(i) = Filed(i, m)
  BY DEF FiledNow
<1>7. FiledNow(i)' = IF about2(m + 1) # {} THEN records'[Max(about2(m + 1))].next ELSE first
  <2>1. FiledNow(i)' = IF about2(Len(records')) # {} THEN records'[Max(about2(Len(records')))].next
                       ELSE first
    BY DEF FiledNow, Filed
  <2> HIDE DEF about2, first
  <2> QED BY <1>1, <2>1
<1>8. FiledNow(i)' = IF e.of = i THEN e.next ELSE FiledNow(i)
  <2>1. CASE e.of = i
    <3>1. m + 1 \in about2(m + 1) /\ about2(m + 1) \subseteq Int /\ \A y \in about2(m + 1) : m + 1 >= y
      BY <1>1, <2>1
    <3> HIDE DEF about2
    <3>2. Max(about2(m + 1)) = m + 1
      BY <3>1, MaxIs
    <3> QED BY <1>1, <1>7, <2>1, <3>1, <3>2
  <2>2. CASE e.of # i
    <3>1. about2(m + 1) = about2(m)
      BY <1>1, <2>2
    <3>2. Filed(i, m)' = IF about2(m) # {} THEN records'[Max(about2(m))].next ELSE first
      BY <1>3
    <3>3. Filed(i, m)' = Filed(i, m)
      BY <1>5
    <3> HIDE DEF about, about2, first
    <3> QED BY <1>6, <1>7, <2>2, <3>1, <3>2, <3>3
  <2> QED BY <2>1, <2>2
<1>9. ASSUME FiledWell(i), e.of = i => e.was = FiledNow(i) PROVE FiledWell(i)'
  <2> SUFFICES ASSUME NEW j \in 1..m + 1, records'[j].of = i PROVE records'[j].was = Filed(i, j - 1)'
    BY <1>1 DEF FiledWell
  <2>1. CASE j = m + 1
    <3>1. records'[j] = e /\ j - 1 = m /\ m \in 0..m
      BY <1>1, <2>1
    <3> QED BY <1>5, <1>6, <1>9, <3>1
  <2>2. CASE j \in 1..m
    <3>1. records'[j] = records[j] /\ j - 1 \in 0..m
      BY <1>1, <2>2
    <3>2. records[j].was = Filed(i, j - 1)
      BY <1>9, <2>2, <3>1 DEF FiledWell
    <3> QED BY <1>5, <3>1, <3>2
  <2> QED BY <2>1, <2>2
<1> QED BY <1>5, <1>8, <1>9

\* Where no entry is added they say what they said.
LEMMA FiledStays ==
  ASSUME UNCHANGED records, NEW i, items'[i].kind = items[i].kind
  PROVE  FiledNow(i)' = FiledNow(i) /\ (FiledWell(i) => FiledWell(i)')
<1>1. \A n : Filed(i, n)' = Filed(i, n)
  BY DEF Filed
<1> QED BY <1>1 DEF FiledNow, FiledWell

\* Without a moderator's step an item keeps its status, unless it is deleted.
LEMMA StatusWaits ==
  ASSUME TypeInv, [Next]_vars, "author_status" \notin scene, UNCHANGED reviewing, NEW i \in 1..Len(items)
  PROVE  items'[i].kind = items[i].kind /\ items'[i].status \in {items[i].status, "deleted"}
<1> PICK y : y = items'[i]
  OBVIOUS
<1>1. /\ reviewing \in [Callers -> Reviews] /\ \A c \in Callers : reviewing[c] \in Reviews
      /\ \A c \in Callers : WriteOK(writing[c])
  BY TypeInvIs DEF TypeTable, ItemTypes, WritesOK
<1>2. /\ y.kind = items[i].kind
      /\ y = items[i] \/ Edited(i, y) \/ Deleted(i, y) \/ Moderated(i, y)
  BY ItemFate
<1>3. CASE Edited(i, y)
  <2> PICK d \in Callers : /\ L!Edit(d) /\ writing[d].of = i
                           /\ y.status = IF writing[d].next = "none" THEN items[i].status
                                         ELSE writing[d].next
    BY <1>3 DEF Edited
  <2>1. writing[d].next = "none"
    BY <1>1 DEF L!Edit, WriteOK
  <2> QED BY <1>2, <2>1
<1>4. CASE Deleted(i, y)
  BY <1>2, <1>4 DEF Deleted
<1>5. CASE Moderated(i, y)
  <2> PICK d \in Callers : L!SetStatus(d) /\ reviewing[d].of = i /\ items[i].status # "deleted"
    BY <1>5 DEF Moderated
  <2> PICK r \in Reviews : r = reviewing[d]
    BY <1>1
  <2>1. r.pc = "set" /\ reviewing' = [reviewing EXCEPT ![d] = [r EXCEPT !.pc = "file"]]
    BY DEF L!SetStatus, L!Exists
  <2>2. reviewing'[d] = [r EXCEPT !.pc = "file"] /\ reviewing'[d] = r
    BY <1>1, <2>1
  <2>3. [r EXCEPT !.pc = "file"].pc = "file"
    BY DEF Reviews
  <2> QED BY <2>1, <2>2, <2>3
<1> QED BY <1>2, <1>3, <1>4, <1>5

\* Where moderators do not overlap or fail and authors set no status, every step
\* keeps each item's status in line with what was filed, or is about to be.
LEMMA RecordKept ==
  ASSUME TypeInv, RecordInv, [Next]_vars
  PROVE  RecordInv'
<1> DEFINE Tame == Without({"late_moderation", "overlap_moderators", "record_error", "author_status"})
           Filing(i) == FiledWell(i) /\ FiledNow(i) = items[i].status
<1>1. UNCHANGED scene
  BY Frames
<1> DEFINE Goal ==
     /\ \A c, d \in Callers : reviewing'[c].pc # "idle" /\ reviewing'[d].pc # "idle" => c = d
     /\ \A i \in 1..Len(items') : items'[i].status # "deleted" =>
          /\ FiledWell(i)'
          /\ (\A c \in Callers : reviewing'[c].of # i) => items'[i].status = FiledNow(i)'
     /\ \A c \in Callers : \A r : r = reviewing'[c] =>
          (r.pc # "idle" /\ items'[r.of].status # "deleted" =>
             /\ r.was = FiledNow(r.of)'
             /\ items'[r.of].status = IF r.pc = "set" THEN r.was ELSE r.next)
<1> SUFFICES ASSUME Tame PROVE Goal
  BY <1>1 DEF RecordInv, Without, FiledNow, L!Exists
<1>2. /\ \A c, d \in Callers : reviewing[c].pc # "idle" /\ reviewing[d].pc # "idle" => c = d
      /\ \A i \in 1..Len(items) : items[i].status # "deleted" =>
           /\ FiledWell(i)
           /\ (\A c \in Callers : reviewing[c].of # i) => items[i].status = FiledNow(i)
      /\ \A c \in Callers : \A r : r = reviewing[c] =>
           (r.pc # "idle" /\ items[r.of].status # "deleted" =>
              /\ r.was = FiledNow(r.of)
              /\ items[r.of].status = IF r.pc = "set" THEN r.was ELSE r.next)
  BY DEF RecordInv, FiledNow, L!Exists
<1>3. scene \cap {"late_moderation", "overlap_moderators", "record_error", "author_status"} = {}
  BY DEF Without
<1>4. /\ items \in Seq(ItemRows) /\ records \in Seq(RecordRows) /\ reviewing \in [Callers -> Reviews]
      /\ \A c \in Callers : reviewing[c] \in Reviews /\ ReviewOK(reviewing[c])
      /\ \A j \in 1..Len(records) : records[j].of \in 1..Len(items)
      /\ Len(items) \in Nat
  <2>1. ItemTypes /\ ReviewsOK
    BY TypeInvIs DEF TypeTable
  <2>2. items \in Seq(ItemRows) => Len(items) \in Nat
    <3> HIDE DEF ItemRows
    <3> QED OBVIOUS
  <2> QED BY <2>1, <2>2 DEF ItemTypes, ReviewsOK, RecordRows
<1>5. \A c \in Callers : /\ reviewing[c].pc = "idle" => reviewing[c].of = 0
                         /\ reviewing[c].pc # "idle" => reviewing[c].of \in 1..Len(items)
  BY <1>4 DEF ReviewOK, L!NoReview
<1> HIDE DEF Tame
<1>6. CASE UNCHANGED <<records, reviewing>>
  <2>1. \A i \in 1..Len(items) :
          /\ items'[i].status \in {items[i].status, "deleted"}
          /\ FiledNow(i)' = FiledNow(i) /\ (FiledWell(i) => FiledWell(i)')
    BY <1>3, <1>6, StatusWaits, FiledStays
  <2>2. ASSUME NEW i \in 1..Len(items'), i \notin 1..Len(items)
        PROVE  FiledWell(i)' /\ items'[i].status = FiledNow(i)'
    <3>1. PICK x : Added(x)
      <4>1. ~UNCHANGED items
        BY <2>2
      <4>2. \A j, z : Changed(j, z) => Len(items') = Len(items)
        BY <1>4, ChangedIs
      <4> QED BY <2>2, <4>1, <4>2, ItemsAlways DEF ItemsMove
    <3>2. Len(items') = Len(items) + 1 /\ items'[Len(items) + 1] = x
      BY <1>4, <3>1, AddedIs
    <3>3. i = Len(items) + 1
      BY <1>4, <2>2, <3>2
    <3>4. items'[i].status = IF items'[i].kind = "report" THEN "open" ELSE "active"
      BY <3>1, <3>2, <3>3 DEF Added
    <3>5. \A j \in 1..Len(records') : records'[j].of # i
      BY <1>4, <1>6, <2>2
    <3>6. {j \in 1..Len(records') : records'[j].of = i} = {}
      BY <3>5
    <3>7. FiledNow(i)' = IF items'[i].kind = "report" THEN "open" ELSE "active"
      BY <3>6 DEF FiledNow, Filed
    <3>8. FiledWell(i)'
      BY <3>5 DEF FiledWell
    <3> QED BY <3>4, <3>7, <3>8
  <2> QED BY <1>2, <1>5, <1>6, <2>1, <2>2
<1>7. ASSUME NEW c \in Callers, NEW r, reviewing' = [reviewing EXCEPT ![c] = r],
             \A d \in Callers : d # c => reviewing[d].pc = "idle",
             \A i \in 1..Len(items') : i \in 1..Len(items) /\ items'[i].status # "deleted" =>
               items[i].status # "deleted" /\ FiledWell(i)',
             Len(items') = Len(items),
             \A i \in 1..Len(items) : i # reviewing[c].of /\ i # r.of =>
               items'[i].status = items[i].status /\ FiledNow(i)' = FiledNow(i),
             r.pc # "idle" => r.of \in 1..Len(items) /\ reviewing[c].of \in {0, r.of},
             r.pc # "idle" /\ items'[r.of].status # "deleted" =>
               /\ r.was = FiledNow(r.of)'
               /\ items'[r.of].status = IF r.pc = "set" THEN r.was ELSE r.next,
             r.pc = "idle" => r.of = 0,
             r.pc = "idle" => \A i \in 1..Len(items) :
               i = reviewing[c].of /\ items'[i].status # "deleted" => items'[i].status = FiledNow(i)'
      PROVE  Goal
  <2>1. reviewing'[c] = r /\ \A d \in Callers : d # c => reviewing'[d] = reviewing[d]
    BY <1>4, <1>7
  <2>2. \A d \in Callers : d # c => reviewing[d].of = 0
    BY <1>5, <1>7
  <2>3. \A d, e \in Callers : reviewing'[d].pc # "idle" /\ reviewing'[e].pc # "idle" => d = e
    BY <1>7, <2>1
  <2>4. ASSUME NEW i \in 1..Len(items'), items'[i].status # "deleted",
               \A d \in Callers : reviewing'[d].of # i
        PROVE  items'[i].status = FiledNow(i)'
    <3>1. i \in 1..Len(items) /\ r.of # i /\ i # 0
      BY <1>7, <2>1, <2>4
    <3>2. CASE reviewing[c].of = i
      <4>1. r.pc = "idle"
        BY <1>7, <3>1, <3>2
      <4> QED BY <1>7, <2>4, <3>1, <3>2, <4>1
    <3>3. CASE reviewing[c].of # i
      <4>1. items'[i].status = items[i].status /\ FiledNow(i)' = FiledNow(i)
        BY <1>7, <3>1, <3>3
      <4>2. \A d \in Callers : reviewing[d].of # i
        BY <2>2, <3>1, <3>3
      <4> QED BY <1>2, <2>4, <3>1, <4>1, <4>2
    <3> QED BY <3>2, <3>3
  <2>5. ASSUME NEW d \in Callers, NEW s, s = reviewing'[d], s.pc # "idle", items'[s.of].status # "deleted"
        PROVE  s.was = FiledNow(s.of)' /\ items'[s.of].status = IF s.pc = "set" THEN s.was ELSE s.next
    <3>1. d = c /\ s = r
      BY <1>7, <2>1, <2>5
    <3> QED BY <1>7, <2>5, <3>1
  <2> QED BY <1>7, <2>3, <2>4, <2>5
<1>8. ASSUME L!ModerationStep PROVE Goal
  <2> HIDE DEF Goal
  <2>1. ASSUME NEW c \in Callers, L!File(c) PROVE Goal
    <3> PICK v \in Reviews : v = reviewing[c] /\ ReviewOK(v)
      BY <1>4
    <3> DEFINE e == [by |-> v.by, of |-> v.of, was |-> v.was, next |-> v.next]
    <3>1. /\ v.pc = "file" /\ records' = Append(records, e) /\ items' = items
          /\ reviewing' = [reviewing EXCEPT ![c] = L!NoReview]
      BY <2>1 DEF L!File
    <3>2. v.of \in 1..Len(items) /\ v.by \in Users /\ v.was \in States /\ v.next \in States
      BY <3>1 DEF ReviewOK, Reviews, States
    <3>3. e \in RecordRows /\ e.of = v.of /\ e.was = v.was /\ e.next = v.next
      BY <3>2 DEF RecordRows, Reviews
    <3> HIDE DEF e
    <3>4. \A i \in 1..Len(items) : /\ FiledNow(i)' = IF v.of = i THEN v.next ELSE FiledNow(i)
                                   /\ FiledWell(i) /\ (v.of = i => v.was = FiledNow(i)) => FiledWell(i)'
      BY <1>4, <3>1, <3>3, FiledGoesOn
    <3>5. items[v.of].status # "deleted" => v.was = FiledNow(v.of) /\ items[v.of].status = v.next
      BY <1>2, <3>1
    <3>6. \A i \in 1..Len(items) : items[i].status # "deleted" => FiledWell(i)'
      BY <1>2, <3>4, <3>5
    <3>7. \A d \in Callers : d # c => reviewing[d].pc = "idle"
      BY <1>2, <3>1
    <3>8. L!NoReview.pc = "idle" /\ L!NoReview.of = 0
      BY DEF L!NoReview
    <3> QED BY <1>7, <3>1, <3>2, <3>4, <3>5, <3>6, <3>7, <3>8
  <2>2. ASSUME NEW c \in Callers, NEW by \in Users, NEW i \in 1..Len(items),
               NEW next \in L!Statuses \cup L!Verdicts, L!Look(c, by, i, next)
        PROVE  Goal
    <3> PICK z : z = items[i].status
      OBVIOUS
    <3> DEFINE v == [pc |-> "set", by |-> by, of |-> i, was |-> z, next |-> next]
    <3>1. /\ reviewing' = [reviewing EXCEPT ![c] = v] /\ items' = items /\ records' = records
          /\ \A d \in Callers : reviewing[d].pc = "idle"
      BY <1>3, <2>2 DEF L!Look
    <3>2. \A j \in 1..Len(items) : FiledNow(j)' = FiledNow(j) /\ (FiledWell(j) => FiledWell(j)')
      BY <3>1, FiledStays
    <3>3. \A d \in Callers : reviewing[d].of = 0
      BY <1>5, <3>1
    <3>4. items[i].status # "deleted" => z = FiledNow(i)
      BY <1>2, <3>3
    <3>5. v.pc = "set" /\ v.of = i /\ v.was = z
      OBVIOUS
    <3>6. \A j \in 1..Len(items) : items[j].status # "deleted" => FiledWell(j)'
      BY <1>2, <3>2
    <3> HIDE DEF v
    <3> QED BY <1>7, <3>1, <3>2, <3>3, <3>4, <3>5, <3>6
  <2>3. ASSUME NEW c \in Callers, L!SetStatus(c) PROVE Goal
    <3> PICK v \in Reviews : v = reviewing[c] /\ ReviewOK(v)
      BY <1>4
    <3>1. v.pc = "set" /\ records' = records /\ v.of \in 1..Len(items)
      BY <2>3 DEF L!SetStatus, ReviewOK
    <3>2. \A d \in Callers : d # c => reviewing[d].pc = "idle"
      BY <1>2, <3>1
    <3>3. \A j \in 1..Len(items) : items'[j].kind = items[j].kind =>
            FiledNow(j)' = FiledNow(j) /\ (FiledWell(j) => FiledWell(j)')
      BY <3>1, FiledStays
    <3>4. CASE items[v.of].status = "deleted"
      <4>1. reviewing' = [reviewing EXCEPT ![c] = L!NoReview] /\ items' = items
        BY <2>3, <3>4 DEF L!SetStatus, L!Exists
      <4>2. L!NoReview.pc = "idle" /\ L!NoReview.of = 0
        BY DEF L!NoReview
      <4>3. \A j \in 1..Len(items) : items[j].status # "deleted" => FiledWell(j)'
        BY <1>2, <3>3, <4>1
      <4> QED BY <1>7, <3>2, <3>3, <3>4, <4>1, <4>2, <4>3
    <3>5. CASE items[v.of].status # "deleted"
      <4> PICK i \in 1..Len(items) : i = v.of
        BY <3>1
      <4> PICK z \in ItemRows : z = items[i]
        <5> HIDE DEF ItemRows
        <5> QED BY <1>4
      <4> DEFINE y == [z EXCEPT !.status = v.next, !.kept = z.text]
                 s == [v EXCEPT !.pc = "file"]
      <4>1. items' = [items EXCEPT ![i] = y]
        <5>1. items' = [items EXCEPT ![i].status = v.next, ![i].kept = z.text]
          BY <2>3, <3>5 DEF L!SetStatus, L!Exists
        <5> QED BY <1>4, <5>1
      <4>2. reviewing' = [reviewing EXCEPT ![c] = s]
        BY <2>3, <3>5 DEF L!SetStatus, L!Exists
      <4>3. /\ s.pc = "file" /\ s.of = i /\ s.was = v.was /\ s.next = v.next
            /\ y.status = v.next /\ y.kind = z.kind
        BY DEF Reviews, ItemRows
      <4>4. v.next # "deleted"
        BY <3>1 DEF ReviewOK, L!Statuses, L!Verdicts
      <4> HIDE DEF y, s
      <4>5. /\ items'[i] = y /\ Len(items') = Len(items)
            /\ \A j \in 1..Len(items) : j # i => items'[j] = items[j]
        <5> HIDE DEF ItemRows
        <5> QED BY <1>4, <4>1
      <4>6. \A j \in 1..Len(items) : FiledNow(j)' = FiledNow(j) /\ (FiledWell(j) => FiledWell(j)')
        BY <3>3, <4>3, <4>5
      <4>7. v.was = FiledNow(i)
        BY <1>2, <3>1, <3>5
      <4>8. \A j \in 1..Len(items) : items'[j].status # "deleted" =>
              items[j].status # "deleted" /\ FiledWell(j)'
        BY <1>2, <3>5, <4>5, <4>6
      <4> QED BY <1>7, <3>2, <4>2, <4>3, <4>5, <4>6, <4>7, <4>8
    <3> QED BY <3>4, <3>5
  <2> QED BY <1>3, <1>8, <2>1, <2>2, <2>3 DEF L!ModerationStep, L!ReviewError
<1> QED BY <1>6, <1>8, Frames

LEMMA RecordFirst == Init => RecordInv
<1> SUFFICES ASSUME Init PROVE RecordInv
  OBVIOUS
<1>1. /\ scene \in Scenes /\ items = FirstItems[scene] /\ records = <<>>
      /\ reviewing = [c \in Callers |-> L!NoReview]
  BY DEF Init, L!ContentInit
<1>2. \A c \in Callers : reviewing[c].pc = "idle"
  BY <1>1 DEF L!NoReview
<1>3. \A i \in 1..Len(items) : items[i].status = IF items[i].kind = "report" THEN "open" ELSE "active"
  <2>1. items \in Seq([kind : {"post", "reply", "update", "comment", "report"}, by : Users,
                       of : Nat, text : Nat, kept : Nat, status : {"open", "active"}, fair : {TRUE}])
    BY <1>1, FirstItemsAssumption
  <2>2. DOMAIN items = 1..Len(items)
    BY <2>1, LenProperties
  <2> QED BY <1>1, <2>2, FirstItemsAssumption
<1>4. 1..Len(records) = {}
  BY <1>1
<1>5. \A i \in 1..Len(items) : FiledWell(i) /\ items[i].status = Filed(i, Len(records))
  BY <1>3, <1>4 DEF FiledWell, Filed
<1> QED BY <1>2, <1>5 DEF RecordInv

LEMMA RecordAlways == Spec => []RecordInv
<1>1. TypeInv /\ RecordInv /\ [Next]_vars => RecordInv'
  BY RecordKept
<1> QED BY <1>1, RecordFirst, TypeInvCorrect, PTL DEF Spec

-------------------------------------------------------------------------------
(* Levels.                                                                 *)

\* Only his own comments, and deletions, change what counts for a user.
LEMMA CountStays ==
  ASSUME TypeInv, [Next]_vars, "deletions" \notin scene, NEW u,
         \A c \in Callers : L!Create(c) /\ writing[c].kind = "comment" => writing[c].by # u
  PROVE  L!Count(u)' = L!Count(u)
<1> DEFINE counted == {i \in 1..Len(items) :
                         items[i].kind = "comment" /\ items[i].by = u /\ items[i].status # "deleted"}
           after == {i \in 1..Len(items') :
                       items'[i].kind = "comment" /\ items'[i].by = u /\ items'[i].status # "deleted"}
<1>1. /\ items \in Seq(ItemRows) /\ ItemsMove /\ Grown /\ Len(items) \in Nat
      /\ \A c \in Callers : WriteOK(writing[c]) /\ ReviewOK(reviewing[c]) /\ writing[c] \in Writes
  <2>1. items \in Seq(ItemRows) => Len(items) \in Nat
    <3> HIDE DEF ItemRows
    <3> QED OBVIOUS
  <2> QED BY <2>1, TypeInvIs, ItemsAlways DEF TypeTable, ItemTypes, WritesOK, ReviewsOK
<1>2. ASSUME NEW i \in 1..Len(items)
      PROVE  /\ items'[i].kind = items[i].kind /\ items'[i].by = items[i].by
             /\ items'[i].status = "deleted" <=> items[i].status = "deleted"
  <2> PICK y : y = items'[i]
    OBVIOUS
  <2>1. /\ y.kind = items[i].kind /\ y.by = items[i].by
        /\ y = items[i] \/ Edited(i, y) \/ Deleted(i, y) \/ Moderated(i, y)
    BY ItemFate
  <2>2. CASE Edited(i, y)
    <3> PICK d \in Callers : /\ items[i].status # "deleted"
                             /\ y.status = IF writing[d].next = "none" THEN items[i].status
                                           ELSE writing[d].next
      BY <2>2 DEF Edited
    <3>1. writing[d].next # "deleted"
      BY <1>1 DEF Writes, L!Statuses
    <3> QED BY <2>1, <3>1
  <2>3. CASE Deleted(i, y)
    BY <1>1, <2>3 DEF Deleted, L!Delete, WriteOK
  <2>4. CASE Moderated(i, y)
    <3> PICK d \in Callers : /\ L!SetStatus(d) /\ items[i].status # "deleted"
                             /\ y.status = reviewing[d].next
      BY <2>4 DEF Moderated
    <3>1. reviewing[d].next # "deleted"
      BY <1>1 DEF L!SetStatus, ReviewOK, L!Statuses, L!Verdicts
    <3> QED BY <2>1, <3>1
  <2> QED BY <2>1, <2>2, <2>3, <2>4
<1>3. ASSUME NEW i \in 1..Len(items'), i \notin 1..Len(items) PROVE i \notin after
  <2>1. PICK x : Added(x) /\ Fresh(x)
    <3>1. ~UNCHANGED items
      BY <1>3
    <3>2. \A j, z : Changed(j, z) => Len(items') = Len(items)
      BY <1>1, ChangedIs
    <3> QED BY <1>1, <1>3, <3>1, <3>2 DEF ItemsMove
  <2>2. Len(items') = Len(items) + 1 /\ items'[Len(items) + 1] = x
    BY <1>1, <2>1, AddedIs
  <2>3. items'[i] = x
    <3>1. i = Len(items) + 1
      BY <1>1, <1>3, <2>2
    <3> QED BY <2>2, <3>1
  <2>4. x.kind = "comment" => x.by # u
    BY <2>1 DEF Fresh
  <2> QED BY <2>3, <2>4
<1>4. \A i \in 1..Len(items) : i \in 1..Len(items')
  BY <1>1 DEF Grown
<1>5. after = counted
  BY <1>2, <1>3, <1>4
<1>6. L!Count(u) = L!Cardinality(counted) /\ L!Count(u)' = L!Cardinality(after)
  BY DEF L!Count, L!Exists
<1> HIDE DEF after, counted
<1> QED BY <1>5, <1>6

\* Whoever is left alone stays as he is, and so do calls of his.
LEMMA LevelStays ==
  ASSUME UNCHANGED scene, NEW u, progress'[u] = progress[u], shown'[u] = shown[u], told'[u] = told[u],
         Without({"deletions"}) => L!Count(u)' = L!Count(u)
  PROVE  /\ Agreed(u) => Agreed(u)'
         /\ \A w : w.by = u /\ Climbing(w) => Climbing(w)'
<1>1. Without({"deletions"})' = Without({"deletions"})
  BY DEF Without
<1>2. Agreed(u) => Agreed(u)'
  BY <1>1 DEF Agreed
<1>3. ASSUME NEW w, w.by = u, Climbing(w) PROVE Climbing(w)'
  BY <1>1, <1>2, <1>3 DEF Climbing
<1> QED BY <1>2, <1>3

\* Where calls of a user do not overlap or fail, every step keeps his level, his
\* profile and the last announcement in line, or his call knows the difference.
LEMMA LevelKept ==
  ASSUME TypeInv, LevelInv, [Next]_vars
  PROVE  LevelInv'
<1> DEFINE Tame == Without({"overlap_writes", "level_error"})
           Goal ==
             /\ \A c, d \in Callers : writing'[c].pc # "idle" /\ writing'[c].by = writing'[d].by => c = d
             /\ \A u \in Users : (\A c \in Callers : writing'[c].by # u) => Agreed(u)'
             /\ \A c \in Callers : \A w : w = writing'[c] => Climbing(w)'
<1>1. UNCHANGED scene
  BY Frames
<1> SUFFICES ASSUME Tame PROVE Goal
  BY <1>1 DEF LevelInv, Without, Levelling
<1>2. /\ \A c, d \in Callers : writing[c].pc # "idle" /\ writing[c].by = writing[d].by => c = d
      /\ \A u \in Users : (\A c \in Callers : writing[c].by # u) => Agreed(u)
      /\ \A c \in Callers : \A w : w = writing[c] => Climbing(w)
  BY DEF LevelInv, Levelling
<1>3. scene \cap {"overlap_writes", "level_error"} = {} /\ NoUser \notin Users
      /\ Speakers \subseteq Users /\ Managers \subseteq Users
  BY CommunityAssumption DEF Without
<1>4. /\ writing \in [Callers -> Writes] /\ \A c \in Callers : writing[c] \in Writes /\ WriteOK(writing[c])
      /\ progress \in [Users -> [level : Nat, count : Nat]]
      /\ shown \in [Users -> Nat] /\ told \in [Users -> Nat]
  BY TypeInvIs DEF TypeTable, ItemTypes, WritesOK, LevelTypes
<1>5. \A c \in Callers : /\ writing[c].pc = "idle" => writing[c] = L!NoWrite /\ writing[c].by = NoUser
                         /\ writing[c].pc # "idle" => writing[c].by \in Users
  BY <1>4 DEF WriteOK, L!NoWrite
<1>6. \A u : (\A c \in Callers : L!Create(c) /\ writing[c].kind = "comment" => writing[c].by # u) =>
        (Without({"deletions"}) => L!Count(u)' = L!Count(u))
  <2>1. Without({"deletions"}) => "deletions" \notin scene
    BY DEF Without
  <2> QED BY <2>1, CountStays
<1> HIDE DEF Tame
\* One call goes on, about its user.
<1>7. ASSUME NEW c \in Callers, NEW u \in Users, NEW w, writing' = [writing EXCEPT ![c] = w],
             writing[c].by \in {u, NoUser}, w.by \in {u, NoUser}, w.pc # "idle" => w.by = u,
             \A d \in Callers : d # c => writing[d].by # u,
             \A o \in Users : o # u =>
               progress'[o] = progress[o] /\ shown'[o] = shown[o] /\ told'[o] = told[o],
             w.pc = "idle" => w.by = NoUser /\ Agreed(u)',
             w.pc # "idle" => Climbing(w)'
      PROVE  Goal
  <2>1. writing'[c] = w /\ \A d \in Callers : d # c => writing'[d] = writing[d]
    BY <1>4, <1>7
  <2>2. ASSUME NEW o \in Users, o # u
        PROVE  /\ Agreed(o) => Agreed(o)'
               /\ \A x : x.by = o /\ Climbing(x) => Climbing(x)'
    <3>1. \A d \in Callers : writing[d].by = o => d # c
      BY <1>3, <1>7, <2>2
    <3>2. \A d \in Callers : d # c => ~L!Create(d)
      <4>1. ASSUME NEW d \in Callers, d # c, L!Create(d) PROVE FALSE
        <5>1. writing'[d] = writing[d] /\ writing[d].pc = "create" /\ writing[d] \in Writes
          BY <1>4, <2>1, <4>1 DEF L!Create
        <5>2. writing'[d].pc # "create"
          BY <1>4, <4>1 DEF L!Create, L!Set, L!Leave, L!NoWrite, Writes
        <5> QED BY <5>1, <5>2
      <4> QED BY <4>1
    <3>3. Without({"deletions"}) => L!Count(o)' = L!Count(o)
      BY <1>6, <3>1, <3>2
    <3> QED BY <1>1, <1>7, <2>2, <3>3, LevelStays
  <2>3. \A d, e \in Callers : writing'[d].pc # "idle" /\ writing'[d].by = writing'[e].by => d = e
    <3> SUFFICES ASSUME NEW d \in Callers, NEW e \in Callers, writing'[d].pc # "idle",
                        writing'[d].by = writing'[e].by, d # e
                 PROVE  FALSE
      OBVIOUS
    <3>1. CASE d = c
      <4>1. w.by = u /\ writing[e].by = u
        BY <1>7, <2>1, <3>1
      <4> QED BY <1>7, <3>1, <4>1
    <3>2. CASE e = c
      <4>1. writing[d].by \in Users /\ writing[d].by = w.by
        BY <1>5, <2>1, <3>2
      <4> QED BY <1>3, <1>7, <3>2, <4>1
    <3>3. CASE d # c /\ e # c
      BY <1>2, <2>1, <3>3
    <3> QED BY <3>1, <3>2, <3>3
  <2>4. ASSUME NEW o \in Users, \A d \in Callers : writing'[d].by # o PROVE Agreed(o)'
    <3>1. CASE o = u
      <4>1. w.pc = "idle"
        BY <1>7, <2>1, <2>4, <3>1
      <4> QED BY <1>7, <3>1, <4>1
    <3>2. CASE o # u
      <4>1. \A d \in Callers : writing[d].by # o
        BY <1>3, <1>7, <2>1, <2>4, <3>2
      <4> QED BY <1>2, <2>2, <3>2, <4>1
    <3> QED BY <3>1, <3>2
  <2>5. ASSUME NEW d \in Callers, NEW x, x = writing'[d] PROVE Climbing(x)'
    <3>1. CASE x.pc = "idle"
      BY <3>1 DEF Climbing
    <3>2. CASE x.pc # "idle" /\ d = c
      BY <1>7, <2>1, <2>5, <3>2
    <3>3. CASE x.pc # "idle" /\ d # c
      <4>1. x = writing[d] /\ x.by # u /\ x.by \in Users
        BY <1>5, <1>7, <2>1, <2>5, <3>3
      <4> QED BY <1>2, <2>2, <4>1
    <3> QED BY <3>1, <3>2, <3>3
  <2> QED BY <2>3, <2>4, <2>5
\* Everybody else's steps.
<1>8. ASSUME UNCHANGED writing, UNCHANGED levelVars PROVE Goal
  <2>1. \A c \in Callers : ~L!Create(c)
    <3>1. ASSUME NEW d \in Callers, L!Create(d) PROVE FALSE
      <4>1. writing'[d] = writing[d] /\ writing[d].pc = "create" /\ writing[d] \in Writes
        BY <1>4, <1>8, <3>1 DEF L!Create
      <4>2. writing'[d].pc # "create"
        BY <1>4, <3>1 DEF L!Create, L!Set, L!Leave, L!NoWrite, Writes
      <4> QED BY <4>1, <4>2
    <3> QED BY <3>1
  <2>2. \A u : Without({"deletions"}) => L!Count(u)' = L!Count(u)
    BY <1>6, <2>1
  <2>3. \A u : /\ Agreed(u) => Agreed(u)'
               /\ \A w : w.by = u /\ Climbing(w) => Climbing(w)'
    BY <1>1, <1>8, <2>2, LevelStays DEF levelVars
  <2> QED BY <1>2, <1>8, <2>3
<1>9. ASSUME L!WriteStep, UNCHANGED levelVars PROVE Goal
  <2> HIDE DEF Goal
  <2>0. progress' = progress /\ shown' = shown /\ told' = told
    BY <1>9 DEF levelVars
  <2>1. ASSUME NEW c \in Callers, NEW u \in Users, writing[c].by = u \/ (writing[c].by = NoUser /\ Agreed(u)),
               \A d \in Callers : d # c => writing[d].by # u,
               writing[c].pc \in {"idle", "parent", "create", "edit", "delete"},
               writing[c].pc # "idle" => writing[c].by = u
        PROVE  /\ progress[u].level = shown[u] /\ shown[u] = told[u]
               /\ (Without({"deletions"}) => L!Count(u)' = L!Count(u)) => Agreed(u)'
    <3>1. Agreed(u)
      <4> PICK v : v = writing[c]
        OBVIOUS
      <4>1. Climbing(v)
        BY <1>2
      <4> QED BY <1>3, <1>5, <2>1, <4>1 DEF Climbing
    <3>2. (Without({"deletions"}) => L!Count(u)' = L!Count(u)) => Agreed(u)'
      BY <1>1, <2>0, <3>1, LevelStays
    <3> QED BY <3>1, <3>2 DEF Agreed
  <2>2. ASSUME NEW c \in Callers, writing[c].pc \in {"parent", "create", "edit", "delete"},
               L!Leave(c), "deletions" \in scene \/ ~(L!Create(c) /\ writing[c].kind = "comment")
        PROVE  Goal
    <3> PICK v : v = writing[c]
      OBVIOUS
    <3> PICK u \in Users : u = v.by
      BY <1>5, <2>2
    <3>1. \A d \in Callers : d # c => writing[d].by # u
      BY <1>2, <2>2
    <3>2. Without({"deletions"}) => L!Count(u)' = L!Count(u)
      BY <1>6, <2>2, <3>1 DEF Without
    <3>3. Agreed(u)'
      BY <2>1, <2>2, <3>1, <3>2
    <3>4. writing' = [writing EXCEPT ![c] = L!NoWrite] /\ L!NoWrite.pc = "idle" /\ L!NoWrite.by = NoUser
      BY <2>2 DEF L!Leave, L!NoWrite
    <3> QED BY <1>7, <2>0, <2>2, <3>1, <3>3, <3>4
  <2>10. ASSUME NEW c \in Callers, NEW u \in Users, NEW w, writing' = [writing EXCEPT ![c] = w],
                writing[c].by = u, w.by = u, w.pc # "idle", Climbing(w)',
                \A d \in Callers : d # c => writing[d].by # u
         PROVE  Goal
    BY <1>7, <2>0, <2>10
  <2>3. ASSUME NEW c \in Callers, L!CheckParent(c) PROVE Goal
    <3> PICK v \in Writes : v = writing[c]
      BY <1>4
    <3>1. v.pc = "parent" /\ items' = items
      BY <2>3 DEF L!CheckParent
    <3>2. CASE L!Leave(c)
      BY <2>2, <3>1, <3>2 DEF L!Create
    <3>3. CASE L!Set(c, "create")
      <4> PICK u \in Users : u = v.by
        BY <1>5, <3>1
      <4> PICK w : w = [v EXCEPT !.pc = "create"]
        OBVIOUS
      <4>1. writing' = [writing EXCEPT ![c] = w]
        BY <3>3 DEF L!Set
      <4>2. w.pc = "create" /\ w.by = u
        BY DEF Writes
      <4>3. \A d \in Callers : d # c => writing[d].by # u
        BY <1>2, <3>1
      <4>4. L!Count(u)' = L!Count(u)
        BY <3>1 DEF L!Count, L!Exists
      <4>5. Agreed(u)'
        BY <2>1, <3>1, <4>3, <4>4
      <4>6. Climbing(w)'
        BY <4>2, <4>5 DEF Climbing
      <4> QED BY <2>10, <4>1, <4>2, <4>3, <4>6
    <3> QED BY <2>3, <3>2, <3>3 DEF L!CheckParent
  <2>4. ASSUME NEW c \in Callers, L!Create(c) PROVE Goal
    <3> PICK v \in Writes : v = writing[c]
      BY <1>4
    <3>1. v.pc = "create"
      BY <2>4 DEF L!Create
    <3>2. CASE v.kind # "comment"
      BY <2>2, <2>4, <3>1, <3>2 DEF L!Create
    <3>3. CASE v.kind = "comment"
      <4> PICK u \in Users : u = v.by
        BY <1>5, <3>1
      <4> PICK w : w = [v EXCEPT !.pc = "metrics"]
        OBVIOUS
      <4>1. writing' = [writing EXCEPT ![c] = w]
        BY <2>4, <3>3 DEF L!Create, L!Set
      <4>2. w.pc = "metrics" /\ w.by = u
        BY DEF Writes
      <4>3. \A d \in Callers : d # c => writing[d].by # u
        BY <1>2, <3>1
      <4>4. progress[u].level = shown[u] /\ shown[u] = told[u]
        BY <2>1, <3>1, <4>3
      <4>5. Climbing(w)'
        BY <2>0, <4>2, <4>4 DEF Climbing
      <4> QED BY <2>10, <4>1, <4>2, <4>3, <4>5
    <3> QED BY <3>2, <3>3
  <2>5. ASSUME NEW c \in Callers, NEW u \in Users, NEW w, writing' = [writing EXCEPT ![c] = w],
               w.by = u, w.pc \in {"parent", "create", "edit", "delete"}, items' = items,
               writing[c].pc = "idle", \A d \in Callers : writing[d].by # u
        PROVE  Goal
    <3>1. Agreed(u)
      BY <1>2, <2>5
    <3>2. L!Count(u)' = L!Count(u)
      BY <2>5 DEF L!Count, L!Exists
    <3>3. writing[c].by = NoUser
      BY <1>5, <2>5
    <3>4. Agreed(u)'
      BY <2>1, <2>5, <3>1, <3>2, <3>3
    <3>5. Climbing(w)'
      BY <2>5, <3>4 DEF Climbing
    <3> QED BY <1>7, <2>0, <2>5, <3>3, <3>5
  <2>6. \A c, u : L!MayWrite(c, u) => writing[c].pc = "idle" /\ \A d \in Callers : writing[d].by # u
    BY <1>3 DEF L!MayWrite
  <2>7. ASSUME NEW c \in Callers, NEW u \in Users, NEW i, NEW kind, L!Check(c, u, kind, i) PROVE Goal
    <3> DEFINE w == [L!NoWrite EXCEPT !.pc = IF kind \in {"reply", "comment"} THEN "parent" ELSE "create",
                                      !.by = u, !.kind = kind, !.of = i]
    <3>1. w.by = u /\ w.pc \in {"parent", "create"}
      BY DEF L!NoWrite
    <3>2. writing' = [writing EXCEPT ![c] = w] /\ items' = items /\ L!MayWrite(c, u)
      BY <2>7 DEF L!Check, L!MayAdd
    <3> HIDE DEF w
    <3> QED BY <2>5, <2>6, <3>1, <3>2
  <2>8. ASSUME NEW c \in Callers, NEW u \in Users, NEW i, NEW what \in {"edit", "delete"}, NEW next,
               L!Change(c, u, i, what, next)
        PROVE  Goal
    <3> DEFINE w == [L!NoWrite EXCEPT !.pc = what, !.by = u, !.of = i, !.next = next]
    <3>1. w.by = u /\ w.pc = what
      BY DEF L!NoWrite
    <3>2. writing' = [writing EXCEPT ![c] = w] /\ items' = items /\ L!MayWrite(c, u)
      BY <2>8 DEF L!Change
    <3> HIDE DEF w
    <3> QED BY <2>5, <2>6, <3>1, <3>2
  <2>9. ASSUME NEW c \in Callers, L!Edit(c) \/ L!Delete(c) PROVE Goal
    <3>1. L!Delete(c) => "deletions" \in scene
      BY <1>4 DEF L!Delete, WriteOK
    <3> QED BY <2>2, <2>9, <3>1 DEF L!Edit, L!Delete, L!Create
  <2>11. CASE \E c \in Callers : L!CheckParent(c) \/ L!Create(c) \/ L!Edit(c) \/ L!Delete(c)
    BY <2>3, <2>4, <2>9, <2>11
  <2>12. CASE \E c \in Callers, u \in Speakers, i \in 0..Len(items) :
                \E kind \in {"post", "reply", "comment", "report"} : L!Check(c, u, kind, i)
    BY <1>3, <2>7, <2>12
  <2>13. CASE \E c \in Callers, u \in Speakers \cup Managers, i \in 1..Len(items) :
                \E what \in {"edit", "delete"}, next \in L!Statuses \cup {"none"} :
                  L!Change(c, u, i, what, next)
    BY <1>3, <2>8, <2>13
  <2> QED
    <3>1. \/ \E c \in Callers : L!CheckParent(c) \/ L!Create(c) \/ L!Edit(c) \/ L!Delete(c)
          \/ \E c \in Callers, u \in Speakers, i \in 0..Len(items) :
               \E kind \in {"post", "reply", "comment", "report"} : L!Check(c, u, kind, i)
          \/ \E c \in Callers, u \in Speakers \cup Managers, i \in 1..Len(items) :
               \E what \in {"edit", "delete"}, next \in L!Statuses \cup {"none"} :
                 L!Change(c, u, i, what, next)
      BY <1>9, Zenon DEF L!WriteStep
    <3> QED BY <2>11, <2>12, <2>13, <3>1
<1>10. ASSUME L!LevelStep, UNCHANGED items PROVE Goal
  <2> HIDE DEF Goal
  <2>0. \A u : L!Count(u)' = L!Count(u)
    BY <1>10 DEF L!Count, L!Exists
  <2>1. ASSUME NEW c \in Callers, NEW v \in Writes, v = writing[c], v.pc # "idle"
        PROVE  v.by \in Users /\ Climbing(v) /\ \A d \in Callers : d # c => writing[d].by # v.by
    BY <1>2, <1>5, <2>1
  <2>2. ASSUME NEW c \in Callers, NEW u \in Users, NEW w, writing' = [writing EXCEPT ![c] = w],
               writing[c].by = u, w.by = u, w.pc # "idle", Climbing(w)',
               \A d \in Callers : d # c => writing[d].by # u,
               \A o \in Users : o # u =>
                 progress'[o] = progress[o] /\ shown'[o] = shown[o] /\ told'[o] = told[o]
        PROVE  Goal
    BY <1>7, <2>2
  <2>3. ASSUME NEW c \in Callers, NEW u \in Users, L!Leave(c), writing[c].by = u, Agreed(u)',
               \A d \in Callers : d # c => writing[d].by # u,
               \A o \in Users : o # u =>
                 progress'[o] = progress[o] /\ shown'[o] = shown[o] /\ told'[o] = told[o]
        PROVE  Goal
    <3>1. writing' = [writing EXCEPT ![c] = L!NoWrite] /\ L!NoWrite.pc = "idle" /\ L!NoWrite.by = NoUser
      BY <2>3 DEF L!Leave, L!NoWrite
    <3> QED BY <1>7, <2>3, <3>1
  <2>4. Without({"deletions"})' = Without({"deletions"})
    BY <1>1 DEF Without
  <2>5. ASSUME NEW c \in Callers, NEW u \in Users, L!Recalculate(c, u) PROVE Goal
    <3> PICK w : w = [L!NoWrite EXCEPT !.pc = "metrics", !.by = u]
      OBVIOUS
    <3>1. /\ writing' = [writing EXCEPT ![c] = w] /\ writing[c].pc = "idle"
          /\ \A d \in Callers : writing[d].by # u
          /\ progress' = progress /\ shown' = shown /\ told' = told
      BY <1>3, <2>5 DEF L!Recalculate, L!MayWrite
    <3>2. w.pc = "metrics" /\ w.by = u /\ writing[c].by = NoUser
      BY <1>5, <3>1 DEF L!NoWrite
    <3>3. Agreed(u)
      BY <1>2, <3>1
    <3>4. Climbing(w)'
      BY <3>1, <3>2, <3>3 DEF Agreed, Climbing
    <3>5. /\ writing[c].by = u \/ writing[c].by = NoUser
          /\ \A d \in Callers : d # c => writing[d].by # u
          /\ w.pc # "idle"
      BY <3>1, <3>2
    <3> QED BY <1>7, <3>1, <3>2, <3>4, <3>5
  <2>6. ASSUME NEW c \in Callers, L!GetMetrics(c) PROVE Goal
    <3> PICK v \in Writes : v = writing[c]
      BY <1>4
    <3> PICK u : u = v.by
      OBVIOUS
    <3> PICK n \in Nat : n = L!Count(u)
      BY CountIsNat, TypeInvIs DEF TypeTable, ItemTypes
    <3> PICK w : w = [v EXCEPT !.pc = "target", !.count = n]
      OBVIOUS
    <3>1. /\ v.pc = "metrics" /\ writing' = [writing EXCEPT ![c] = w]
          /\ progress' = progress /\ shown' = shown /\ told' = told
      BY <1>4, <2>6 DEF L!GetMetrics
    <3>2. w.pc = "target" /\ w.by = u /\ w.count = n
      BY DEF Writes
    <3>3. u \in Users /\ Climbing(v) /\ \A d \in Callers : d # c => writing[d].by # u
      BY <2>1, <3>1
    <3>4. L!Count(u)' = n
      BY <2>0
    <3>5. Climbing(w)'
      BY <3>1, <3>2, <3>3, <3>4 DEF Climbing
    <3> QED BY <2>2, <3>1, <3>2, <3>3, <3>5
  <2>7. ASSUME NEW c \in Callers, L!GetTarget(c) PROVE Goal
    <3> PICK v \in Writes : v = writing[c]
      BY <1>4
    <3> PICK u : u = v.by
      OBVIOUS
    <3> PICK n : n = L!Count(u)
      OBVIOUS
    <3> PICK w : w = [v EXCEPT !.pc = "previous", !.level = L!LevelOf(n)]
      OBVIOUS
    <3>1. /\ v.pc = "target" /\ writing' = [writing EXCEPT ![c] = w]
          /\ progress' = progress /\ shown' = shown /\ told' = told
      BY <1>4, <2>7 DEF L!GetTarget
    <3>2. w.pc = "previous" /\ w.by = u /\ w.count = v.count /\ w.level = L!LevelOf(n)
      BY DEF Writes
    <3>3. u \in Users /\ Climbing(v) /\ \A d \in Callers : d # c => writing[d].by # u
      BY <2>1, <3>1
    <3>4. L!Count(u)' = n
      BY <2>0
    <3>5. Climbing(w)'
      BY <2>4, <3>1, <3>2, <3>3, <3>4 DEF Climbing
    <3> QED BY <2>2, <3>1, <3>2, <3>3, <3>5
  <2>8. ASSUME NEW c \in Callers, L!GetPrevious(c) PROVE Goal
    <3> PICK v \in Writes : v = writing[c]
      BY <1>4
    <3> PICK u : u = v.by
      OBVIOUS
    <3> PICK n : n = progress[u].level
      OBVIOUS
    <3> PICK w : w = [v EXCEPT !.pc = "save", !.previous = n]
      OBVIOUS
    <3>1. /\ v.pc = "previous" /\ writing' = [writing EXCEPT ![c] = w]
          /\ progress' = progress /\ shown' = shown /\ told' = told
      BY <1>4, <2>8 DEF L!GetPrevious
    <3>2. w.pc = "save" /\ w.by = u /\ w.count = v.count /\ w.level = v.level /\ w.previous = n
      BY DEF Writes
    <3>3. u \in Users /\ Climbing(v) /\ \A d \in Callers : d # c => writing[d].by # u
      BY <2>1, <3>1
    <3>4. L!Count(u)' = L!Count(u)
      BY <2>0
    <3>5. Climbing(w)'
      BY <2>4, <3>1, <3>2, <3>3, <3>4 DEF Climbing
    <3> QED BY <2>2, <3>1, <3>2, <3>3, <3>5
  <2>9. ASSUME NEW c \in Callers, L!SaveProgress(c) PROVE Goal
    <3> PICK v \in Writes : v = writing[c]
      BY <1>4
    <3> PICK u : u = v.by
      OBVIOUS
    <3> PICK w : w = [v EXCEPT !.pc = "show"]
      OBVIOUS
    <3>1. /\ v.pc = "save" /\ writing' = [writing EXCEPT ![c] = w]
          /\ progress' = [progress EXCEPT ![u] = [level |-> v.level, count |-> v.count]]
          /\ shown' = shown /\ told' = told
      BY <1>4, <2>9 DEF L!SaveProgress, L!Set
    <3>2. w.pc = "show" /\ w.by = u /\ w.count = v.count /\ w.level = v.level /\ w.previous = v.previous
      BY DEF Writes
    <3>3. u \in Users /\ Climbing(v) /\ \A d \in Callers : d # c => writing[d].by # u
      BY <2>1, <3>1
    <3>4. L!Count(u)' = L!Count(u)
      BY <2>0
    <3>5. progress'[u] = [level |-> v.level, count |-> v.count]
      BY <1>4, <3>1, <3>3
    <3>6. Climbing(w)'
      BY <2>4, <3>1, <3>2, <3>3, <3>4, <3>5 DEF Climbing
    <3>7. \A o \in Users : o # u =>
            progress'[o] = progress[o] /\ shown'[o] = shown[o] /\ told'[o] = told[o]
      BY <1>4, <3>1
    <3> QED BY <2>2, <3>1, <3>2, <3>3, <3>6, <3>7
  <2>10. ASSUME NEW c \in Callers, L!ShowLevel(c) PROVE Goal
    <3> PICK v \in Writes : v = writing[c]
      BY <1>4
    <3> PICK u : u = v.by
      OBVIOUS
    <3>1. /\ v.pc = "show" /\ progress' = progress /\ told' = told
          /\ shown' = [shown EXCEPT ![u] = v.level]
          /\ IF v.level = v.previous THEN L!Leave(c) ELSE L!Set(c, "announce")
      BY <2>10 DEF L!ShowLevel
    <3>2. u \in Users /\ Climbing(v) /\ \A d \in Callers : d # c => writing[d].by # u
      BY <2>1, <3>1
    <3>3. L!Count(u)' = L!Count(u)
      BY <2>0
    <3>4. shown'[u] = v.level /\ \A o \in Users : o # u =>
            progress'[o] = progress[o] /\ shown'[o] = shown[o] /\ told'[o] = told[o]
      BY <1>4, <3>1, <3>2
    <3>5. /\ progress[u].level = v.level /\ progress[u].count = v.count /\ told[u] = v.previous
          /\ Without({"deletions"}) => v.count = L!Count(u) /\ v.level = L!LevelOf(v.count)
      BY <3>1, <3>2 DEF Climbing
    <3>6. CASE v.level = v.previous
      <4>1. Agreed(u)'
        BY <2>4, <3>1, <3>3, <3>4, <3>5, <3>6 DEF Agreed
      <4> QED BY <2>3, <3>1, <3>2, <3>4, <3>6, <4>1
    <3>7. CASE v.level # v.previous
      <4> PICK w : w = [v EXCEPT !.pc = "announce"]
        OBVIOUS
      <4>1. writing' = [writing EXCEPT ![c] = w]
        BY <1>4, <3>1, <3>7 DEF L!Set
      <4>2. w.pc = "announce" /\ w.by = u /\ w.count = v.count /\ w.level = v.level
        BY DEF Writes
      <4>3. Climbing(w)'
        BY <2>4, <3>1, <3>3, <3>4, <3>5, <4>2 DEF Climbing
      <4> QED BY <2>2, <3>2, <3>4, <4>1, <4>2, <4>3
    <3> QED BY <3>6, <3>7
  <2>11. ASSUME NEW c \in Callers, L!Announce(c) PROVE Goal
    <3> PICK v \in Writes : v = writing[c]
      BY <1>4
    <3> PICK u : u = v.by
      OBVIOUS
    <3>1. /\ v.pc = "announce" /\ progress' = progress /\ shown' = shown
          /\ told' = [told EXCEPT ![u] = v.level] /\ L!Leave(c)
      BY <2>11 DEF L!Announce
    <3>2. u \in Users /\ Climbing(v) /\ \A d \in Callers : d # c => writing[d].by # u
      BY <2>1, <3>1
    <3>3. L!Count(u)' = L!Count(u)
      BY <2>0
    <3>4. told'[u] = v.level /\ \A o \in Users : o # u =>
            progress'[o] = progress[o] /\ shown'[o] = shown[o] /\ told'[o] = told[o]
      BY <1>4, <3>1, <3>2
    <3>5. /\ progress[u].level = v.level /\ progress[u].count = v.count /\ shown[u] = v.level
          /\ Without({"deletions"}) => v.count = L!Count(u) /\ v.level = L!LevelOf(v.count)
      BY <3>1, <3>2 DEF Climbing
    <3>6. Agreed(u)'
      BY <2>4, <3>1, <3>3, <3>4, <3>5 DEF Agreed
    <3> QED BY <2>3, <3>1, <3>2, <3>4, <3>6
  <2> QED BY <1>3, <1>10, <2>5, <2>6, <2>7, <2>8, <2>9, <2>10, <2>11 DEF L!LevelStep, L!LevelError
<1> QED BY <1>8, <1>9, <1>10, Frames

LEMMA LevelFirst == Init => LevelInv
<1> SUFFICES ASSUME Init PROVE LevelInv
  OBVIOUS
<1>1. /\ writing = [c \in Callers |-> L!NoWrite] /\ progress = [u \in Users |-> L!NoProgress]
      /\ shown = [u \in Users |-> 0] /\ told = [u \in Users |-> 0]
  BY DEF Init, L!ContentInit, L!LevelsInit
<1>2. \A c \in Callers : writing[c].pc = "idle" /\ Climbing(writing[c])
  BY <1>1 DEF L!NoWrite, Climbing
<1>3. \A u \in Users : Agreed(u)
  BY <1>1 DEF Agreed, L!NoProgress
<1> QED BY <1>2, <1>3 DEF LevelInv

LEMMA LevelAlways == Spec => []LevelInv
<1>1. TypeInv /\ LevelInv /\ [Next]_vars => LevelInv'
  BY LevelKept
<1> QED BY <1>1, LevelFirst, TypeInvCorrect, PTL DEF Spec

\* Nothing is written by who is barred or under what is closed, and what was
\* moderated is not changed, unless moderation or its author overtakes a call;
\* the audit entries of an item chain from its creation to its status, unless
\* moderators overlap or fail; and a user's level is that of his progress, his
\* profile and the last announcement, and counts every comment, unless his calls
\* overlap or fail.
THEOREM ContentAgreesCorrect == Spec => []ContentAgrees
<1>1. WriteInv /\ RecordInv /\ LevelInv => ContentAgrees
  <2> SUFFICES ASSUME WriteInv, RecordInv, LevelInv PROVE ContentAgrees
    OBVIOUS
  <2>1. Without({"late_moderation"}) => \A i \in 1..Len(items) :
          /\ Without({"author_status"}) => items[i].fair
          /\ items[i].kind = "comment" /\ items[i].status \in {"hidden", "archived"}
               => items[i].text = items[i].kept
    BY DEF WriteInv, Clean
  <2>2. Without({"late_moderation", "overlap_moderators", "record_error", "author_status"}) =>
          \A i \in 1..Len(items) : L!Exists(i) /\ (\A c \in Callers : reviewing[c].of # i) =>
            /\ \A j \in 1..Len(records) : records[j].of = i => records[j].was = Filed(i, j - 1)
            /\ items[i].status = Filed(i, Len(records))
    BY DEF RecordInv, FiledWell
  <2>3. Without({"overlap_writes", "level_error"}) => \A u \in Users : ~Levelling(u) => Agreed(u)
    BY DEF LevelInv
  <2> QED BY <2>1, <2>2, <2>3 DEF ContentAgrees, Agreed
<1> QED BY <1>1, WriteAlways, RecordAlways, LevelAlways, PTL

-------------------------------------------------------------------------------
(* Notices: who is told.                                                   *)

\* What a publication is judged by changes only while it is watched.
LEMMA NoticeFrames ==
  ASSUME [Next]_vars
  PROVE  \/ N!MailStep /\ UNCHANGED <<clock, follows, prefs, flagCache>>
         \/ UNCHANGED <<clock, follows, prefs, flagCache, mailing, notices>>
         \/ N!NoticesWatch /\ UNCHANGED <<notices, items>>
<1> USE DEF noticeVars, contentVars
<1>1. CASE UNCHANGED vars
  BY <1>1 DEF vars
<1>2. CASE Hour /\ N!NoticesWatch
  BY <1>2 DEF Hour
<1>3. CASE UNCHANGED <<clock, noticeVars, mailing>>
  BY <1>3
<1>4. CASE N!NoticesWatch /\ UNCHANGED <<clock, contentVars, notices>>
  BY <1>4
<1>5. CASE N!MailStep /\ UNCHANGED <<clock, follows, prefs, flagCache>>
  BY <1>5
<1> QED BY <1>1, <1>2, <1>3, <1>4, <1>5 DEF Next

\* The longer a publication is watched, the more it may have read, the fewer
\* must be told and the more may.
LEMMA HadGrows ==
  ASSUME NEW p \in Mails, NEW q, q.seen = p.seen, q.unread = p.unread,
         q.always \subseteq p.always, p.eligible \subseteq q.eligible,
         \A u \in Users : p.had[u] \subseteq q.had[u]
  PROVE  /\ \A u \in Users : Read(p, u) => Read(q, u)
         /\ Always(q) \subseteq Always(p) /\ Ever(p) \subseteq Ever(q)
<1>1. \A u \in Users : N!Mixes(p.had[u]) \subseteq N!Mixes(q.had[u])
  BY DEF N!Mixes
<1>2. p.always \subseteq Users /\ p.eligible \subseteq Users
  BY MailIs
<1>3. \A u \in Users : Read(p, u) => Read(q, u)
  BY DEF Read
<1>4. Always(q) \subseteq Always(p)
  BY <1>1, <1>2 DEF Always
<1>5. Ever(p) \subseteq Ever(q)
  BY <1>1, <1>2 DEF Ever
<1> QED BY <1>3, <1>4, <1>5

\* What is watched stays judged rightly.
LEMMA WatchersTell ==
  ASSUME MailTypes, SettingTypes', N!NoticesWatch, NEW c \in Callers, NEW q, q = mailing'[c],
         \A m \in {mailing[c]} : Telling(m)
  PROVE  Telling(q)'
<1> PICK p \in Mails : p = mailing[c] /\ Telling(p)
  BY DEF MailTypes
<1>1. CASE p.pc = "idle"
  <2>1. q = p
    BY <1>1 DEF N!NoticesWatch
  <2> QED BY <1>1, <2>1 DEF Telling
<1>2. CASE p.pc # "idle"
  <2> PICK k : k = p.modes \cup {flagCache'}
    OBVIOUS
  <2> PICK h : h = [u \in Users |-> p.had[u] \cup {prefs'[u]}]
    OBVIOUS
  <2> PICK a : a = N!Awaiting'[p.urgency][k]
    OBVIOUS
  <2> PICK e : e = N!Expecting'[p.urgency][k]
    OBVIOUS
  <2>1. q = [p EXCEPT !.modes = k, !.always = p.always \cap a,
                      !.eligible = p.eligible \cup e, !.had = h]
    BY <1>2, Zenon DEF N!NoticesWatch
  <2>2. /\ q.pc = p.pc /\ q.urgency = p.urgency /\ q.to = p.to /\ q.strict = p.strict
        /\ q.unread = p.unread /\ q.seen = p.seen /\ q.modes = k /\ q.had = h
        /\ q.always = p.always \cap a /\ q.eligible = p.eligible \cup e
    BY <2>1 DEF Mails
  <2>3. \A u \in Users : p.had[u] \subseteq q.had[u] /\ prefs'[u] \in q.had[u]
    BY <2>2
  <2>4. /\ \A u \in Users : Read(p, u) => Read(q, u)
        /\ Always(q) \subseteq Always(p) /\ Ever(p) \subseteq Ever(q)
    BY <2>2, <2>3, HadGrows
  <2>5. /\ p.pc = "follows" => p.strict \in p.modes
        /\ p.pc = "filter" =>
             p.always \subseteq p.to /\ p.to \subseteq p.eligible /\ \A u \in Users : Read(p, u)
        /\ p.pc = "insert" => Always(p) \subseteq p.to /\ p.to \subseteq Ever(p)
    BY <1>2 DEF Telling
  <2>6. /\ q.pc = "follows" => q.strict \in q.modes
        /\ q.pc = "filter" =>
             q.always \subseteq q.to /\ q.to \subseteq q.eligible /\ \A u \in Users : Read(q, u)
        /\ q.pc = "insert" => Always(q) \subseteq q.to /\ q.to \subseteq Ever(q)
    BY <2>2, <2>4, <2>5
  <2>7. /\ flagCache' \in q.modes /\ q.always \subseteq a /\ e \subseteq q.eligible
        /\ a = N!Awaiting'[q.urgency][q.modes] /\ e = N!Expecting'[q.urgency][q.modes]
    BY <2>2
  <2>8. (Read(q, c) <=> Read(q, c)') /\ Always(q)' = Always(q) /\ Ever(q)' = Ever(q)
    BY DEF Read, Always, Ever
  <2> HIDE DEF N!Mixes
  <2> QED BY <2>3, <2>6, <2>7 DEF Telling, Read, Always, Ever
<1> QED BY <1>1, <1>2

\* The flag's value that was read is one that counts; who is alerted by it was
\* to be, and who was to be by every value is.
LEMMA ResolvedTells ==
  ASSUME SettingTypes, clock \in Nat, NEW m \in Mails, Telling(m), m.pc = "follows",
         NEW q, q = Resolved(m)
  PROVE  Telling(q)
<1> PICK t : t = {u \in Users : N!Alerted(u, m.urgency, m.strict)}
  OBVIOUS
<1>1. q = [m EXCEPT !.pc = "filter", !.unread = N!Rows, !.to = t]
  BY DEF Resolved
<1>2. /\ q.pc = "filter" /\ q.unread = N!Rows /\ q.to = t /\ q.urgency = m.urgency
      /\ q.modes = m.modes /\ q.always = m.always /\ q.eligible = m.eligible /\ q.had = m.had
  BY <1>1 DEF Mails
<1>3. /\ m.strict \in m.modes /\ m.always \subseteq N!Awaiting[m.urgency][m.modes]
      /\ N!Expecting[m.urgency][m.modes] \subseteq m.eligible
      /\ flagCache \in m.modes /\ \A u \in Users : prefs[u] \in m.had[u]
  BY DEF Telling
<1>4. \A u \in Users : N!Alerted(u, m.urgency, m.strict) <=> N!Awaits(u, m.urgency, m.strict)
  <2> TAKE u \in Users
  <2>1. follows[u] \in FollowRows /\ m.urgency \in N!Urgencies /\ m.strict \in BOOLEAN
    BY MailIs DEF SettingTypes
  <2> PICK f \in FollowRows : f = follows[u]
    BY <2>1
  <2>2. f.muted \in Nat /\ f.least \in Int /\ m.urgency \in Int
    BY <2>1 DEF FollowRows, N!Urgencies
  <2>3. (f.muted <= clock) <=> (clock >= f.muted)
    BY <2>2
  <2> QED BY <2>1, <2>3 DEF N!Alerted, N!Awaits
<1>5. m.always \subseteq t
  <2>1. N!Awaiting[m.urgency][m.modes] = {u \in Users : \A s \in m.modes : N!Awaits(u, m.urgency, s)}
    BY MailIs DEF N!Awaiting
  <2> QED BY <1>3, <1>4, <2>1
<1>6. t \subseteq m.eligible
  <2>1. N!Expecting[m.urgency][m.modes] = {u \in Users : \E s \in m.modes : N!Awaits(u, m.urgency, s)}
    BY MailIs DEF N!Expecting
  <2> QED BY <1>3, <1>4, <2>1
<1>7. \A u \in Users : Read(q, u)
  BY <1>2 DEF Read, N!Rows
<1> QED BY <1>2, <1>3, <1>5, <1>6, <1>7 DEF Telling

\* What is read of a user's preferences is what he has now.
LEMMA LoadedTells ==
  ASSUME NEW m \in Mails, Telling(m), m.pc = "filter", NEW rows \in SUBSET N!Rows,
         NEW q, q = Loaded(m, rows)
  PROVE  Telling(q)
<1> PICK s : s = [u \in Users |-> Loads(rows, m.seen[u], prefs[u])]
  OBVIOUS
<1>1. q = [m EXCEPT !.unread = m.unread \ rows, !.seen = s]
  BY DEF Loaded
<1>2. /\ q.pc = "filter" /\ q.unread = m.unread \ rows /\ q.seen = s /\ q.to = m.to
      /\ q.urgency = m.urgency
      /\ q.modes = m.modes /\ q.always = m.always /\ q.eligible = m.eligible /\ q.had = m.had
  BY <1>1 DEF Mails
<1>3. /\ \A u \in Users : prefs[u] \in m.had[u] /\ Read(m, u)
      /\ m.always \subseteq N!Awaiting[m.urgency][m.modes]
      /\ N!Expecting[m.urgency][m.modes] \subseteq m.eligible
      /\ flagCache \in m.modes /\ m.always \subseteq m.to /\ m.to \subseteq m.eligible
  BY DEF Telling
<1>4. ASSUME NEW u \in Users PROVE Read(q, u)
  <2> PICK old : old = m.seen[u]
    OBVIOUS
  <2> PICK new : new = prefs[u]
    OBVIOUS
  <2> PICK x : x = q.seen[u]
    OBVIOUS
  <2>1. x = Loads(rows, old, new)
    BY <1>2
  <2>2. /\ x.master = IF "settings" \in rows THEN new.master ELSE old.master
        /\ x.type = IF "overrides" \in rows THEN new.type ELSE old.type
        /\ x.category = IF "categories" \in rows THEN new.category ELSE old.category
    BY <2>1 DEF Loads
  <2>3. /\ "settings" \in m.unread \/ \E p \in m.had[u] : old.master = p.master
        /\ "overrides" \in m.unread \/ \E p \in m.had[u] : old.type = p.type
        /\ "categories" \in m.unread \/ \E p \in m.had[u] : old.category = p.category
    BY <1>3 DEF Read
  <2>4. new \in m.had[u]
    BY <1>3
  <2>5. /\ "settings" \in q.unread \/ \E p \in q.had[u] : x.master = p.master
        /\ "overrides" \in q.unread \/ \E p \in q.had[u] : x.type = p.type
        /\ "categories" \in q.unread \/ \E p \in q.had[u] : x.category = p.category
    BY <1>2, <2>2, <2>3, <2>4
  <2> QED BY <2>5 DEF Read
<1> QED BY <1>2, <1>3, <1>4 DEF Telling

\* Who is kept wished it by some mix of what he had; who did by every mix is.
LEMMA FilteredTells ==
  ASSUME NEW m \in Mails, Telling(m), m.pc = "filter", m.unread = {}, NEW q, q = Filtered(m)
  PROVE  Telling(q)
<1> PICK t : t = {u \in m.to : N!Wanted(m.seen[u])}
  OBVIOUS
<1>1. q = [m EXCEPT !.pc = "insert", !.to = t]
  BY DEF Filtered
<1>2. /\ q.pc = "insert" /\ q.to = t /\ q.urgency = m.urgency
      /\ q.modes = m.modes /\ q.always = m.always /\ q.eligible = m.eligible /\ q.had = m.had
  BY <1>1 DEF Mails
<1>3. /\ \A u \in Users : prefs[u] \in m.had[u] /\ Read(m, u)
      /\ m.always \subseteq N!Awaiting[m.urgency][m.modes]
      /\ N!Expecting[m.urgency][m.modes] \subseteq m.eligible
      /\ flagCache \in m.modes /\ m.always \subseteq m.to /\ m.to \subseteq m.eligible
  BY DEF Telling
<1>4. m.always \subseteq Users /\ m.to \subseteq Users /\ m.seen \in [Users -> N!Prefs]
  BY MailIs
<1>5. ASSUME NEW u \in Users
      PROVE  m.seen[u] \in N!Mixes(m.had[u]) /\ (N!Wishes(m.seen[u]) <=> N!Wanted(m.seen[u]))
  <2> PICK x \in N!Prefs : x = m.seen[u]
    BY <1>4
  <2>1. x \in N!Mixes(m.had[u])
    BY <1>3 DEF Read, N!Mixes
  <2>2. N!Wishes(x) <=> N!Wanted(x)
    BY DEF N!Wishes, N!Wanted, N!Prefs
  <2> QED BY <2>1, <2>2
<1> HIDE DEF N!Mixes
<1>6. Always(q) \subseteq q.to
  BY <1>2, <1>3, <1>4, <1>5 DEF Always
<1>7. q.to \subseteq Ever(q)
  BY <1>2, <1>3, <1>4, <1>5 DEF Ever
<1> QED BY <1>2, <1>3, <1>6, <1>7 DEF Telling

LEMMA MovesTell ==
  ASSUME SettingTypes, clock \in Nat, NEW m \in Mails, Telling(m), NEW q, Moves(m, q)
  PROVE  Telling(q)
<1>1. CASE m.pc = "resolve" /\ q = FlagRead(m)
  <2>1. q = [m EXCEPT !.pc = "follows", !.strict = flagCache]
    BY <1>1 DEF FlagRead
  <2>2. /\ q.pc = "follows" /\ q.strict = flagCache /\ q.urgency = m.urgency
        /\ q.modes = m.modes /\ q.always = m.always /\ q.eligible = m.eligible /\ q.had = m.had
    BY <2>1 DEF Mails
  <2> QED BY <1>1, <2>2 DEF Telling
<1> QED BY <1>1, ResolvedTells, LoadedTells, FilteredTells DEF Moves

\* A publication begins with those who are to be told now.
LEMMA BegunTells ==
  ASSUME SettingTypes, FlagTypes, NEW n \in Nat, NEW urgency \in N!Urgencies, NEW q,
         q = Begun(n, urgency)
  PROVE  Telling(q)
<1>1. Begins(q, urgency)
  BY BegunIs
<1> QED BY <1>1 DEF Begins, Telling

\* Whoever is told was one to tell when the followers were read, and wanted it
\* when the preferences were; who was and did all the time is told.
LEMMA NoticeKept ==
  ASSUME TypeInv, NoticeInv, [Next]_vars
  PROVE  NoticeInv'
<1>1. SettingTypes /\ FlagTypes /\ MailTypes /\ clock \in Nat /\ Len(items) \in Nat
  BY TypeInvIs DEF TypeTable, ItemTypes
<1>2. mailing \in [Callers -> Mails] /\ notices \in Seq(NoticeRows)
  BY <1>1 DEF MailTypes
<1>3. /\ \A i \in 1..Len(notices) : Told(notices[i])
      /\ \A c \in Callers : \A m \in {mailing[c]} : Telling(m)
  BY DEF NoticeInv
<1>4. SettingTypes'
  BY TypeStep, TypeInvIs, PTL DEF TypeTable
<1> SUFFICES /\ \A i \in 1..Len(notices') : Told(notices'[i])
             /\ \A c \in Callers : \A m : m = mailing'[c] => Telling(m)'
  BY DEF NoticeInv, Told
<1>5. CASE N!NoticesWatch /\ UNCHANGED notices
  BY <1>1, <1>3, <1>4, <1>5, WatchersTell
<1>6. CASE UNCHANGED <<clock, follows, prefs, flagCache>>
  <2>1. N!Awaiting' = N!Awaiting /\ N!Expecting' = N!Expecting
    BY <1>6 DEF N!Awaiting, N!Awaits, N!Expecting
  <2>2. \A m : Telling(m) => Telling(m)'
    BY <1>6, <2>1 DEF Telling, Read, Always, Ever
  <2>3. CASE UNCHANGED <<mailing, notices>>
    BY <1>3, <2>2, <2>3
  <2>4. ASSUME NEW c \in Callers, NEW q, mailing' = [mailing EXCEPT ![c] = q], Telling(q),
               \/ notices' = notices
               \/ \E x \in NoticeRows : notices' = Append(notices, x) /\ Told(x)
        PROVE  /\ \A i \in 1..Len(notices') : Told(notices'[i])
               /\ \A d \in Callers : \A m : m = mailing'[d] => Telling(m)'
    <3>1. \A d \in Callers : \A m : m = mailing'[d] => Telling(m)'
      BY <1>2, <1>3, <2>2, <2>4
    <3>2. CASE notices' = notices
      BY <1>3, <3>1, <3>2
    <3>3. ASSUME NEW x \in NoticeRows, notices' = Append(notices, x), Told(x)
          PROVE  \A i \in 1..Len(notices') : Told(notices'[i])
      <4> HIDE DEF NoticeRows
      <4>1. Len(notices') = Len(notices) + 1 /\ Len(notices) \in Nat /\ notices'[Len(notices) + 1] = x
        BY <1>2, <3>3
      <4>2. \A i \in 1..Len(notices) : notices'[i] = notices[i]
        BY <1>2, <3>3
      <4> QED BY <1>3, <3>3, <4>1, <4>2
    <3> QED BY <2>4, <3>1, <3>2, <3>3
  <2>5. ASSUME NEW c \in Callers, MovesOn(c)
        PROVE  \E q : mailing' = [mailing EXCEPT ![c] = q] /\ Telling(q) /\ notices' = notices
    <3> PICK m \in Mails : m = mailing[c] /\ Telling(m)
      BY <1>2, <1>3
    <3>1. PICK q : mailing' = [mailing EXCEPT ![c] = q] /\ Moves(m, q) /\ notices' = notices
      BY <1>2, <2>5, MovesAre
    <3> QED BY <1>1, <3>1, MovesTell
  <2>6. Telling(N!NoMail)
    BY NoMailIs DEF Telling
  <2>7. ASSUME NEW c \in Callers, N!Insert(c)
        PROVE  \E x \in NoticeRows : notices' = Append(notices, x) /\ Told(x)
    <3> PICK p \in Mails : p = mailing[c] /\ Telling(p)
      BY <1>2, <1>3
    <3> PICK x : x = [update |-> p.update, to |-> p.to, must |-> Always(p), may |-> Ever(p)]
      OBVIOUS
    <3>1. p.pc = "insert" /\ notices' = Append(notices, x)
      BY <2>7 DEF N!Insert, Always, Ever
    <3>2. x \in NoticeRows
      BY MailIs DEF NoticeRows, Always, Ever
    <3>3. Told(x)
      BY <3>1 DEF Telling, Told
    <3> QED BY <3>1, <3>2, <3>3
  <2>8. ASSUME NEW c \in Callers, NEW u \in Users, NEW urgency \in N!Urgencies,
               N!Publish(c, u, urgency)
        PROVE  \E q : mailing' = [mailing EXCEPT ![c] = q] /\ Telling(q) /\ notices' = notices
    <3> PICK q : q = Begun(Len(items) + 1, urgency)
      OBVIOUS
    <3>1. mailing' = [mailing EXCEPT ![c] = q] /\ notices' = notices
      BY <2>8 DEF N!Publish, Begun
    <3>2. Len(items) + 1 \in Nat
      BY <1>1
    <3>3. Telling(q)
      BY <1>1, <3>2, BegunTells
    <3> QED BY <3>1, <3>3
  <2>9. CASE N!MailStep
    <3> PICK c \in Callers :
          \/ MovesOn(c) \/ N!Insert(c) \/ N!MailError(c)
          \/ \E u \in Users, urgency \in N!Urgencies : N!Publish(c, u, urgency)
      BY <2>9 DEF N!MailStep, MovesOn
    <3>1. CASE N!Insert(c) \/ N!MailError(c)
      <4>1. mailing' = [mailing EXCEPT ![c] = N!NoMail]
        BY <3>1 DEF N!Insert, N!MailError
      <4>2. N!MailError(c) => notices' = notices
        BY DEF N!MailError
      <4> QED BY <2>4, <2>6, <2>7, <3>1, <4>1, <4>2
    <3>2. CASE ~(N!Insert(c) \/ N!MailError(c))
      BY <2>4, <2>5, <2>8, <3>2
    <3> QED BY <3>1, <3>2
  <2>10. UNCHANGED <<mailing, notices>> \/ N!MailStep \/ (N!NoticesWatch /\ UNCHANGED notices)
    BY NoticeFrames
  <2> QED BY <1>5, <2>3, <2>9, <2>10
<1> QED BY <1>5, <1>6, NoticeFrames
LEMMA NoticeFirst == Init => NoticeInv
<1> SUFFICES ASSUME Init PROVE NoticeInv
  OBVIOUS
<1>1. notices = <<>> /\ mailing = [c \in Callers |-> N!NoMail]
  BY DEF Init, N!NoticesInit
<1>2. 1..Len(notices) = {} /\ \A c \in Callers : mailing[c].pc = "idle"
  BY <1>1, NoMailIs
<1> QED BY <1>2 DEF NoticeInv, Telling

LEMMA NoticeAlways == Spec => []NoticeInv
<1>1. TypeInv /\ NoticeInv /\ [Next]_vars => NoticeInv'
  BY NoticeKept
<1> QED BY <1>1, NoticeFirst, TypeInvCorrect, PTL DEF Spec

-------------------------------------------------------------------------------
(* Notices: once, and the flag.                                            *)

\* An update is there by its publication only.
LEMMA PublishedStays ==
  ASSUME TypeInv, [Next]_vars
  PROVE  N!Published' = N!Published \/ (N!MailStep /\ ~UNCHANGED items)
<1>1. /\ items \in Seq(ItemRows) /\ Len(items) \in Nat /\ ItemsMove
      /\ \A c \in Callers : writing[c] \in Writes
  BY TypeInvIs, ItemsAlways DEF TypeTable, ItemTypes
<1>2. CASE UNCHANGED items
  BY <1>2 DEF N!Published
<1>3. ASSUME NEW i, NEW y, Changed(i, y) PROVE N!Published' = N!Published
  <2>1. /\ Len(items') = Len(items) /\ items'[i] = y /\ y.kind = items[i].kind
        /\ \A j \in 1..Len(items) : j # i => items'[j] = items[j]
    BY <1>1, <1>3, ChangedIs DEF Changed
  <2>2. \A j \in 1..Len(items) : items'[j].kind = items[j].kind
    BY <2>1
  <2> QED BY <2>1, <2>2 DEF N!Published
<1>4. ASSUME NEW x, Added(x), Fresh(x), ~N!MailStep PROVE N!Published' = N!Published
  <2>1. /\ Len(items') = Len(items) + 1 /\ items'[Len(items) + 1] = x
        /\ \A j \in 1..Len(items) : items'[j] = items[j]
    BY <1>1, <1>4, AddedIs
  <2>2. x.kind # "update"
    BY <1>1, <1>4 DEF Fresh, Writes
  <2>3. 1..Len(items') = 1..Len(items) \cup {Len(items) + 1}
    BY <1>1, <2>1
  <2> QED BY <2>1, <2>2, <2>3 DEF N!Published
<1> QED BY <1>1, <1>2, <1>3, <1>4 DEF ItemsMove

\* An update has one publication under way or one entry of notices.
LEMMA OnceKept ==
  ASSUME TypeInv, OnceInv, [Next]_vars
  PROVE  OnceInv'
<1>1. /\ items \in Seq(ItemRows) /\ Len(items) \in Nat
      /\ SettingTypes /\ FlagTypes /\ MailTypes /\ MailsOK
      /\ mailing \in [Callers -> Mails] /\ notices \in Seq(NoticeRows) /\ Len(notices) \in Nat
  BY TypeInvIs DEF TypeTable, ItemTypes, MailTypes
<1>2. UNCHANGED scene
  BY Frames
<1>3. /\ \A i \in N!Published : i \in 1..Len(items) /\ i # 0 /\ i # Len(items) + 1
      /\ N!NoMail.update = 0
  BY <1>1, NoMailIs DEF N!Published
<1>4. \A c \in Callers : /\ mailing[c].pc = "idle" => mailing[c].update = 0
                         /\ mailing[c].pc # "idle" => mailing[c].update \in N!Published
  BY <1>1, <1>3 DEF MailsOK
<1>5. ASSUME N!Published' = N!Published, notices' = notices,
             \A c \in Callers : /\ mailing'[c].update = mailing[c].update
                                /\ mailing'[c].pc = "idle" <=> mailing[c].pc = "idle"
      PROVE  OnceInv'
  BY <1>2, <1>5 DEF OnceInv, Without
<1>6. CASE UNCHANGED <<mailing, notices>> /\ ~N!MailStep
  <2>1. N!Published' = N!Published
    BY <1>6, PublishedStays
  <2> QED BY <1>5, <1>6, <2>1
<1>7. CASE N!NoticesWatch /\ UNCHANGED <<notices, items>>
  <2>1. N!Published' = N!Published
    BY <1>7 DEF N!Published
  <2>2. SettingTypes' /\ FlagTypes'
    BY TypeStep, TypeInvIs, PTL DEF TypeTable
  <2>3. \A c \in Callers : mailing'[c].pc = mailing[c].pc /\ mailing'[c].update = mailing[c].update
    BY <1>1, <1>7, <2>2, WatchTypes
  <2> QED BY <1>5, <1>7, <2>1, <2>3
<1>8. ASSUME NEW c \in Callers, MovesOn(c) PROVE OnceInv'
  <2>1. UNCHANGED <<items, notices>>
    BY <1>1, <1>8, MovesAre
  <2>2. PICK q : mailing' = [mailing EXCEPT ![c] = q] /\ Moves(mailing[c], q)
    BY <1>1, <1>8, MovesAre
  <2>3. mailing[c].pc # "idle" /\ q.pc # "idle" /\ q.update = mailing[c].update
    BY <1>1, <2>2, MovesTypes
  <2>4. \A d \in Callers : /\ mailing'[d].update = mailing[d].update
                           /\ mailing'[d].pc = "idle" <=> mailing[d].pc = "idle"
    BY <1>1, <2>2, <2>3
  <2>5. N!Published' = N!Published
    BY <2>1 DEF N!Published
  <2> QED BY <1>5, <2>1, <2>4, <2>5
<1>9. ASSUME NEW c \in Callers, N!MailError(c) PROVE OnceInv'
  <2>1. /\ "mail_error" \in scene /\ UNCHANGED <<items, notices>>
        /\ mailing' = [mailing EXCEPT ![c] = N!NoMail]
    BY <1>9 DEF N!MailError
  <2>2. /\ mailing'[c].pc = "idle" /\ mailing'[c].update = 0
        /\ \A d \in Callers : d # c => mailing'[d] = mailing[d]
    BY <1>1, <1>3, <2>1, NoMailIs
  <2>3. N!Published' = N!Published
    BY <2>1 DEF N!Published
  <2>4. \A j \in 1..Len(notices) : notices[j].update # 0
    BY <1>3 DEF OnceInv
  <2>5. ~Without({"mail_error"})'
    BY <1>2, <2>1 DEF Without
  <2>6. \A d, e \in Callers : mailing'[d].pc # "idle" /\ mailing'[d].update = mailing'[e].update => d = e
    BY <1>3, <1>4, <2>2 DEF OnceInv
  <2>7. \A d \in Callers, j \in 1..Len(notices) : mailing'[d].update # notices[j].update
    BY <2>2, <2>4 DEF OnceInv
  <2> QED BY <2>1, <2>3, <2>5, <2>6, <2>7 DEF OnceInv
<1>10. ASSUME NEW c \in Callers, N!Insert(c) PROVE OnceInv'
  <2> PICK n : n = mailing[c].update
    OBVIOUS
  <2>1. PICK x \in NoticeRows : x.update = n /\ notices' = Append(notices, x)
    <3> PICK p \in Mails : p = mailing[c]
      BY <1>1
    <3> DEFINE x == [update |-> p.update, to |-> p.to, must |-> Always(p), may |-> Ever(p)]
    <3>1. x \in NoticeRows /\ x.update = n
      BY MailIs DEF NoticeRows, Always, Ever
    <3>2. notices' = Append(notices, x)
      BY <1>10 DEF N!Insert, Always, Ever
    <3> QED BY <3>1, <3>2
  <2>2. /\ UNCHANGED items /\ mailing[c].pc = "insert" /\ mailing' = [mailing EXCEPT ![c] = N!NoMail]
    BY <1>10 DEF N!Insert
  <2>3. /\ mailing'[c].pc = "idle" /\ mailing'[c].update = 0
        /\ \A d \in Callers : d # c => mailing'[d] = mailing[d]
    BY <1>1, <1>3, <2>2, NoMailIs
  <2>4. N!Published' = N!Published /\ n \in N!Published /\ n # 0
    BY <1>3, <1>4, <2>2 DEF N!Published
  <2>5. /\ Len(notices') = Len(notices) + 1 /\ notices'[Len(notices) + 1] = x
        /\ \A j \in 1..Len(notices) : notices'[j] = notices[j]
    <3> HIDE DEF NoticeRows
    <3> QED BY <1>1, <2>1
  <2>6. 1..Len(notices') = 1..Len(notices) \cup {Len(notices) + 1} /\ Len(notices) + 1 \notin 1..Len(notices)
    BY <1>1, <2>5
  <2>7. \A j \in 1..Len(notices) : notices[j].update # n /\ notices[j].update \in N!Published
    BY DEF OnceInv
  <2>8. \A d \in Callers : d # c => mailing[d].update # n
    BY <2>2 DEF OnceInv
  <2>9. \A j \in 1..Len(notices') : notices'[j].update \in N!Published'
    BY <2>1, <2>4, <2>5, <2>6, <2>7
  <2>10. \A j, k \in 1..Len(notices') : notices'[j].update = notices'[k].update => j = k
    <3>1. \A j, k \in 1..Len(notices) : notices[j].update = notices[k].update => j = k
      BY DEF OnceInv
    <3> QED BY <2>1, <2>5, <2>6, <2>7, <3>1
  <2>11. \A d, e \in Callers : mailing'[d].pc # "idle" /\ mailing'[d].update = mailing'[e].update => d = e
    BY <1>3, <1>4, <2>3 DEF OnceInv
  <2>12. \A d \in Callers, j \in 1..Len(notices') : mailing'[d].update # notices'[j].update
    <3>1. \A d \in Callers, j \in 1..Len(notices) : mailing[d].update # notices[j].update
      BY DEF OnceInv
    <3> QED BY <1>3, <2>1, <2>3, <2>4, <2>5, <2>6, <2>7, <2>8, <3>1
  <2>13. ASSUME Without({"mail_error"}), NEW i \in N!Published, i > Len(FirstItems[scene])
         PROVE  (\E d \in Callers : mailing'[d].update = i) \/ (\E j \in 1..Len(notices') : notices'[j].update = i)
    <3>1. CASE i = n
      BY <2>1, <2>5, <2>6, <3>1
    <3>2. CASE i # n
      <4>1. (\E d \in Callers : mailing[d].update = i) \/ \E j \in 1..Len(notices) : notices[j].update = i
        BY <2>13 DEF OnceInv
      <4> QED BY <2>3, <2>5, <2>6, <3>2, <4>1
    <3> QED BY <3>1, <3>2
  <2> QED BY <1>2, <2>4, <2>9, <2>10, <2>11, <2>12, <2>13 DEF OnceInv, Without
<1>11. ASSUME NEW c \in Callers, NEW u \in Users, NEW urgency \in N!Urgencies, N!Publish(c, u, urgency)
       PROVE  OnceInv'
  <2> PICK n : n = Len(items) + 1
    OBVIOUS
  <2>1. PICK q : q.pc = "resolve" /\ q.update = n /\ mailing' = [mailing EXCEPT ![c] = q]
    <3> PICK q : q = Begun(n, urgency)
      OBVIOUS
    <3>1. q.pc = "resolve" /\ q.update = n
      BY <1>1, BegunIs
    <3>2. mailing' = [mailing EXCEPT ![c] = q]
      BY <1>11 DEF N!Publish, Begun
    <3> QED BY <3>1, <3>2
  <2>2. mailing[c].pc = "idle" /\ notices' = notices
    BY <1>11 DEF N!Publish
  <2>3. mailing'[c] = q /\ \A d \in Callers : d # c => mailing'[d] = mailing[d]
    BY <1>1, <2>1
  <2>4. N!Published' = N!Published \cup {n}
    <3>1. PICK x : x.kind = "update" /\ items' = Append(items, x)
      BY <1>11 DEF N!Publish
    <3>3. /\ Len(items') = n /\ items'[n] = x
          /\ \A j \in 1..Len(items) : items'[j] = items[j]
      <4> HIDE DEF ItemRows
      <4> QED BY <1>1, <3>1
    <3>4. 1..Len(items') = 1..Len(items) \cup {n}
      BY <1>1, <3>3
    <3> QED BY <3>1, <3>3, <3>4 DEF N!Published
  <2>5. n # 0 /\ n \notin N!Published
    BY <1>1, <1>3
  <2>6. /\ \A j \in 1..Len(notices) : notices[j].update \in N!Published /\ notices[j].update # n
        /\ \A d \in Callers : mailing[d].update # n
    BY <1>4, <2>5 DEF OnceInv
  <2>7. \A d, e \in Callers : mailing'[d].pc # "idle" /\ mailing'[d].update = mailing'[e].update => d = e
    <3>1. \A d, e \in Callers : mailing[d].pc # "idle" /\ mailing[d].update = mailing[e].update => d = e
      BY DEF OnceInv
    <3> QED BY <2>1, <2>3, <2>6, <3>1
  <2>8. \A d \in Callers, j \in 1..Len(notices) : mailing'[d].update # notices[j].update
    BY <2>1, <2>3, <2>6 DEF OnceInv
  <2>9. ASSUME Without({"mail_error"}), NEW i \in N!Published', i > Len(FirstItems[scene])
        PROVE  (\E d \in Callers : mailing'[d].update = i) \/ (\E j \in 1..Len(notices) : notices[j].update = i)
    <3>1. CASE i = n
      BY <2>1, <2>3, <3>1
    <3>2. CASE i # n
      <4>1. (\E d \in Callers : mailing[d].update = i) \/ \E j \in 1..Len(notices) : notices[j].update = i
        BY <2>4, <2>9, <3>2 DEF OnceInv
      <4>2. mailing[c].update # i
        BY <1>3, <1>4, <2>2, <2>4, <2>9, <3>2
      <4> QED BY <2>3, <4>1, <4>2
    <3> QED BY <3>1, <3>2
  <2>10. \A j, k \in 1..Len(notices) : notices[j].update = notices[k].update => j = k
    BY DEF OnceInv
  <2> QED BY <1>2, <2>2, <2>4, <2>6, <2>7, <2>8, <2>9, <2>10 DEF OnceInv, Without
<1>12. CASE N!MailStep
  BY <1>8, <1>9, <1>10, <1>11, <1>12 DEF N!MailStep, MovesOn
<1> QED BY <1>6, <1>7, <1>12, NoticeFrames
LEMMA OnceFirst == Init => OnceInv
<1> SUFFICES ASSUME Init PROVE OnceInv
  OBVIOUS
<1>1. /\ notices = <<>> /\ mailing = [c \in Callers |-> N!NoMail] /\ items = FirstItems[scene]
  BY DEF Init, N!NoticesInit, L!ContentInit
<1>2. 1..Len(notices) = {} /\ \A c \in Callers : mailing[c].pc = "idle"
  BY <1>1, NoMailIs
<1>3. items \in Seq(ItemRows)
  BY TypeFirst, TypeInvIs DEF TypeTable, ItemTypes
<1>4. \A i \in N!Published : ~(i > Len(FirstItems[scene]))
  <2>1. Len(items) \in Nat
    BY <1>3
  <2> QED BY <1>1, <2>1 DEF N!Published
<1> QED BY <1>2, <1>4 DEF OnceInv

LEMMA OnceAlways == Spec => []OnceInv
<1>1. TypeInv /\ OnceInv /\ [Next]_vars => OnceInv'
  BY OnceKept
<1> QED BY <1>1, OnceFirst, TypeInvCorrect, PTL DEF Spec

\* Calls one at a time hold what the row says until they are done.
LEMMA FlagKept ==
  ASSUME TypeInv, FlagInv, [Next]_vars
  PROVE  FlagInv'
<1>1. FlagTypes
  BY TypeInvIs DEF TypeTable
<1>2. UNCHANGED scene
  BY Frames
<1>3. CASE UNCHANGED <<flagRow, flagCache, refreshing>>
  BY <1>2, <1>3 DEF FlagInv, Without
<1>4. CASE ~Without({"overlap_refresh", "flag_error"})
  BY <1>2, <1>4 DEF FlagInv, Without
<1>5. ASSUME Without({"overlap_refresh", "flag_error"}), N!FlagStep PROVE FlagInv'
  <2>1. /\ \A c, d \in Callers : refreshing[c] # "idle" /\ refreshing[d] # "idle" => c = d
        /\ \A c \in Callers : refreshing[c] # "idle" => refreshing[c] = IF flagRow THEN "on" ELSE "off"
        /\ flagRow \in BOOLEAN /\ refreshing \in [Callers -> {"idle", "on", "off"}]
    BY <1>1, <1>5 DEF FlagInv, FlagTypes
  <2>2. "overlap_refresh" \notin scene /\ "flag_error" \notin scene
    BY <1>5 DEF Without
  <2>3. ASSUME NEW c \in Callers, NEW x \in {"on", "off"}, \A d \in Callers : refreshing[d] = "idle",
               refreshing' = [refreshing EXCEPT ![c] = x], x = IF flagRow' THEN "on" ELSE "off"
        PROVE  FlagInv'
    <3>1. refreshing'[c] = x /\ \A d \in Callers : d # c => refreshing'[d] = "idle"
      BY <2>1, <2>3
    <3>2. /\ \A a, d \in Callers : refreshing'[a] # "idle" /\ refreshing'[d] # "idle" => a = d
          /\ \A a \in Callers : refreshing'[a] # "idle" => refreshing'[a] = IF flagRow' THEN "on" ELSE "off"
      BY <2>3, <3>1
    <3> QED BY <2>3, <3>1, <3>2 DEF FlagInv
  <2>4. ASSUME NEW c \in Callers, N!ReadFlag(c) PROVE FlagInv'
    BY <2>2, <2>3, <2>4 DEF N!ReadFlag, N!MayCall, N!Answers
  <2>5. ASSUME NEW c \in Callers, NEW on \in BOOLEAN, N!SetFlag(c, on) PROVE FlagInv'
    BY <2>2, <2>3, <2>5 DEF N!SetFlag, N!MayCall, N!Answers
  <2>6. ASSUME NEW c \in Callers, N!CacheFlag(c) PROVE FlagInv'
    <3>1. /\ refreshing[c] # "idle" /\ refreshing' = [refreshing EXCEPT ![c] = "idle"]
          /\ flagRow' = flagRow /\ flagCache' = (refreshing[c] = "on")
      BY <2>6 DEF N!CacheFlag
    <3>2. \A d \in Callers : refreshing'[d] = "idle"
      BY <2>1, <3>1
    <3>3. (refreshing[c] = "on") = flagRow
      BY <2>1, <3>1
    <3> QED BY <3>1, <3>2, <3>3 DEF FlagInv
  <2>7. \A c \in Callers : ~N!FlagError(c)
    BY <2>2 DEF N!FlagError
  <2> QED BY <1>5, <2>4, <2>5, <2>6, <2>7 DEF N!FlagStep
<1> QED BY <1>3, <1>4, <1>5, Frames

LEMMA FlagAlways == Spec => []FlagInv
<1>1. Init => FlagInv
  BY DEF Init, N!NoticesInit, FlagInv
<1>2. TypeInv /\ FlagInv /\ [Next]_vars => FlagInv'
  BY FlagKept
<1> QED BY <1>1, <1>2, TypeInvCorrect, PTL DEF Spec

\* In every scene, of each update all are told who were to be, by every value of
\* the flag cached meanwhile, and wanted to be, whichever rows of their preferences
\* were read together, from its publication until the rows were written; no one
\* who never was or never did; and each update once unless a call fails.  With no
\* call under way the cached flag is the row's, unless calls overlap or fail.
THEOREM NoticesAgreeCorrect == Spec => []NoticesAgree
<1>1. TypeInv /\ NoticeInv /\ OnceInv /\ FlagInv => NoticesAgree
  <2> SUFFICES ASSUME TypeInv, NoticeInv, OnceInv, FlagInv PROVE NoticesAgree
    OBVIOUS
  <2>1. \A i \in 1..Len(notices) :
          notices[i].must \subseteq notices[i].to /\ notices[i].to \subseteq notices[i].may
    BY DEF NoticeInv, Told
  <2>2. ASSUME Without({"mail_error"}), NEW i \in N!Published, i > Len(FirstItems[scene]),
               \A c \in Callers : mailing[c].update # i
        PROVE  Cardinality({j \in 1..Len(notices) : notices[j].update = i}) = 1
    <3>1. PICK j \in 1..Len(notices) : notices[j].update = i
      BY <2>2 DEF OnceInv
    <3>2. {k \in 1..Len(notices) : notices[k].update = i} = {j}
      BY <3>1 DEF OnceInv
    <3> QED BY <3>2, FS_Singleton
  <2>3. Without({"overlap_refresh", "flag_error"}) /\ (\A c \in Callers : refreshing[c] = "idle")
          => flagCache = flagRow
    BY DEF FlagInv
  <2> QED BY <2>1, <2>2, <2>3 DEF NoticesAgree
<1> QED BY <1>1, TypeInvCorrect, NoticeAlways, OnceAlways, FlagAlways, PTL
-------------------------------------------------------------------------------
(* The feed: every page.                                                   *)

LEMMA FeedFrames ==
  ASSUME [Next]_vars
  PROVE  \/ F!FeedStep /\ UNCHANGED <<items, follows, clock>>
         \/ F!FeedsWatch
         \/ UNCHANGED <<feedVars, items, follows>>
<1>1. CASE UNCHANGED vars
  BY <1>1 DEF vars, noticeVars, contentVars
<1>2. CASE F!FeedsWatch
  BY <1>2
<1>3. CASE UNCHANGED <<contentVars, noticeVars, feedVars>>
  BY <1>3 DEF noticeVars, contentVars
<1>4. CASE L!LevelStep /\ UNCHANGED <<items, noticeVars, feedVars>>
  BY <1>4 DEF noticeVars
<1>5. CASE F!FeedStep /\ UNCHANGED <<clock, contentVars, noticeVars>>
  BY <1>5 DEF noticeVars, contentVars
<1>6. CASE N!FlagStep /\ UNCHANGED <<contentVars, feedVars>>
  BY <1>6 DEF N!FlagStep, N!ReadFlag, N!CacheFlag, N!FlagError, N!SetFlag, N!settings, contentVars
<1>7. CASE L!SanctionStep /\ UNCHANGED <<contentVars, noticeVars, feedVars>>
  BY <1>3, <1>7
<1> QED BY <1>1, <1>2, <1>4, <1>5, <1>6, <1>7 DEF Next

\* A page has no more than its limit, and what is left out is older than all of
\* a full page.
LEMMA NewestIs ==
  ASSUME NEW n \in Nat, NEW S, S \subseteq 1..n
  PROVE  /\ F!Newest(S) \subseteq S /\ IsFiniteSet(F!Newest(S))
         /\ Cardinality(F!Newest(S)) \in Nat /\ Cardinality(F!Newest(S)) <= Limit
         /\ \A i \in S \ F!Newest(S) :
              Cardinality(F!Newest(S)) = Limit /\ \A p \in F!Newest(S) : i < p
<1> DEFINE above(i) == {j \in S : j > i}
           N1 == F!Newest(S)
<1>1. Limit \in Nat /\ Limit >= 1
  BY CommunityAssumption
<1>2. IsFiniteSet(S) /\ \A i \in S : i \in Nat /\ i >= 1 /\ i <= n
  <2>1. IsFiniteSet(1..n)
    BY FS_Interval
  <2>2. IsFiniteSet(S)
    BY <2>1, FS_Subset
  <2>3. \A i \in S : i \in 1..n
    OBVIOUS
  <2> QED BY <2>2, <2>3
<1>3. N1 = {i \in S : Cardinality(above(i)) < Limit}
  BY SameCounts DEF F!Newest
<1>4. \A X : X \subseteq S => IsFiniteSet(X) /\ Cardinality(X) \in Nat
  BY <1>2, FS_Subset, FS_CardinalityType
<1>5. N1 \subseteq S /\ IsFiniteSet(N1) /\ Cardinality(N1) \in Nat
  <2>1. N1 \subseteq S
    BY <1>3
  <2> QED BY <1>4, <2>1
<1>6. \A X, Y : X \subseteq Y /\ Y \subseteq S => Cardinality(X) <= Cardinality(Y)
  BY <1>4, FS_Subset
<1>7. \A i : above(i) \subseteq S /\ Cardinality(above(i)) \in Nat
  BY <1>4
<1>8. ASSUME NEW i \in S \ N1, NEW p \in N1 PROVE i < p
  <2> SUFFICES ASSUME ~(i < p) PROVE FALSE
    OBVIOUS
  <2>1. i \in Nat /\ p \in Nat /\ p <= i /\ p \in S
    <3>1. i \in S /\ p \in S
      BY <1>5
    <3>2. i \in Nat /\ p \in Nat
      BY <1>2, <3>1
    <3> QED BY <3>1, <3>2
  <2>2. above(i) \subseteq above(p)
    <3>1. \A j \in S : j > i => j > p
      <4>1. \A j \in S : j \in Nat
        BY <1>2
      <4> QED BY <2>1, <4>1
    <3> QED BY <3>1
  <2>3. Cardinality(above(i)) <= Cardinality(above(p))
    BY <1>6, <1>7, <2>2
  <2>4. Cardinality(above(p)) < Limit /\ ~(Cardinality(above(i)) < Limit)
    BY <1>3, <2>1
  <2> HIDE DEF above
  <2> QED BY <1>1, <1>7, <2>3, <2>4
<1>9. Cardinality(N1) <= Limit
  <2>1. CASE N1 = {}
    <3>1. Cardinality(N1) = 0
      BY <2>1, FS_EmptySet
    <3> QED BY <1>1, <3>1
  <2>2. CASE N1 # {}
    <3>1. N1 \in SUBSET Nat
      BY <1>2, <1>5
    <3> PICK m : m = Min(N1)
      OBVIOUS
    <3>2. m \in N1 /\ \A y \in N1 : m <= y
      BY <2>2, <3>1, MinExists
    <3>3. N1 \subseteq above(m) \cup {m}
      <4> SUFFICES ASSUME NEW y \in N1, y # m PROVE y \in above(m)
        OBVIOUS
      <4>1. y \in Nat /\ m \in Nat /\ m <= y /\ y \in S
        BY <1>5, <3>1, <3>2
      <4> QED BY <4>1
    <3>4. Cardinality(above(m) \cup {m}) <= Cardinality(above(m)) + 1 /\ IsFiniteSet(above(m) \cup {m})
          /\ Cardinality(above(m) \cup {m}) \in Nat
      <4>1. IsFiniteSet(above(m)) /\ Cardinality(above(m)) \in Nat
        BY <1>4, <1>7
      <4> HIDE DEF above
      <4>2. IsFiniteSet(above(m) \cup {m})
            /\ (Cardinality(above(m) \cup {m}) = Cardinality(above(m))
                \/ Cardinality(above(m) \cup {m}) = Cardinality(above(m)) + 1)
        BY <4>1, FS_AddElement
      <4> QED BY <4>1, <4>2
    <3>5. Cardinality(N1) <= Cardinality(above(m) \cup {m})
      BY <3>3, <3>4, FS_Subset
    <3>6. Cardinality(above(m)) < Limit
      BY <1>3, <3>2
    <3> HIDE DEF above, N1
    <3> QED BY <1>1, <1>5, <1>7, <3>4, <3>5, <3>6
  <2> QED BY <2>1, <2>2
<1>10. ASSUME NEW i \in S \ N1 PROVE Cardinality(N1) = Limit
  <2> DEFINE left == S \ N1
  <2>1. left \subseteq 0..n /\ left # {}
    <3>1. 1..n \subseteq 0..n
      OBVIOUS
    <3>2. left \subseteq S /\ i \in left
      BY <1>10
    <3> QED BY <3>1, <3>2
  <2> PICK m : m = Max(left)
    OBVIOUS
  <2>2. m \in left /\ \A y \in left : m >= y
    BY <2>1, MaxExists
  <2>3. above(m) \subseteq N1
    <3> SUFFICES ASSUME NEW y \in above(m), y \notin N1 PROVE FALSE
      OBVIOUS
    <3>1. y \in Nat /\ m \in Nat /\ y > m /\ m >= y
      BY <1>2, <2>2
    <3> QED BY <3>1
  <2>4. Cardinality(above(m)) <= Cardinality(N1)
    BY <1>5, <1>6, <2>3
  <2>5. ~(Cardinality(above(m)) < Limit)
    BY <1>3, <2>2
  <2> HIDE DEF above, N1
  <2> QED BY <1>1, <1>5, <1>7, <1>9, <2>4, <2>5
<1> HIDE DEF N1
<1>11. F!Newest(S) = N1
  BY DEF N1
<1> QED BY <1>5, <1>8, <1>9, <1>10, <1>11
\* With less that must be shown a page is as good.
LEMMA LessPaged ==
  ASSUME NEW f \in Feeds, Paged(f), NEW m, m \subseteq f.must, NEW g, g = [f EXCEPT !.must = m]
  PROVE  Paged(g) /\ g.reader = f.reader /\ g.pc = f.pc /\ g.must = m
<1>1. /\ g.pc = f.pc /\ g.reader = f.reader /\ g.below = f.below /\ g.page = f.page
      /\ g.seen = f.seen /\ g.twice = f.twice /\ g.must = m
  BY DEF Feeds
<1>2. Shown(g) = Shown(f)
  BY <1>1 DEF Shown
<1>3. \A i : i \in m => i \in f.must
  OBVIOUS
<1> QED BY <1>1, <1>2, <1>3 DEF Paged

LEMMA NoFeedPaged == Paged(F!NoFeed) /\ F!NoFeed.pc = "idle" /\ F!NoFeed.must = {}
BY DEF Paged, F!NoFeed

\* An answer of the model keeps the items of the page.
LEMMA SameItems ==
  ASSUME NEW rows, NEW page, \A d \in rows : \E e \in page : d.item = e.item,
         \A e \in page : \E d \in rows : e.item = d.item
  PROVE  {d.item : d \in rows} = {e.item : e \in page}
<1> DEFINE A == {d.item : d \in rows}
           B == {e.item : e \in page}
<1>1. \A i \in A : i \in B
  OBVIOUS
<1>2. \A i \in B : i \in A
  OBVIOUS
<1> HIDE DEF A, B
<1>3. A = B
  BY <1>1, <1>2
<1> QED BY <1>3 DEF A, B

LEMMA AnalysedItems ==
  ASSUME NEW f \in Feeds
  PROVE  {d.item : d \in F!Analysed(f.page)} = {d.item : d \in f.page}
<1> DEFINE rows == f.page
           next(d) == [d EXCEPT !.ml = d.scored]
           page == {next(d) : d \in rows}
<1>1. ASSUME NEW d \in rows PROVE next(d).item = d.item
  <2>1. d \in PageRows
    BY DEF Feeds
  <2> DEFINE x == next(d)
  <2>2. x = [d EXCEPT !.ml = d.scored]
    OBVIOUS
  <2> HIDE DEF x
  <2>3. x.item = d.item
    BY <2>1, <2>2 DEF PageRows
  <2> QED BY <2>3 DEF x
<1> HIDE DEF rows, next
<1>2. \A e \in page : \E d \in rows : e.item = d.item
  BY <1>1
<1>3. \A d \in rows : \E e \in page : d.item = e.item
  BY <1>1
<1> HIDE DEF page
<1>4. {d.item : d \in page} = {d.item : d \in rows}
  BY <1>2, <1>3, SameItems, Zenon
<1> QED BY <1>4 DEF F!Analysed, page, rows, next

\* What is found continues what was seen.
FindsFor(f, S, found, g) ==
  /\ f.pc = "find" /\ f.must \subseteq F!Visible /\ f.seen \subseteq Nat
  /\ S \subseteq 1..Len(items) /\ \A i : i \in S <=> i \in F!Visible /\ F!Before(i, f)
  /\ found \subseteq S /\ IsFiniteSet(found) /\ Cardinality(found) <= Limit
  /\ \A i \in S \ found : Cardinality(found) = Limit /\ \A p \in found : i < p
  /\ g.pc = "analyse" /\ g.below = f.below /\ g.seen = f.seen /\ g.must = f.must
  /\ g.twice => f.twice \/ \E p \in found : p \in f.seen
  /\ Shown(g) = found

LEMMA FindPaged ==
  ASSUME NEW f \in Feeds, Paged(f), Len(items) \in Nat, NEW S, NEW found, NEW g, FindsFor(f, S, found, g)
  PROVE  Paged(g)
<1>1. /\ f.pc = "find" /\ f.must \subseteq F!Visible /\ f.seen \subseteq Nat
      /\ S \subseteq 1..Len(items) /\ \A i : i \in S <=> i \in F!Visible /\ F!Before(i, f)
  BY DEF FindsFor
<1>2. /\ found \subseteq S /\ IsFiniteSet(found) /\ Cardinality(found) <= Limit
      /\ \A i \in S \ found : Cardinality(found) = Limit /\ \A p \in found : i < p
  BY DEF FindsFor
<1>7. /\ g.pc = "analyse" /\ g.below = f.below /\ g.seen = f.seen /\ g.must = f.must
      /\ Shown(g) = found
      /\ g.twice => f.twice \/ \E p \in found : p \in f.seen
  BY DEF FindsFor
<1>3. \A p \in found : f.seen # {} => p < f.below
  BY <1>1, <1>2 DEF F!Before
<1>4. \A s \in f.seen : f.below <= s
  BY <1>1 DEF Paged
<1>5. f.below \in Nat /\ \A p \in found : p \in Nat
  <2>1. \A p \in 1..Len(items) : p \in Nat
    OBVIOUS
  <2> QED BY <1>1, <1>2, <2>1 DEF Feeds
<1>6. \A p \in found : p \notin f.seen
  <2> SUFFICES ASSUME NEW p \in found, p \in f.seen PROVE FALSE
    OBVIOUS
  <2>1. p \in Nat /\ f.below \in Nat /\ p < f.below /\ f.below <= p
    BY <1>3, <1>4, <1>5
  <2> QED BY <2>1
<1>8. ~g.twice
  BY <1>6, <1>7 DEF Paged
<1>10. \A i \in f.must \ f.seen : F!Before(i, f)
  BY <1>1 DEF Paged, F!Before
<1>11. \A i \in f.must \ (f.seen \cup found) : i \in S \ found
  BY <1>1, <1>10
<1>12. \A i \in g.must \ (g.seen \cup Shown(g)) :
         Cardinality(Shown(g)) = Limit /\ \A p \in Shown(g) : i < p
  BY <1>2, <1>7, <1>11
<1> QED BY <1>2, <1>3, <1>4, <1>7, <1>8, <1>12 DEF Paged

\* What is kept was seen, and the next page is below all of it.
PageTurned(f) ==
  [f EXCEPT !.pc = IF F!Cardinality(Shown(f)) = Limit THEN "next" ELSE "end",
            !.below = IF Shown(f) = {} THEN @ ELSE F!Min(Shown(f)),
            !.seen = @ \cup Shown(f), !.page = {}]

LEMMA PersistPaged ==
  ASSUME NEW f \in Feeds, Paged(f), f.pc = "persist", Shown(f) \subseteq Nat, f.must \subseteq Nat,
         f.seen \subseteq Nat, NEW g, g = PageTurned(f)
  PROVE  Paged(g) /\ g.reader = f.reader /\ g.must = f.must
<1> PICK S : S = Shown(f)
  OBVIOUS
<1>1. Limit \in Nat /\ Limit >= 1
  BY CommunityAssumption
<1>2. /\ ~f.twice
      /\ \A s \in f.seen : f.below <= s
      /\ \A p \in S : f.seen # {} => p < f.below
      /\ \A i \in f.must \ (f.seen \cup S) : Cardinality(S) = Limit /\ \A p \in S : i < p
  BY DEF Paged
<1> PICK pc : pc = IF F!Cardinality(S) = Limit THEN "next" ELSE "end"
  OBVIOUS
<1> PICK b : b = IF S = {} THEN f.below ELSE F!Min(S)
  OBVIOUS
<1>3. /\ g.pc = pc /\ g.below = b /\ g.seen = f.seen \cup S /\ g.must = f.must /\ g.twice = f.twice
      /\ g.reader = f.reader
  BY DEF Feeds, PageTurned
<1>4. pc = IF Cardinality(S) = Limit THEN "next" ELSE "end"
  BY SameCounts
<1>5. CASE S = {}
  <2>1. pc = "end"
    BY <1>1, <1>4, <1>5, FS_EmptySet
  <2>2. f.must \subseteq f.seen
    BY <1>1, <1>2, <1>5, FS_EmptySet
  <2> QED BY <1>2, <1>3, <1>5, <2>1, <2>2 DEF Paged
<1>6. CASE S # {}
  <2>1. b = Min(S)
    BY <1>6, SameEnds
  <2>2. b \in S /\ \A p \in S : b <= p
    BY <1>6, <2>1, MinExists
  <2>3. ASSUME NEW s \in f.seen \cup S PROVE b <= s
    <3>1. CASE s \in S
      BY <2>2, <3>1
    <3>2. CASE s \in f.seen
      <4>1. b < f.below /\ f.below <= s /\ f.below \in Nat /\ b \in Nat /\ s \in Nat
        BY <1>2, <2>2, <3>2 DEF Feeds
      <4> QED BY <4>1
    <3> QED BY <3>1, <3>2
  <2>4. \A i \in f.must \ (f.seen \cup S) : i < b
    BY <1>2, <2>2
  <2>5. pc = "end" => f.must \subseteq f.seen \cup S
    BY <1>2, <1>4
  <2>6. pc \in {"next", "end"} /\ f.seen \cup S # {}
    BY <1>4, <1>6
  <2> QED BY <1>2, <1>3, <2>3, <2>4, <2>5, <2>6 DEF Paged
<1> QED BY <1>5, <1>6

\* Every step keeps every page: what was there all the time is behind it or in
\* it or before it, and nothing is found again.
LEMMA PageKept ==
  ASSUME TypeInv, PageInv, [Next]_vars
  PROVE  PageInv'
<1>1. /\ items \in Seq(ItemRows) /\ Len(items) \in Nat /\ FeedsOK
      /\ feeds \in [Callers -> Feeds] /\ \A c \in Callers : feeds[c] \in Feeds /\ FeedOK(feeds[c])
  BY TypeInvIs DEF TypeTable, ItemTypes, FeedsOK
<1>2. \A c \in Callers : \A f : f = feeds[c] =>
        Paged(f) /\ (f.pc # "idle" => f.must \subseteq F!Expected(f.reader))
  BY DEF PageInv
<1> DEFINE Goal == \A c \in Callers : \A f : f = feeds'[c] =>
                     Paged(f) /\ (f.pc # "idle" => f.must \subseteq F!Expected(f.reader)')
<1> SUFFICES Goal
  BY DEF PageInv, Paged, Shown
<1>3. CASE F!FeedsWatch
  <2>1. Grown
    BY ItemsAlways
  <2>2. ASSUME NEW c \in Callers, NEW g, g = feeds'[c]
        PROVE  Paged(g) /\ (g.pc # "idle" => g.must \subseteq F!Expected(g.reader)')
    <3> PICK f \in Feeds : f = feeds[c] /\ Paged(f) /\ FeedOK(f)
      BY <1>1, <1>2
    <3>1. /\ g = [f EXCEPT !.must = g.must] /\ g.must \subseteq f.must
          /\ \A u \in Users : f.pc # "idle" /\ f.reader = u => g.must \subseteq F!Expected(u)'
      BY <1>1, <1>3, <2>1, <2>2, FeedsWatched
    <3>2. Paged(g) /\ g.pc = f.pc /\ g.reader = f.reader
      BY <3>1, LessPaged
    <3>3. f.pc # "idle" => f.reader \in Users
      BY DEF FeedOK
    <3> QED BY <3>1, <3>2, <3>3
  <2> QED BY <2>2
<1>4. CASE UNCHANGED <<items, follows>>
  <2>1. \A u : F!Expected(u)' = F!Expected(u) /\ F!Visible' = F!Visible
    BY <1>4 DEF F!Expected, F!Visible
  <2>2. ASSUME NEW c \in Callers, NEW g, feeds' = [feeds EXCEPT ![c] = g], Paged(g),
               g.pc # "idle" => g.must \subseteq F!Expected(g.reader)
        PROVE  Goal
    BY <1>1, <1>2, <2>1, <2>2
  <2>3. CASE UNCHANGED feeds
    BY <1>2, <2>1, <2>3
  <2>4. ASSUME NEW c \in Callers, F!NextPage(c) \/ F!Ask(c) PROVE Goal
    <3> PICK f \in Feeds : f = feeds[c] /\ Paged(f) /\ f.must \subseteq F!Expected(f.reader)
      BY <1>1, <1>2, <2>4 DEF F!NextPage, F!Ask
    <3> PICK pc : \/ f.pc = "next" /\ pc = IF follows[f.reader].on THEN "find" ELSE "end"
                  \/ f.pc = "analyse" /\ pc = "asked"
      BY <2>4 DEF F!NextPage, F!Ask
    <3> PICK g : g = [f EXCEPT !.pc = pc]
      OBVIOUS
    <3>1. feeds' = [feeds EXCEPT ![c] = g]
      BY <2>4 DEF F!NextPage, F!Ask
    <3>2. /\ g.pc = pc /\ g.below = f.below /\ g.seen = f.seen /\ g.must = f.must
          /\ g.twice = f.twice /\ g.reader = f.reader /\ g.page = f.page
      BY DEF Feeds
    <3>3. Shown(g) = Shown(f)
      BY <3>2 DEF Shown
    <3>4. ~follows[f.reader].on => f.must = {}
      BY DEF F!Expected
    <3>5. Paged(g)
      BY <3>2, <3>3, <3>4 DEF Paged
    <3> QED BY <2>2, <3>1, <3>2, <3>5
  <2>5. ASSUME NEW c \in Callers, F!Find(c) PROVE Goal
    <3> PICK f \in Feeds : f = feeds[c] /\ Paged(f) /\ f.must \subseteq F!Expected(f.reader)
      BY <1>1, <1>2, <2>5 DEF F!Find
    <3> PICK S : S = {i \in F!Visible : F!Before(i, f)}
      OBVIOUS
    <3> PICK found : found = F!Newest(S)
      OBVIOUS
    <3> PICK page : page = {[item |-> i, scored |-> items[i].text, ml |-> -1] : i \in found}
      OBVIOUS
    <3> PICK t : t = (f.twice \/ found \cap f.seen # {})
      OBVIOUS
    <3> PICK g : g = [f EXCEPT !.pc = "analyse", !.twice = t, !.page = page]
      OBVIOUS
    <3>1. feeds' = [feeds EXCEPT ![c] = g] /\ f.pc = "find"
      BY <2>5 DEF F!Find
    <3>2. f.must \subseteq F!Visible /\ f.seen \subseteq Nat
      BY DEF F!Expected, Feeds
    <3>3. /\ g.pc = "analyse" /\ g.below = f.below /\ g.seen = f.seen /\ g.must = f.must
          /\ g.reader = f.reader /\ g.page = page /\ g.twice = t
      BY DEF Feeds
    <3>4. Shown(g) = found
      <4>1. \A d \in page : d.item \in found
        OBVIOUS
      <4>2. ASSUME NEW i \in found PROVE \E d \in page : d.item = i
        <5>1. [item |-> i, scored |-> items[i].text, ml |-> -1] \in page
          OBVIOUS
        <5> QED BY <5>1
      <4> QED BY <3>3, <4>1, <4>2 DEF Shown
    <3>5. Paged(g)
      <4>1. /\ S \subseteq 1..Len(items)
            /\ \A i : i \in S <=> i \in F!Visible /\ F!Before(i, f)
        BY DEF F!Visible
      <4>2. /\ found \subseteq S /\ IsFiniteSet(found) /\ Cardinality(found) <= Limit
            /\ \A i \in S \ found : Cardinality(found) = Limit /\ \A p \in found : i < p
        BY <1>1, <4>1, NewestIs
      <4>3. g.twice => f.twice \/ \E p \in found : p \in f.seen
        BY <3>3
      <4>4. FindsFor(f, S, found, g)
        BY <3>1, <3>2, <3>3, <3>4, <4>1, <4>2, <4>3, Zenon DEF FindsFor
      <4>5. Len(items) \in Nat
        BY <1>1
      <4> QED BY <4>4, <4>5, FindPaged
    <3> QED BY <2>2, <3>1, <3>2, <3>3, <3>5
  <2>6. ASSUME NEW c \in Callers, NEW page, F!Went(c, page), feeds[c].pc \in {"analyse", "asked"},
               {d.item : d \in page} = Shown(feeds[c])
        PROVE  Goal
    <3> PICK f \in Feeds : f = feeds[c] /\ Paged(f) /\ f.must \subseteq F!Expected(f.reader)
      BY <1>1, <1>2, <2>6
    <3> PICK g : g = [f EXCEPT !.pc = "persist", !.page = page]
      OBVIOUS
    <3>1. feeds' = [feeds EXCEPT ![c] = g]
      BY <2>6 DEF F!Went
    <3>2. /\ g.pc = "persist" /\ g.below = f.below /\ g.seen = f.seen /\ g.must = f.must
          /\ g.twice = f.twice /\ g.reader = f.reader /\ g.page = page
      BY DEF Feeds
    <3>3. Shown(g) = Shown(f)
      BY <2>6, <3>2 DEF Shown
    <3>4. Paged(g)
      BY <2>6, <3>2, <3>3 DEF Paged
    <3> QED BY <2>2, <3>1, <3>2, <3>4
  <2>7. ASSUME NEW c \in Callers, F!Answer(c) PROVE Goal
    <3> PICK f \in Feeds : f = feeds[c]
      BY <1>1
    <3>1. {d.item : d \in F!Analysed(f.page)} = {d.item : d \in f.page}
      BY AnalysedItems
    <3> QED BY <2>6, <2>7, <3>1 DEF F!Answer, Shown
  <2>8. ASSUME NEW c \in Callers, F!SkipAnalysis(c) \/ \E counts \in BOOLEAN : F!Fail(c, counts)
        PROVE  Goal
    BY <2>6, <2>8 DEF F!SkipAnalysis, F!Fail, Shown
  <2>9. ASSUME NEW c \in Callers, F!Persist(c) PROVE Goal
    <3> PICK f \in Feeds : f = feeds[c] /\ Paged(f) /\ f.must \subseteq F!Expected(f.reader) /\ FeedOK(f)
      BY <1>1, <1>2, <2>9 DEF F!Persist
    <3> PICK g : g = PageTurned(f)
      OBVIOUS
    <3>1. feeds' = [feeds EXCEPT ![c] = g] /\ f.pc = "persist"
      BY <2>9 DEF F!Persist, Shown, PageTurned
    <3>2. Shown(f) \subseteq Nat /\ f.must \subseteq Nat /\ f.seen \subseteq Nat
      <4>1. f.page \subseteq PageRows
        BY DEF Feeds
      <4>2. \A d \in PageRows : d.item \in Nat
        BY DEF PageRows
      <4> QED BY <4>1, <4>2 DEF Feeds, Shown
    <3>3. Paged(g) /\ g.reader = f.reader /\ g.must = f.must
      BY <3>1, <3>2, PersistPaged
    <3> QED BY <2>2, <3>1, <3>3
  <2>10. ASSUME NEW c \in Callers, F!Close(c) \/ F!KeepExplained(c) PROVE Goal
    BY <2>2, <2>10, NoFeedPaged DEF F!Close, F!KeepExplained
  <2>11. ASSUME NEW c \in Callers, NEW u \in Users, F!Open(c, u) PROVE Goal
    <3> PICK g : g = [F!NoFeed EXCEPT !.pc = "find", !.reader = u, !.must = F!Visible,
                                      !.below = Len(items) + 1]
      OBVIOUS
    <3>1. feeds' = [feeds EXCEPT ![c] = g] /\ follows[u].on
      BY <2>11 DEF F!Open
    <3>2. g.pc = "find" /\ g.reader = u /\ g.must = F!Visible /\ g.seen = {} /\ ~g.twice
      BY DEF F!NoFeed
    <3>3. Paged(g)
      BY <3>2 DEF Paged
    <3> QED BY <2>2, <3>1, <3>2, <3>3 DEF F!Expected
  <2>12. ASSUME NEW c \in Callers, NEW u \in Users, NEW i \in F!Visible, F!Explain(c, u, i) PROVE Goal
    <3> PICK x : x = [item |-> i, scored |-> items[i].text, ml |-> -1]
      OBVIOUS
    <3> PICK g : g = [F!NoFeed EXCEPT !.pc = "explain", !.reader = u, !.page = {x}]
      OBVIOUS
    <3>1. feeds' = [feeds EXCEPT ![c] = g]
      BY <2>12 DEF F!Explain
    <3>2. g.pc = "explain" /\ g.must = {} /\ ~g.twice
      BY DEF F!NoFeed
    <3>3. Paged(g)
      BY <3>2 DEF Paged
    <3> QED BY <2>2, <3>1, <3>2, <3>3
  <2>13. CASE F!FeedStep
    <3> HIDE DEF Goal
    <3> QED BY <2>4, <2>5, <2>7, <2>8, <2>9, <2>10, <2>11, <2>12, <2>13 DEF F!FeedStep
  <2>14. F!FeedStep \/ F!FeedsWatch \/ UNCHANGED feeds
    BY FeedFrames DEF feedVars
  <2> HIDE DEF Goal
  <2> QED BY <1>3, <2>3, <2>13, <2>14
<1> HIDE DEF Goal
<1> QED BY <1>3, <1>4, FeedFrames
LEMMA PageAlways == Spec => []PageInv
<1>1. Init => PageInv
  <2>1. ASSUME Init, NEW c \in Callers PROVE feeds[c] = F!NoFeed
    BY <2>1 DEF Init, F!FeedInit
  <2> QED BY <2>1, NoFeedPaged DEF PageInv
<1>2. TypeInv /\ PageInv /\ [Next]_vars => PageInv'
  BY PageKept
<1> QED BY <1>1, <1>2, TypeInvCorrect, PTL DEF Spec

-------------------------------------------------------------------------------
(* The feed: what is kept of a page.                                       *)

\* Whose calls do not overlap has one.
LEMMA ReaderKept ==
  ASSUME TypeInv, ReaderInv, [Next]_vars
  PROVE  ReaderInv'
<1>1. /\ items \in Seq(ItemRows) /\ FeedsOK
      /\ feeds \in [Callers -> Feeds] /\ \A c \in Callers : feeds[c] \in Feeds /\ FeedOK(feeds[c])
  BY TypeInvIs DEF TypeTable, ItemTypes, FeedsOK
<1>2. UNCHANGED scene /\ NoUser \notin Users /\ F!NoFeed.reader = NoUser /\ F!NoFeed.pc = "idle"
  BY Frames, CommunityAssumption DEF F!NoFeed
<1>3. \A c \in Callers : feeds[c].pc # "idle" => feeds[c].reader \in Users
  BY <1>1 DEF FeedOK
<1> DEFINE Goal == \A c, o \in Callers :
                     feeds'[c].pc # "idle" /\ feeds'[o].reader = feeds'[c].reader => o = c
<1> SUFFICES ASSUME Without({"overlap_feeds"}) PROVE Goal
  BY <1>2 DEF ReaderInv, Without
<1>4. \A c, o \in Callers : feeds[c].pc # "idle" /\ feeds[o].reader = feeds[c].reader => o = c
  BY DEF ReaderInv
<1>5. CASE F!FeedsWatch
  <2>1. \A c \in Callers : feeds'[c] = [feeds[c] EXCEPT !.must = feeds'[c].must]
    BY <1>1, <1>5, ItemsAlways, FeedsWatched
  <2>2. \A f \in Feeds : \A m : [f EXCEPT !.must = m].pc = f.pc /\ [f EXCEPT !.must = m].reader = f.reader
    BY DEF Feeds
  <2>3. \A c \in Callers : feeds'[c].pc = feeds[c].pc /\ feeds'[c].reader = feeds[c].reader
    <3> TAKE c \in Callers
    <3> PICK f \in Feeds : f = feeds[c]
      BY <1>1
    <3> PICK m : m = feeds'[c].must
      OBVIOUS
    <3>1. feeds'[c] = [f EXCEPT !.must = m]
      BY <2>1
    <3> QED BY <2>2, <3>1
  <2> QED BY <1>4, <2>3
<1>6. ASSUME NEW c \in Callers, NEW g, feeds' = [feeds EXCEPT ![c] = g],
             \/ feeds[c].pc # "idle" /\ g.reader = feeds[c].reader
             \/ g = F!NoFeed
             \/ g.reader \in Users /\ \A o \in Callers : feeds[o].reader # g.reader
      PROVE  Goal
  <2>1. feeds'[c] = g /\ \A o \in Callers : o # c => feeds'[o] = feeds[o]
    BY <1>1, <1>6
  <2>2. CASE g = F!NoFeed
    BY <1>2, <1>3, <1>4, <2>1, <2>2
  <2>3. CASE g # F!NoFeed
    BY <1>4, <1>6, <2>1, <2>3
  <2> QED BY <2>2, <2>3
<1>7. ASSUME NEW c \in Callers, F!NextPage(c) \/ F!Ask(c) PROVE Goal
  <2> PICK f \in Feeds : f = feeds[c]
    BY <1>1
  <2>1. ASSUME NEW pc, feeds' = [feeds EXCEPT ![c].pc = pc] PROVE Goal
    <3> PICK g : g = [f EXCEPT !.pc = pc]
      OBVIOUS
    <3>1. feeds' = [feeds EXCEPT ![c] = g] /\ g.reader = f.reader
      BY <2>1 DEF Feeds
    <3>2. f.pc # "idle"
      BY <1>7 DEF F!NextPage, F!Ask
    <3> QED BY <1>6, <3>1, <3>2
  <2> HIDE DEF Goal
  <2> QED BY <1>7, <2>1 DEF F!NextPage, F!Ask
<1>8. ASSUME NEW c \in Callers, NEW page, F!Went(c, page), feeds[c].pc # "idle" PROVE Goal
  <2> PICK f \in Feeds : f = feeds[c]
    BY <1>1
  <2> PICK g : g = [f EXCEPT !.pc = "persist", !.page = page]
    OBVIOUS
  <2>1. feeds' = [feeds EXCEPT ![c] = g] /\ g.reader = f.reader
    BY <1>8 DEF Feeds, F!Went
  <2> QED BY <1>6, <1>8, <2>1
<1>9. ASSUME NEW c \in Callers, F!Find(c) PROVE Goal
  <2> PICK f \in Feeds : f = feeds[c]
    BY <1>1
  <2>1. ASSUME NEW t, NEW page, feeds' = [feeds EXCEPT ![c] =
                 [f EXCEPT !.pc = "analyse", !.twice = t, !.page = page]]
        PROVE  Goal
    <3> PICK g : g = [f EXCEPT !.pc = "analyse", !.twice = t, !.page = page]
      OBVIOUS
    <3>1. feeds' = [feeds EXCEPT ![c] = g] /\ g.reader = f.reader
      BY <2>1 DEF Feeds
    <3>2. f.pc # "idle"
      BY <1>9 DEF F!Find
    <3> QED BY <1>6, <3>1, <3>2
  <2> HIDE DEF Goal
  <2> QED BY <1>9, <2>1 DEF F!Find
<1>10. ASSUME NEW c \in Callers, F!Persist(c) PROVE Goal
  <2> PICK f \in Feeds : f = feeds[c]
    BY <1>1
  <2>1. ASSUME NEW pc, NEW below, NEW seen, feeds' = [feeds EXCEPT ![c] =
                 [f EXCEPT !.pc = pc, !.below = below, !.seen = seen, !.page = {}]]
        PROVE  Goal
    <3> PICK g : g = [f EXCEPT !.pc = pc, !.below = below, !.seen = seen, !.page = {}]
      OBVIOUS
    <3>1. feeds' = [feeds EXCEPT ![c] = g] /\ g.reader = f.reader
      BY <2>1 DEF Feeds
    <3>2. f.pc # "idle"
      BY <1>10 DEF F!Persist
    <3> QED BY <1>6, <3>1, <3>2
  <2> HIDE DEF Goal
  <2> QED BY <1>10, <2>1 DEF F!Persist
<1>11. ASSUME NEW c \in Callers, F!Close(c) \/ F!KeepExplained(c) PROVE Goal
  BY <1>6, <1>11 DEF F!Close, F!KeepExplained
<1>12. ASSUME NEW c \in Callers, NEW u \in Users,
              F!Open(c, u) \/ \E i \in F!Visible : F!Explain(c, u, i)
       PROVE  Goal
  <2>1. \A o \in Callers : feeds[o].reader # u
    BY <1>12 DEF F!Open, F!Explain, Without
  <2>2. \E g : g.reader = u /\ feeds' = [feeds EXCEPT ![c] = g]
    <3>1. CASE F!Open(c, u)
      <4> DEFINE g == [F!NoFeed EXCEPT !.pc = "find", !.reader = u, !.must = F!Visible,
                                       !.below = Len(items) + 1]
      <4>1. g.reader = u /\ feeds' = [feeds EXCEPT ![c] = g]
        BY <3>1 DEF F!Open, F!NoFeed
      <4> QED BY <4>1
    <3>2. ASSUME NEW i \in F!Visible, F!Explain(c, u, i)
          PROVE  \E g : g.reader = u /\ feeds' = [feeds EXCEPT ![c] = g]
      <4> DEFINE g == [F!NoFeed EXCEPT !.pc = "explain", !.reader = u,
                         !.page = {[item |-> i, scored |-> items[i].text, ml |-> -1]}]
      <4>1. g.reader = u /\ feeds' = [feeds EXCEPT ![c] = g]
        BY <3>2 DEF F!Explain, F!NoFeed
      <4> QED BY <4>1
    <3> QED BY <1>12, <3>1, <3>2
  <2> HIDE DEF Goal
  <2> PICK g : g.reader = u /\ feeds' = [feeds EXCEPT ![c] = g]
    BY <2>2
  <2> QED BY <1>6, <2>1
<1>13. CASE F!FeedStep
  <2>1. ASSUME NEW c \in Callers, F!Answer(c) \/ F!SkipAnalysis(c) \/ \E counts \in BOOLEAN : F!Fail(c, counts)
        PROVE  Goal
    BY <1>8, <2>1 DEF F!Answer, F!SkipAnalysis, F!Fail
  <2> HIDE DEF Goal
  <2> QED BY <1>7, <1>9, <1>10, <1>11, <1>12, <1>13, <2>1 DEF F!FeedStep
<1>14. CASE UNCHANGED feeds
  BY <1>4, <1>14
<1> HIDE DEF Goal
<1> QED BY <1>5, <1>13, <1>14, FeedFrames DEF feedVars

\* The circuit opens with the last failure it tolerates, and an answer closes it.
LEMMA CircuitKept ==
  ASSUME TypeInv, CircuitInv, [Next]_vars
  PROVE  CircuitInv'
<1>1. CircuitTypes /\ clock \in 1..LastHour
  BY TypeInvIs DEF TypeTable
<1>2. UNCHANGED scene /\ Tolerated \in Nat /\ Tolerated > 0 /\ Pause \in Nat /\ clock \in Nat /\ clock > 0
  BY <1>1, Frames, CommunityAssumption
<1>3. CASE UNCHANGED circuit
  BY <1>2, <1>3 DEF CircuitInv, Without
<1>4. ASSUME NEW c \in Callers, F!Answer(c) PROVE CircuitInv'
  BY <1>2, <1>4 DEF F!Answer, CircuitInv, Without
<1>5. ASSUME NEW c \in Callers, NEW counts \in BOOLEAN, F!Fail(c, counts) PROVE CircuitInv'
  <2>1. ~Without({"ml_down"})'
    BY <1>2, <1>5 DEF F!Fail, Without
  <2>2. CASE ~counts
    BY <1>2, <1>5, <2>2, <1>3 DEF F!Fail
  <2>3. CASE counts
    <3> PICK n : n = circuit.failures + 1
      OBVIOUS
    <3> PICK e : e = IF n >= Tolerated THEN clock + Pause ELSE circuit.until
      OBVIOUS
    <3>1. circuit' = [failures |-> n, until |-> e]
      BY <1>5, <2>3 DEF F!Fail
    <3>2. circuit.failures \in Nat /\ circuit.until \in Nat /\ n \in Nat
      BY <1>1 DEF CircuitTypes
    <3>3. e > 0 <=> n >= Tolerated
      <4>1. CASE n >= Tolerated
        BY <1>2, <4>1
      <4>2. CASE ~(n >= Tolerated)
        <5>1. ~(circuit.failures >= Tolerated)
          BY <1>2, <3>2, <4>2
        <5>2. ~(circuit.until > 0)
          BY <5>1 DEF CircuitInv
        <5> QED BY <4>2, <5>2
      <4> QED BY <4>1, <4>2
    <3> QED BY <2>1, <3>1, <3>3 DEF CircuitInv
  <2> QED BY <2>2, <2>3
<1>6. CASE F!FeedStep
  <2>1. F!FeedStep => UNCHANGED circuit \/ (\E c \in Callers : F!Answer(c))
                        \/ \E c \in Callers, counts \in BOOLEAN : F!Fail(c, counts)
    BY DEF F!FeedStep, F!NextPage, F!Find, F!Ask, F!SkipAnalysis, F!Persist, F!Close,
           F!KeepExplained, F!Open, F!Explain
  <2> QED BY <1>3, <1>4, <1>5, <1>6, <2>1
<1>7. F!FeedsWatch => UNCHANGED circuit
  BY DEF F!FeedsWatch
<1> QED BY <1>3, <1>6, <1>7, FeedFrames DEF feedVars
\* A decision that is kept has the analysis of its row, or the one it had.
LEMMA KeptIs ==
  ASSUME DecisionsOK, NEW u \in Users, NEW page \in SUBSET PageRows, decisions' = F!Kept(u, page)
  PROVE  /\ \A v \in Users \ {u} : decisions'[v] = decisions[v]
         /\ \A i \in 1..MaxItems :
              \/ decisions'[u][i] = decisions[u][i]
              \/ \E d \in page : /\ d.item = i /\ decisions'[u][i].scored = d.scored
                                 /\ decisions'[u][i].ml = IF d.ml = -1 THEN decisions[u][i].ml ELSE d.ml
<1> DEFINE d(i) == CHOOSE d \in page : d.item = i
           new(i) == IF \E x \in page : x.item = i
                     THEN [scored |-> d(i).scored, ml |-> IF d(i).ml = -1 THEN decisions[u][i].ml ELSE d(i).ml]
                     ELSE decisions[u][i]
           x == [i \in 1..MaxItems |-> new(i)]
<1>1. decisions' = [decisions EXCEPT ![u] = x]
  BY DEF F!Kept, DecisionsOK
<1>2. ASSUME NEW i \in 1..MaxItems
      PROVE  \/ new(i) = decisions[u][i]
             \/ \E e \in page : /\ e.item = i /\ new(i).scored = e.scored
                                /\ new(i).ml = IF e.ml = -1 THEN decisions[u][i].ml ELSE e.ml
  <2>1. CASE \E y \in page : y.item = i
    <3>1. d(i) \in page /\ d(i).item = i
      BY <2>1
    <3> PICK e : e = d(i)
      OBVIOUS
    <3>2. new(i) = [scored |-> e.scored, ml |-> IF e.ml = -1 THEN decisions[u][i].ml ELSE e.ml]
      BY <2>1
    <3> HIDE DEF new, d
    <3>3. new(i).scored = e.scored /\ new(i).ml = IF e.ml = -1 THEN decisions[u][i].ml ELSE e.ml
      BY <3>2
    <3> QED BY <3>1, <3>3
  <2>2. CASE ~\E y \in page : y.item = i
    BY <2>2
  <2> QED BY <2>1, <2>2
<1>3. \A i \in 1..MaxItems : x[i] = new(i)
  OBVIOUS
<1> HIDE DEF x, new
<1>4. decisions'[u] = x /\ \A v \in Users \ {u} : decisions'[v] = decisions[v]
  BY <1>1 DEF DecisionsOK
<1>5. ASSUME NEW i \in 1..MaxItems
      PROVE  \/ decisions'[u][i] = decisions[u][i]
             \/ \E e \in page : /\ e.item = i /\ decisions'[u][i].scored = e.scored
                                /\ decisions'[u][i].ml = IF e.ml = -1 THEN decisions[u][i].ml ELSE e.ml
  <2>1. decisions'[u][i] = new(i)
    BY <1>3, <1>4
  <2> QED BY <1>2, <2>1
<1> QED BY <1>4, <1>5

\* What is kept is what was scored, or not analysed; and what was analysed
\* before is not lost to an explanation.
LEMMA AnalysisKept ==
  ASSUME TypeInv, ReaderInv, CircuitInv, AnalysisInv, [Next]_vars
  PROVE  AnalysisInv'
<1>1. /\ items \in Seq(ItemRows) /\ FeedsOK /\ DecisionsOK /\ clock \in Nat /\ clock > 0
      /\ feeds \in [Callers -> Feeds] /\ \A c \in Callers : feeds[c] \in Feeds /\ FeedOK(feeds[c])
  BY TypeInvIs DEF TypeTable, ItemTypes, FeedsOK
<1>2. UNCHANGED scene
  BY Frames
<1>3. \A c \in Callers : feeds[c].pc # "idle" => feeds[c].reader \in Users
  BY <1>1 DEF FeedOK
<1> DEFINE Fitting == \A c \in Callers : \A f : f = feeds'[c] => Fits(f)'
           Right == Without({"ml_down", "overlap_feeds"}) =>
                      \A u \in Users, i \in 1..MaxItems : decisions'[u][i].ml \in {-1, decisions'[u][i].scored}
<1> SUFFICES Fitting /\ Right
  BY <1>2 DEF AnalysisInv, Without
<1>4. /\ \A c \in Callers : \A f : f = feeds[c] => Fits(f)
      /\ Without({"ml_down", "overlap_feeds"}) =>
           \A u \in Users, i \in 1..MaxItems : decisions[u][i].ml \in {-1, decisions[u][i].scored}
  BY DEF AnalysisInv
<1>5. CASE UNCHANGED decisions
  <2>1. Right
    BY <1>4, <1>5
  <2>2. \A f : Fits(f) => Fits(f)'
    BY <1>2, <1>5 DEF Fits, Without
  <2>3. CASE F!FeedsWatch
    <3>1. ASSUME NEW c \in Callers, NEW g, g = feeds'[c] PROVE Fits(g)'
      <4> PICK f \in Feeds : f = feeds[c] /\ Fits(f)
        BY <1>1, <1>4
      <4> PICK m : m = feeds'[c].must
        OBVIOUS
      <4>1. g = [f EXCEPT !.must = m]
        BY <1>1, <2>3, <3>1, ItemsAlways, FeedsWatched
      <4>2. g.pc = f.pc /\ g.page = f.page /\ g.reader = f.reader
        BY <4>1 DEF Feeds
      <4>3. Fits(g)
        BY <4>2 DEF Fits
      <4> QED BY <2>2, <4>3
    <3> QED BY <2>1, <3>1
  <2>4. ASSUME NEW c \in Callers, NEW g, feeds' = [feeds EXCEPT ![c] = g], Fits(g)
        PROVE  Fitting
    <3>1. feeds'[c] = g /\ \A o \in Callers : o # c => feeds'[o] = feeds[o]
      BY <1>1, <2>4
    <3> QED BY <1>4, <2>2, <2>4, <3>1
  <2>5. ASSUME NEW c \in Callers, NEW f \in Feeds, f = feeds[c], NEW pc \in {"find", "end", "asked", "analyse"}, NEW g,
               feeds' = [feeds EXCEPT ![c] = g], g.pc = pc
        PROVE  Fitting
    BY <2>4, <2>5 DEF Fits
  <2>6. ASSUME NEW c \in Callers, F!NextPage(c) \/ F!Ask(c) PROVE Fitting
    <3> PICK f \in Feeds : f = feeds[c]
      BY <1>1
    <3>1. ASSUME NEW pc \in {"find", "end", "asked"}, feeds' = [feeds EXCEPT ![c].pc = pc] PROVE Fitting
      <4> PICK g : g = [f EXCEPT !.pc = pc]
        OBVIOUS
      <4>1. feeds' = [feeds EXCEPT ![c] = g] /\ g.pc = pc
        BY <3>1 DEF Feeds
      <4> HIDE DEF Fitting
      <4> QED BY <2>5, <4>1
    <3> HIDE DEF Fitting
    <3> QED BY <2>6, <3>1 DEF F!NextPage, F!Ask
  <2>7. ASSUME NEW c \in Callers, F!Find(c) PROVE Fitting
    <3> PICK f \in Feeds : f = feeds[c]
      BY <1>1
    <3>1. ASSUME NEW t, NEW page, feeds' = [feeds EXCEPT ![c] =
                   [f EXCEPT !.pc = "analyse", !.twice = t, !.page = page]]
          PROVE  Fitting
      <4> PICK g : g = [f EXCEPT !.pc = "analyse", !.twice = t, !.page = page]
        OBVIOUS
      <4>1. feeds' = [feeds EXCEPT ![c] = g] /\ g.pc = "analyse"
        BY <3>1 DEF Feeds
      <4> HIDE DEF Fitting
      <4> QED BY <2>5, <4>1
    <3> HIDE DEF Fitting
    <3> QED BY <2>7, <3>1 DEF F!Find
  <2>8. ASSUME NEW c \in Callers, NEW page, F!Went(c, page),
               Without({"ml_down"}) => \A d \in page : d.ml = d.scored
        PROVE  Fitting
    <3> PICK f \in Feeds : f = feeds[c]
      BY <1>1
    <3> PICK g : g = [f EXCEPT !.pc = "persist", !.page = page]
      OBVIOUS
    <3>1. feeds' = [feeds EXCEPT ![c] = g] /\ g.pc = "persist" /\ g.page = page
      BY <2>8 DEF Feeds, F!Went
    <3>2. Fits(g)
      BY <2>8, <3>1 DEF Fits
    <3> QED BY <2>4, <3>1, <3>2
  <2>9. ASSUME NEW c \in Callers, F!Answer(c) PROVE Fitting
    <3> PICK f \in Feeds : f = feeds[c]
      BY <1>1
    <3> PICK page : page = F!Analysed(f.page)
      OBVIOUS
    <3>1. ASSUME NEW e \in page PROVE e.ml = e.scored
      <4> PICK d \in f.page : e = [d EXCEPT !.ml = d.scored]
        BY DEF F!Analysed
      <4> QED BY DEF Feeds, PageRows
    <3>2. F!Went(c, page)
      BY <2>9 DEF F!Answer
    <3> QED BY <2>8, <3>1, <3>2
  <2>10. ASSUME NEW c \in Callers, F!SkipAnalysis(c) \/ \E counts \in BOOLEAN : F!Fail(c, counts)
         PROVE  Fitting
    <3>1. Without({"ml_down"}) => feeds[c].page = {}
      <4>1. Without({"ml_down"}) => circuit.until = 0
        BY DEF CircuitInv
      <4> QED BY <1>1, <2>10, <4>1 DEF F!SkipAnalysis, F!Fail, F!CircuitOpen, Without
    <3> QED BY <2>8, <2>10, <3>1 DEF F!SkipAnalysis, F!Fail
  <2>11. ASSUME NEW c \in Callers, F!Close(c) PROVE Fitting
    BY <2>4, <2>11 DEF F!Close, Fits, F!NoFeed
  <2>12. ASSUME NEW c \in Callers, NEW u \in Users, F!Open(c, u) PROVE Fitting
    <3> PICK g : g = [F!NoFeed EXCEPT !.pc = "find", !.reader = u, !.must = F!Visible,
                                      !.below = Len(items) + 1]
      OBVIOUS
    <3>1. feeds' = [feeds EXCEPT ![c] = g] /\ g.pc = "find"
      BY <2>12 DEF F!Open, F!NoFeed
    <3>2. Fits(g)
      BY <3>1 DEF Fits
    <3> QED BY <2>4, <3>1, <3>2
  <2>13. ASSUME NEW c \in Callers, NEW u \in Users, NEW i \in F!Visible, F!Explain(c, u, i)
         PROVE  Fitting
    <3> PICK x : x = [item |-> i, scored |-> items[i].text, ml |-> -1]
      OBVIOUS
    <3> PICK g : g = [F!NoFeed EXCEPT !.pc = "explain", !.reader = u, !.page = {x}]
      OBVIOUS
    <3>1. feeds' = [feeds EXCEPT ![c] = g] /\ decisions[u][i] = F!Unscored
      BY <2>13 DEF F!Explain
    <3>2. g.pc = "explain" /\ g.reader = u /\ g.page = {x} /\ x.ml = -1 /\ x.item = i
      BY DEF F!NoFeed
    <3>3. decisions[u][i].ml = -1
      BY <3>1 DEF F!Unscored
    <3>4. Fits(g)
      BY <3>2, <3>3 DEF Fits
    <3> QED BY <2>4, <3>1, <3>4
  <2>14. CASE UNCHANGED feeds
    <3>1. ASSUME NEW c \in Callers, NEW f, f = feeds'[c] PROVE Fits(f)'
      <4>1. Fits(f)
        BY <1>4, <2>14, <3>1
      <4> QED BY <2>2, <4>1
    <3> QED BY <2>1, <3>1
  <2>15. CASE F!FeedStep
    <3>1. \A c \in Callers : (F!Persist(c) \/ F!KeepExplained(c)) => Fitting
      <4>1. ASSUME NEW c \in Callers, F!KeepExplained(c) PROVE Fitting
        BY <2>4, <4>1 DEF F!KeepExplained, Fits, F!NoFeed
      <4>2. ASSUME NEW c \in Callers, F!Persist(c) PROVE Fitting
        <5> PICK f \in Feeds : f = feeds[c]
          BY <1>1
        <5>1. ASSUME NEW pc \in {"next", "end"}, NEW below, NEW seen, feeds' = [feeds EXCEPT ![c] =
                       [f EXCEPT !.pc = pc, !.below = below, !.seen = seen, !.page = {}]]
              PROVE  Fitting
          <6> PICK g : g = [f EXCEPT !.pc = pc, !.below = below, !.seen = seen, !.page = {}]
            OBVIOUS
          <6>1. feeds' = [feeds EXCEPT ![c] = g] /\ g.pc = pc
            BY <5>1 DEF Feeds
          <6>2. Fits(g)
            BY <6>1 DEF Fits
          <6> QED BY <2>4, <6>1, <6>2
        <5> HIDE DEF Fitting
        <5> QED BY <4>2, <5>1 DEF F!Persist
      <4> QED BY <4>1, <4>2
    <3> HIDE DEF Fitting
    <3>2. F!FeedStep =>
            \E c \in Callers :
              \/ F!NextPage(c) \/ F!Ask(c) \/ F!Find(c) \/ F!Answer(c) \/ F!SkipAnalysis(c)
              \/ (\E counts \in BOOLEAN : F!Fail(c, counts)) \/ F!Close(c) \/ F!Persist(c)
              \/ F!KeepExplained(c) \/ (\E u \in Users : F!Open(c, u))
              \/ \E u \in Users, i \in F!Visible : F!Explain(c, u, i)
      BY DEF F!FeedStep
    <3> QED BY <2>1, <2>6, <2>7, <2>9, <2>10, <2>11, <2>12, <2>13, <2>15, <3>1, <3>2
  <2> HIDE DEF Fitting, Right
  <2> QED BY <2>1, <2>3, <2>14, <2>15, FeedFrames DEF feedVars
<1>6. ASSUME NEW c \in Callers, F!Persist(c) \/ F!KeepExplained(c)
      PROVE  Fitting /\ Right
  <2> PICK f \in Feeds : f = feeds[c] /\ Fits(f)
    BY <1>1, <1>4
  <2> PICK u : u = f.reader
    OBVIOUS
  <2>1. /\ f.pc \in {"persist", "explain"} /\ u \in Users /\ f.page \in SUBSET PageRows
        /\ decisions' = F!Kept(u, f.page)
    BY <1>3, <1>6 DEF F!Persist, F!KeepExplained, Feeds
  <2>2. /\ \A v \in Users \ {u} : decisions'[v] = decisions[v]
        /\ \A i \in 1..MaxItems :
             \/ decisions'[u][i] = decisions[u][i]
             \/ \E d \in f.page : /\ d.item = i /\ decisions'[u][i].scored = d.scored
                                  /\ decisions'[u][i].ml = IF d.ml = -1 THEN decisions[u][i].ml ELSE d.ml
    BY <1>1, <2>1, KeptIs
  <2>3. PICK g : feeds' = [feeds EXCEPT ![c] = g] /\ g.pc \in {"idle", "next", "end"}
    <3>1. CASE F!KeepExplained(c)
      BY <3>1, NoFeedPaged DEF F!KeepExplained
    <3>2. CASE F!Persist(c)
      <4> DEFINE shows == {d.item : d \in f.page}
                 pc == IF F!Cardinality(shows) = Limit THEN "next" ELSE "end"
                 below == IF shows = {} THEN f.below ELSE F!Min(shows)
                 seen == f.seen \cup shows
                 g == [f EXCEPT !.pc = pc, !.below = below, !.seen = seen, !.page = {}]
      <4>1. feeds' = [feeds EXCEPT ![c] = g]
        BY <3>2 DEF F!Persist
      <4>2. pc \in {"next", "end"}
        OBVIOUS
      <4> HIDE DEF pc, below, seen
      <4>3. g.pc = pc
        BY DEF Feeds
      <4> QED BY <4>1, <4>2, <4>3
    <3> QED BY <1>6, <3>1, <3>2
  <2>4. Fitting
    <3> SUFFICES ASSUME NEW o \in Callers, NEW h, h = feeds'[o] PROVE Fits(h)'
      OBVIOUS
    <3>1. CASE o = c
      <4>1. h = g
        BY <1>1, <2>3, <3>1
      <4> QED BY <2>3, <4>1 DEF Fits
    <3>2. CASE o # c
      <4>1. h = feeds[o] /\ Fits(h)
        BY <1>1, <1>4, <2>3, <3>2
      <4>2. h.pc = "explain" /\ Without({"overlap_feeds"}) => h.reader \in Users \ {u}
        BY <1>3, <2>1, <3>2, <4>1 DEF ReaderInv
      <4>3. h.pc = "explain" /\ Without({"overlap_feeds"}) => decisions'[h.reader] = decisions[h.reader]
        BY <2>2, <4>2
      <4> QED BY <1>2, <4>1, <4>3 DEF Fits, Without
    <3> QED BY <3>1, <3>2
  <2>5. Right
    <3> SUFFICES ASSUME Without({"ml_down", "overlap_feeds"}), NEW v \in Users, NEW i \in 1..MaxItems
                 PROVE  decisions'[v][i].ml \in {-1, decisions'[v][i].scored}
      OBVIOUS
    <3>1. Without({"ml_down"}) /\ Without({"overlap_feeds"})
      BY DEF Without
    <3>2. decisions[v][i].ml \in {-1, decisions[v][i].scored}
      BY <1>4
    <3>3. CASE v # u
      BY <2>2, <3>2, <3>3
    <3>4. CASE v = u
      <4>1. CASE decisions'[u][i] = decisions[u][i]
        BY <3>2, <3>4, <4>1
      <4>2. ASSUME NEW d \in f.page, d.item = i, decisions'[u][i].scored = d.scored,
                   decisions'[u][i].ml = IF d.ml = -1 THEN decisions[u][i].ml ELSE d.ml
            PROVE  decisions'[u][i].ml \in {-1, decisions'[u][i].scored}
        <5>1. CASE f.pc = "persist"
          <6>1. d.ml = d.scored /\ d.scored \in Nat
            BY <2>1, <3>1, <5>1 DEF Fits, PageRows
          <6> QED BY <4>2, <6>1
        <5>2. CASE f.pc = "explain"
          <6>1. d.ml = -1 /\ decisions[u][i].ml = -1
            BY <3>1, <4>2, <5>2 DEF Fits
          <6> QED BY <4>2, <6>1
        <5> QED BY <2>1, <5>1, <5>2
      <4> QED BY <2>2, <3>4, <4>1, <4>2
    <3> QED BY <3>3, <3>4
  <2> QED BY <2>4, <2>5
<1>7. UNCHANGED decisions \/ \E c \in Callers : F!Persist(c) \/ F!KeepExplained(c)
  <2>1. F!FeedStep => UNCHANGED decisions \/ \E c \in Callers : F!Persist(c) \/ F!KeepExplained(c)
    BY DEF F!FeedStep, F!NextPage, F!Find, F!Ask, F!Answer, F!SkipAnalysis, F!Fail, F!Close,
           F!Open, F!Explain
  <2>2. F!FeedsWatch => UNCHANGED decisions
    BY DEF F!FeedsWatch
  <2> QED BY <2>1, <2>2, FeedFrames DEF feedVars
<1> HIDE DEF Fitting, Right
<1> QED BY <1>5, <1>6, <1>7

\* The feed: all that was there all the time is shown, and nothing twice,
\* whatever is published, hidden or followed meanwhile; a decision's analysis
\* is of what was scored where the service answers and calls of one reader do
\* not overlap; and the circuit is open only after failures in a row.
THEOREM EdgeAgreesCorrect == Spec => []EdgeAgrees
<1>1. Init => ReaderInv /\ CircuitInv /\ AnalysisInv
  <2> SUFFICES ASSUME Init PROVE ReaderInv /\ CircuitInv /\ AnalysisInv
    OBVIOUS
  <2>1. /\ \A c \in Callers : feeds[c].pc = "idle"
        /\ circuit = [failures |-> 0, until |-> 0]
        /\ \A u \in Users, i \in 1..MaxItems : decisions[u][i].ml = -1
    BY DEF Init, F!FeedInit, F!NoFeed, F!Unscored
  <2>2. Tolerated \in Nat /\ Tolerated > 0
    BY CommunityAssumption
  <2> QED BY <2>1, <2>2 DEF ReaderInv, CircuitInv, AnalysisInv, Fits
<1>2. TypeInv /\ ReaderInv /\ [Next]_vars => ReaderInv'
  BY ReaderKept
<1>3. TypeInv /\ CircuitInv /\ [Next]_vars => CircuitInv'
  BY CircuitKept
<1>4. TypeInv /\ ReaderInv /\ CircuitInv /\ AnalysisInv /\ [Next]_vars => AnalysisInv'
  BY AnalysisKept
<1>5. PageInv /\ CircuitInv /\ AnalysisInv => EdgeAgrees
  <2> SUFFICES ASSUME PageInv, CircuitInv, AnalysisInv PROVE EdgeAgrees
    OBVIOUS
  <2>1. \A c \in Callers : ~feeds[c].twice /\ (feeds[c].pc = "end" => feeds[c].must \subseteq feeds[c].seen)
    BY DEF PageInv, Paged
  <2> QED BY <2>1 DEF CircuitInv, AnalysisInv, EdgeAgrees
<1> QED BY <1>1, <1>2, <1>3, <1>4, <1>5, TypeInvCorrect, PageAlways, PTL DEF Spec

===============================================================================
