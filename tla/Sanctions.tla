------------------------------- MODULE Sanctions ------------------------------
(***************************************************************************)
(* What moderators may impose on a user: warnings, and mutes, suspensions  *)
(* and restrictions until some hour.  A call looks at its target, writes   *)
(* the profile, then files what was and what is, in awaits of their own.   *)
(***************************************************************************)
EXTENDS Integers, Sequences, SequencesExt, FiniteSetsExt

CONSTANTS
  Users, NoUser, Callers,
  Rank,           \* 3 governance, 2 community admin, 1 moderator, 0 otherwise
  Hours,          \* durations that are asked for
  MuteCap, Cap,   \* longest mute of a moderator, longest sanction
  MaxCalls        \* bound: calls of a scene

VARIABLES
  scene, clock,
  calls,        \* calls begun so far
  writing,      \* calls that write content (Content)
  until,        \* the hour a bar of a user ends, or he was last warned; 0 is null
  warnings,     \* communityWarnCount
  trail,        \* communityModerationAction rows
  sanctioning   \* calls

Bars == {"mute", "suspend", "posting", "commenting"}
Columns == Bars \cup {"warned"}
Nothing == [k \in Columns |-> 0]
NoOrder == [pc |-> "idle", to |-> NoUser, kind |-> "none", for |-> Nothing, was |-> Nothing,
            todo |-> <<>>]

\* Every call of any part counts against the bound.
Begin == calls < MaxCalls[scene] /\ calls' = calls + 1

Holding(u, k) == until[u][k] > clock
MayPost(u) == \A k \in {"suspend", "mute", "posting"} : ~Holding(u, k)
MayComment(u) == \A k \in {"suspend", "mute", "commenting"} : ~Holding(u, k)

MaySanction(by, u) ==
  /\ by # u
  /\ Rank[u] = 3 => Rank[by] = 3
  /\ Rank[u] = 2 => Rank[by] >= 2

Only(k, h) == [Nothing EXCEPT ![k] = h]

\* What may be ordered: a kind, and for how many hours each bar is to last.
Orders(by) ==
  LET long == {h \in Hours : h <= Cap}
      muted == IF Rank[by] >= 2 THEN long ELSE {h \in Hours : h <= MuteCap}
      mild == {<<"warn", Nothing>>} \cup {<<"mute", Only("mute", h)>> : h \in muted}
      grave == {<<"clear", Nothing>>} \cup {<<"suspend", Only("suspend", h)>> : h \in long}
               \cup {<<"restrict", [Only("posting", p) EXCEPT !["commenting"] = q]>> :
                       p, q \in long \cup {0}}
  IN  IF Rank[by] = 0 THEN {} ELSE IF Rank[by] = 1 THEN mild ELSE mild \cup grave

Whole(kind, for) ==
  kind = "restrict" => {for["posting"], for["commenting"]} # {0}
                       /\ ("single_restriction" \in scene \/ 0 \notin {for["posting"], for["commenting"]})

MayOrder(c, u) ==
  /\ "sanctions" \in scene /\ sanctioning[c].pc = "idle"
  /\ "overlap_moderators" \in scene \/ \A o \in Callers : sanctioning[o].to # u
  /\ Begin

Order(c, by, u, kind, for) ==
  /\ MayOrder(c, u) /\ MaySanction(by, u) /\ Whole(kind, for)
  /\ sanctioning' = [sanctioning EXCEPT ![c] =
       [pc |-> "impose", to |-> u, kind |-> kind, for |-> for, was |-> until[u], todo |-> <<>>]]
  /\ UNCHANGED <<until, warnings, trail>>

Lifted_ButCommenting == Bars \ {"commenting"}
Lifted == Bars
Written(kind) ==
  CASE kind = "warn" -> {"warned"}
    [] kind = "restrict" -> {"posting", "commenting"}
    [] kind = "clear" -> Lifted
    [] OTHER -> {kind}

AddHours_Back(h) == clock - h
AddHours(h) == clock + h

Ends(o, k) ==
  IF k \notin Written(o.kind) THEN until[o.to][k]
  ELSE IF o.kind = "warn" THEN clock
  ELSE IF o.for[k] = 0 THEN 0 ELSE AddHours(o.for[k])

\* previousValue of a clearance: the first bar that was not null.
Or(this, that) == IF this # 0 THEN this ELSE that
FirstBar(was) == Or(was["suspend"], Or(was["mute"], Or(was["posting"], was["commenting"])))

Entry(o, k) == [to |-> o.to, kind |-> k, was |-> o.was[k], next |-> Ends(o, k)]
Entries(o) ==
  CASE o.kind = "clear" ->
         <<[to |-> o.to, kind |-> "clear", was |-> FirstBar(o.was), next |-> 0]>>
    [] o.kind = "warn" -> <<Entry(o, "warned")>>
    [] o.kind = "restrict" ->
         LET filed(k) == IF o.for[k] = 0 THEN <<>> ELSE <<Entry(o, k)>>
         IN  filed("posting") \o filed("commenting")
    [] OTHER -> <<Entry(o, o.kind)>>

\* The profile is written at once; content whose author was looked at before
\* goes through all the same.
Impose(c) ==
  LET o == sanctioning[c] IN
  /\ o.pc = "impose"
  /\ "late_moderation" \in scene \/ \A w \in Callers : writing[w].by # o.to
  /\ until' = [until EXCEPT ![o.to] = [k \in Columns |-> Ends(o, k)]]
  /\ warnings' = IF o.kind = "warn" THEN [warnings EXCEPT ![o.to] = @ + 1] ELSE warnings
  /\ sanctioning' = [sanctioning EXCEPT ![c].pc = "record", ![c].todo = Entries(o)]
  /\ UNCHANGED trail

\* recordCommunityAction, once for each bar of a restriction.
Record(c) ==
  LET o == sanctioning[c] IN
  /\ o.pc = "record"
  /\ trail' = Append(trail, Head(o.todo))
  /\ sanctioning' = [sanctioning EXCEPT ![c] =
       IF Len(o.todo) = 1 THEN NoOrder ELSE [o EXCEPT !.todo = Tail(@)]]
  /\ UNCHANGED <<until, warnings>>

OrderError(c) ==
  /\ "record_error" \in scene /\ sanctioning[c].pc # "idle"
  /\ sanctioning' = [sanctioning EXCEPT ![c] = NoOrder]
  /\ UNCHANGED <<until, warnings, trail>>

-------------------------------------------------------------------------------
SanctionsInit ==
  /\ until = [u \in Users |-> Nothing] /\ warnings = [u \in Users |-> 0]
  /\ trail = <<>> /\ sanctioning = [c \in Callers |-> NoOrder]

SanctionStep ==
  \E c \in Callers :
    \/ (Impose(c) \/ Record(c) \/ OrderError(c)) /\ UNCHANGED calls
    \/ \E by, u \in Users : \E o \in Orders(by) : Order(c, by, u, o[1], o[2])

SanctionsTypeOK ==
  LET values == [Columns -> Nat]
      rows == [to : Users, kind : Columns \cup {"clear"}, was : Nat, next : Nat] IN
  /\ until \in [Users -> values] /\ warnings \in [Users -> Nat] /\ trail \in Seq(rows)
  /\ sanctioning \in [Callers ->
       [pc : {"idle", "impose", "record"}, to : Users \cup {NoUser},
        kind : {"none", "warn", "mute", "suspend", "restrict", "clear"},
        for : values, was : values, todo : Seq(rows)]]
===============================================================================
