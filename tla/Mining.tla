-------------------------------- MODULE Mining --------------------------------
(***************************************************************************)
(* Mining sessions: a call first writes the hourly checkpoints that have   *)
(* matured in the user's unclaimed sessions, hour by hour, and then starts *)
(* a session or claims a finished one.  Only the claim itself is a         *)
(* transaction; calls of one user interleave at every other await.         *)
(***************************************************************************)
EXTENDS Integers, Sequences, FiniteSetsExt, Totals

CONSTANTS
  Users, NoUser,
  Calls,         \* HTTP calls that may be in progress at once
  CycleHours,    \* length of a session
  Projections,   \* points of a whole cycle, at the boosts that may apply
  BaseProjection,  \* ... and without a boost
  Atomic,        \* atomic units of a point in a tip account
  MaxClock,      \* bound: the hours that pass
  MaxSessions    \* bound: sessions of one user

VARIABLES
  scene,      \* what goes on in this behaviour
  clock,      \* hours
  sessions,   \* MiningSession rows of a user; paid: his ledger rows for it
  hours,      \* MiningHourlyCheckpoint rows
  call,       \* the calls
  points,     \* Profile.miningClaimedPoints
  ledger,     \* MiningPointLedger rows of a user: sums of gains and reversals
  opened, tipBalance,  \* the user's BNP tip account
  funded      \* what was ever put into that account from points

rows == <<sessions, hours>>
account == <<points, ledger, opened, tipBalance, funded>>

-------------------------------------------------------------------------------
(* MiningCalculatorService                                                 *)

EndOf(s) == s.start + CycleHours
Matured(s, asOf) ==
  LET elapsed == asOf - s.start
  IN  IF elapsed <= 0 THEN 0 ELSE IF elapsed > CycleHours THEN CycleHours ELSE elapsed
InForce == IF "boosts" \in scene THEN Projections ELSE {BaseProjection}
PerHour(projection) == projection \div CycleHours

-------------------------------------------------------------------------------
Unclaimed(u) == {i \in 1..Len(sessions[u]) : ~sessions[u][i].claimed}
HoursOf(u, i) == {h \in hours[u] : h.session = i}
HasHour(u, i, n) == \E h \in hours[u] : h.session = i /\ h.hour = n
HourPoints(counted) == [h \in counted |-> h.points]

\* What a session is worth: its checkpoints, or the projection of the day it
\* was started if they round to nothing.
Worth(u, i, counted) ==
  LET sum == Total(HourPoints(counted), counted)
  IN  IF sum > 0 THEN sum ELSE sessions[u][i].effective

NoCall == [pc |-> "idle", kind |-> "none", user |-> NoUser, asOf |-> 0,
           todo |-> {}, missing |-> {}, session |-> 0, points |-> 0]
Finish(c) == call' = [call EXCEPT ![c] = NoCall]
AtCall(c, pc) == call[c].pc = pc
Synced(c, kind) ==
  /\ AtCall(c, "sync") /\ call[c].kind = kind
  /\ call[c].todo = {} /\ call[c].missing = {}

\* getMe, start and claim take the time and list the unclaimed sessions.
Begin(c, u, kind) ==
  /\ "mining" \in scene
  /\ AtCall(c, "idle")
  /\ "overlap_calls" \in scene \/ \A d \in Calls : call[d].user # u
  /\ call' = [call EXCEPT ![c] = [NoCall EXCEPT !.pc = "sync", !.kind = kind,
                !.user = u, !.asOf = clock, !.todo = Unclaimed(u)]]
  /\ UNCHANGED <<clock, rows, account>>

\* syncHourlyAccrualForSession, oldest session first: the existing rows are
\* read once ...
SyncSession(c) ==
  LET u == call[c].user  i == Min(call[c].todo) IN
  /\ AtCall(c, "sync") /\ call[c].missing = {} /\ call[c].todo # {}
  /\ LET missing == {n \in 1..Matured(sessions[u][i], call[c].asOf) : ~HasHour(u, i, n)}
     IN  call' = [call EXCEPT ![c].todo = @ \ {i}, ![c].missing = missing,
                    ![c].session = IF missing = {} THEN 0 ELSE i]
  /\ UNCHANGED <<clock, rows, account>>

\* ... and the missing hours are inserted, each with the boost of its hour; an
\* hour someone else inserted meanwhile violates the unique key and ends the call.
CreateHour(c, projection) ==
  LET u == call[c].user  i == call[c].session  n == Min(call[c].missing) IN
  /\ AtCall(c, "sync") /\ call[c].missing # {}
  /\ IF HasHour(u, i, n)
     THEN Finish(c) /\ UNCHANGED hours
     ELSE /\ hours' = [hours EXCEPT ![u] = @ \cup
                {[session |-> i, hour |-> n, points |-> PerHour(projection),
                  claimed |-> FALSE]}]
          /\ call' = [call EXCEPT ![c].missing = @ \ {n},
                        ![c].session = IF call[c].missing = {n} THEN 0 ELSE i]
  /\ UNCHANGED <<clock, sessions, account>>

View(c) ==
  /\ Synced(c, "view")
  /\ Finish(c)
  /\ UNCHANGED <<clock, rows, account>>

FreeToStart(u, asOf) == Unclaimed(u) = {}

\* A running session is returned, a finished one has to be claimed first.
PickStart(c) ==
  /\ Synced(c, "start")
  /\ IF FreeToStart(call[c].user, call[c].asOf)
     THEN call' = [call EXCEPT ![c].pc = "create"]
     ELSE Finish(c)
  /\ UNCHANGED <<clock, rows, account>>

CreateSession(c, projection) ==
  LET u == call[c].user IN
  /\ AtCall(c, "create") /\ Len(sessions[u]) < MaxSessions
  /\ sessions' = [sessions EXCEPT ![u] = Append(@,
       [start |-> call[c].asOf, effective |-> projection, claimed |-> FALSE, paid |-> 0])]
  /\ Finish(c)
  /\ UNCHANGED <<clock, hours, account>>

Claimable(u, asOf) == {i \in Unclaimed(u) : EndOf(sessions[u][i]) <= asOf}

\* The newest finished session.
PickClaim(c) ==
  LET u == call[c].user  open == Claimable(u, call[c].asOf) IN
  /\ Synced(c, "claim")
  /\ IF open = {} THEN Finish(c)
     ELSE \E i \in open :
            /\ \A j \in open : sessions[u][j].start <= sessions[u][i].start
            /\ call' = [call EXCEPT ![c].pc = "sum", ![c].session = i]
  /\ UNCHANGED <<clock, rows, account>>

SumClaim(c) ==
  LET u == call[c].user  i == call[c].session IN
  /\ AtCall(c, "sum")
  /\ call' = [call EXCEPT ![c].pc = "commit",
                ![c].points = Worth(u, i, {h \in HoursOf(u, i) : ~h.claimed})]
  /\ UNCHANGED <<clock, rows, account>>

MayClaim_Blindly(u, i) == i \in 1..Len(sessions[u])
MayClaim(u, i) == ~sessions[u][i].claimed

\* One transaction: the session and its checkpoints, the ledger row, the
\* profile's points and the tip account, which a first claim creates.
CommitClaim(c) ==
  LET u == call[c].user  i == call[c].session  p == call[c].points IN
  /\ AtCall(c, "commit")
  /\ IF ~MayClaim(u, i) THEN Finish(c) /\ UNCHANGED <<rows, account>>
     ELSE /\ sessions' = [sessions EXCEPT ![u][i].claimed = TRUE, ![u][i].paid = @ + p]
          /\ hours' = [hours EXCEPT ![u] =
               (@ \ HoursOf(u, i)) \cup {[h EXCEPT !.claimed = TRUE] : h \in HoursOf(u, i)}]
          /\ ledger' = [ledger EXCEPT ![u].gained = @ + p]
          /\ points' = [points EXCEPT ![u] = @ + p]
          /\ opened' = IF p > 0 THEN opened \cup {u} ELSE opened
          /\ tipBalance' = [tipBalance EXCEPT ![u] = @ + Atomic * p]
          /\ funded' = [funded EXCEPT ![u] = @ + Atomic * p]
          /\ call' = [call EXCEPT ![c] = [NoCall EXCEPT !.pc = "next", !.user = u, !.asOf = call[c].asOf]]
  /\ UNCHANGED clock

\* The next session follows at once, unless another one is open already.
ClaimNext(c) ==
  /\ AtCall(c, "next")
  /\ IF FreeToStart(call[c].user, clock)
     THEN call' = [call EXCEPT ![c].pc = "create", ![c].asOf = clock]
     ELSE Finish(c)
  /\ UNCHANGED <<clock, rows, account>>

\* A failing statement, or a restart, ends a call where it stands.
CallError(c) ==
  /\ "call_error" \in scene /\ ~AtCall(c, "idle")
  /\ Finish(c)
  /\ UNCHANGED <<clock, rows, account>>

\* A call sees at most one hour end: a request does not last for two.
Hour ==
  /\ "mining" \in scene /\ clock < MaxClock
  /\ \A c \in Calls : ~AtCall(c, "idle") => call[c].asOf = clock
  /\ clock' = clock + 1
  /\ UNCHANGED <<rows, call, account>>

-------------------------------------------------------------------------------
Init ==
  /\ clock = 0
  /\ sessions = [u \in Users |-> <<>>]
  /\ hours = [u \in Users |-> {}]
  /\ call = [c \in Calls |-> NoCall]

Step ==
  \/ \E c \in Calls :
       \/ \E u \in Users, kind \in {"view", "start", "claim"} : Begin(c, u, kind)
       \/ SyncSession(c) \/ View(c) \/ PickStart(c) \/ PickClaim(c) \/ SumClaim(c)
       \/ CommitClaim(c) \/ ClaimNext(c) \/ CallError(c)
       \/ \E p \in InForce : CreateHour(c, p) \/ CreateSession(c, p)
  \/ Hour

MiningTypeOK ==
  /\ clock \in 0..MaxClock
  /\ sessions \in [Users -> Seq([start : Nat, effective : Nat, claimed : BOOLEAN, paid : Nat])]
  /\ hours \in [Users -> SUBSET [session : Nat, hour : Nat, points : Nat, claimed : BOOLEAN]]
  /\ call \in [Calls -> [pc : {"idle", "sync", "create", "sum", "commit", "next"},
                         kind : {"none", "view", "start", "claim"},
                         user : Users \cup {NoUser}, asOf : Nat,
                         todo : SUBSET Nat, missing : SUBSET Nat,
                         session : Nat, points : Nat]]
=============================================================================
