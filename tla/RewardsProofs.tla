----------------------------- MODULE RewardsProofs -----------------------------
(***************************************************************************)
(* Proofs about Rewards for every set of users, quests, badges, calls and  *)
(* scenes: what the points of a profile, its ledger and its tip account    *)
(* add up to.                                                              *)
(***************************************************************************)
EXTENDS Rewards, SequenceTheorems, TotalsProofs

-------------------------------------------------------------------------------
(* Mining: the types, and what a call in progress knows.                   *)

Sessions == [start : Nat, effective : Nat, claimed : BOOLEAN, paid : Nat]
HourRows == [session : Nat, hour : Nat, points : Nat, claimed : BOOLEAN]
CallStates == [pc : {"idle", "sync", "create", "sum", "commit", "next"},
               kind : {"none", "view", "start", "claim"},
               user : Members \cup {NoUser}, asOf : Nat,
               todo : SUBSET Nat, missing : SUBSET Nat,
               session : Nat, points : Nat]

\* A set whose elements are all the same has one at most.
LEMMA CardinalityOfOne ==
  ASSUME NEW S, \A x, y \in S : x = y
  PROVE  Cardinality(S) = (IF S = {} THEN 0 ELSE 1)
<1>1. CASE S = {}
  BY <1>1, FS_EmptySet
<1>2. CASE S # {}
  <2>1. PICK x : x \in S
    BY <1>2
  <2>2. S = {x}
    BY <2>1
  <2>3. Cardinality(S) = Cardinality({x})
    BY Zenon, <2>2
  <2> QED BY <1>2, <2>3, FS_Singleton
<1> QED BY <1>1, <1>2

\* What mining and quests share.
SharedOK ==
  /\ points \in [Users -> Nat]
  /\ ledger \in [Users -> [gained : Nat, reversed : Nat]]

\* A claim pays the same points into ledger, profile and tip account.
Claims(u, p) ==
  /\ ledger' = [ledger EXCEPT ![u].gained = @ + p]
  /\ points' = [points EXCEPT ![u] = @ + p]
  /\ opened' = IF p > 0 THEN opened \cup {u} ELSE opened
  /\ tipBalance' = [tipBalance EXCEPT ![u] = @ + Atomic * p]
  /\ funded' = [funded EXCEPT ![u] = @ + Atomic * p]

\* The hours of a user are finite.
MiningTypes == M!MiningTypeOK /\ \A u \in Members : IsFiniteSet(hours[u])

Full(u, i) == \A n \in 1..CycleHours : M!HasHour(u, i, n)

\* The hours belong to sessions and are closed with them; a claimed session has
\* all its hours and was paid what they are worth.
SessionsOK ==
  \A u \in Members :
    /\ \A h \in hours[u] : /\ h.session \in 1..Len(sessions[u]) /\ h.hour \in 1..CycleHours
                           /\ h.claimed = sessions[u][h.session].claimed
    /\ \A i \in 1..Len(sessions[u]) :
         /\ sessions[u][i].start <= clock
         /\ sessions[u][i].claimed =>
              /\ Full(u, i)
              /\ sessions[u][i].paid = M!Worth(u, i, M!HoursOf(u, i))
         /\ ~sessions[u][i].claimed => sessions[u][i].paid = 0

\* A call lasts an hour at most.  While it accrues, a session that ended before
\* the call is on its list, or has all hours but those the call still adds;
\* what it is about to claim has all its hours, and what it pays is their worth.
CallOK(s) ==
  s.pc # "idle" =>
    /\ s.user \in Members /\ s.asOf <= clock /\ clock <= s.asOf + 1
    /\ s.pc = "sync" =>
         /\ s.todo \subseteq 1..Len(sessions[s.user]) /\ s.missing \subseteq 1..CycleHours
         /\ s.missing # {} => s.session \in 1..Len(sessions[s.user])
         /\ \A i \in 1..Len(sessions[s.user]), n \in 1..CycleHours :
              M!EndOf(sessions[s.user][i]) <= s.asOf /\ i \notin s.todo
                => M!HasHour(s.user, i, n) \/ (i = s.session /\ n \in s.missing)
    /\ s.pc \in {"sum", "commit"} =>
         s.session \in 1..Len(sessions[s.user]) /\ Full(s.user, s.session)
    /\ s.pc = "commit" /\ ~sessions[s.user][s.session].claimed =>
         s.points = M!Worth(s.user, s.session, M!HoursOf(s.user, s.session))

MiningInv ==
  /\ MiningTypes /\ SessionsOK
  /\ \A c \in Calls : CallOK(call[c])

\* The smallest of some hours.
LEMMA MinOfNumbers ==
  ASSUME NEW S \in SUBSET Nat, S # {}
  PROVE  M!Min(S) \in S /\ \A n \in S : M!Min(S) <= n
<1>1. PICK m \in S : \A n \in S : m <= n
  BY LeastNumber
<1>2. \E x \in S : \A y \in S : x <= y
  BY <1>1
<1> QED BY <1>2 DEF M!Min

\* Totals are the same whichever module counts them.
LEMMA MiningTotal ==
  ASSUME NEW f, NEW S
  PROVE  M!Total(f, S) = Total(f, S)
BY Zenon DEF M!Total, Total, M!MapThenSumSet, MapThenSumSet, M!MapThenFoldSet, MapThenFoldSet

\* What a session is worth is a number of points.
LEMMA WorthType ==
  ASSUME MiningTypes, NEW u \in Members, NEW i \in 1..Len(sessions[u]), NEW S \in SUBSET hours[u]
  PROVE  M!Worth(u, i, S) \in Nat
<1> DEFINE f == M!HourPoints(S)
<1>1. S \in SUBSET HourRows /\ IsFiniteSet(S)
  BY FS_Subset DEF MiningTypes, M!MiningTypeOK, HourRows
<1>2. \A x \in S : f[x] \in Nat
  BY <1>1 DEF M!HourPoints, HourRows
<1> HIDE DEF f
<1>3. Total(f, S) \in Nat
  BY <1>1, <1>2, TotalOfPart
<1>4. M!Total(f, S) \in Nat
  BY <1>3, MiningTotal
<1>5. sessions[u][i].effective \in Nat
  <2>1. sessions[u] \in Seq(Sessions)
    BY DEF MiningTypes, M!MiningTypeOK, Sessions
  <2>2. sessions[u][i] \in Sessions
    BY <2>1, ElementOfSeq
  <2> QED BY <2>2 DEF Sessions
<1> QED BY <1>4, <1>5 DEF M!Worth, f

\* The rows of a user are typed.
LEMMA SessionType ==
  ASSUME MiningTypes, NEW u \in Members
  PROVE  /\ sessions[u] \in Seq(Sessions) /\ hours[u] \in SUBSET HourRows
         /\ \A i \in 1..Len(sessions[u]) : sessions[u][i] \in Sessions
         /\ Len(sessions[u]) \in Nat
<1>1. sessions[u] \in Seq(Sessions) /\ hours[u] \in SUBSET HourRows
  BY DEF MiningTypes, M!MiningTypeOK, Sessions, HourRows
<1> QED BY <1>1, ElementOfSeq, LenProperties

\* Worth depends on the hours counted and on what the session was started for.
LEMMA WorthStays ==
  ASSUME NEW u, NEW i, M!HoursOf(u, i)' = M!HoursOf(u, i),
         sessions'[u][i].effective = sessions[u][i].effective
  PROVE  M!Worth(u, i, M!HoursOf(u, i))' = M!Worth(u, i, M!HoursOf(u, i))
BY Zenon DEF M!Worth

\* While the rows stay, a call may move to any state that agrees with them.
LEMMA CallMoves ==
  ASSUME MiningInv, UNCHANGED <<clock, sessions, hours>>,
         NEW c \in Calls, NEW s \in CallStates, CallOK(s), call' = [call EXCEPT ![c] = s]
  PROVE  MiningInv'
<1>1. call \in [Calls -> CallStates]
  BY DEF MiningInv, MiningTypes, M!MiningTypeOK, CallStates
<1>2. call' \in [Calls -> CallStates] /\ \A d \in Calls : call'[d] = IF d = c THEN s ELSE call[d]
  BY <1>1
<1>3. MiningTypes'
  BY <1>2 DEF MiningInv, MiningTypes, M!MiningTypeOK, CallStates
<1>4. ASSUME NEW u, NEW i
      PROVE  /\ M!Worth(u, i, M!HoursOf(u, i))' = M!Worth(u, i, M!HoursOf(u, i))
             /\ \A n : M!HasHour(u, i, n)' = M!HasHour(u, i, n)
  <2>1. M!HoursOf(u, i)' = M!HoursOf(u, i)
    BY DEF M!HoursOf
  <2> QED BY <2>1, WorthStays DEF M!HasHour
<1>5. SessionsOK'
  BY <1>4 DEF MiningInv, SessionsOK, Full
<1>6. ASSUME NEW d \in Calls PROVE CallOK(call[d])'
  <2>1. PICK t : t = call'[d]
    OBVIOUS
  <2>2. CallOK(t)
    BY <1>2, <2>1 DEF MiningInv
  <2>3. sessions' = sessions /\ clock' = clock
    OBVIOUS
  <2>4. /\ M!Worth(t.user, t.session, M!HoursOf(t.user, t.session))'
             = M!Worth(t.user, t.session, M!HoursOf(t.user, t.session))
        /\ \A j, n : M!HasHour(t.user, j, n)' = M!HasHour(t.user, j, n)
    BY <1>4
  <2>5. CallOK(t)'
    BY <2>2, <2>3, <2>4 DEF CallOK, Full, M!EndOf
  <2> QED BY <2>1, <2>5 DEF CallOK
<1> QED BY <1>3, <1>5, <1>6 DEF MiningInv

\* A call that ends leaves nothing behind.
LEMMA CallEnds ==
  ASSUME MiningInv, UNCHANGED <<clock, sessions, hours>>, NEW c \in Calls, M!Finish(c)
  PROVE  MiningInv'
<1>1. M!NoCall \in CallStates /\ CallOK(M!NoCall)
  BY DEF M!NoCall, CallStates, CallOK
<1>2. call' = [call EXCEPT ![c] = M!NoCall]
  BY DEF M!Finish
<1> QED BY <1>1, <1>2, CallMoves

\* A session that has ended matures all its hours, and never more.
LEMMA MaturedHours ==
  ASSUME NEW s \in Sessions, NEW asOf \in Nat
  PROVE  /\ M!Matured(s, asOf) \in 0..CycleHours
         /\ M!EndOf(s) <= asOf => M!Matured(s, asOf) = CycleHours
BY RewardsAssumption DEF Sessions, M!Matured, M!EndOf

\* The steps of a call that write no row.
LEMMA CallSteps ==
  ASSUME MiningInv, NEW c \in Calls,
         \/ \E u \in Members, kind \in {"view", "start", "claim"} : M!Begin(c, u, kind)
         \/ M!SyncSession(c) \/ M!View(c) \/ M!PickStart(c) \/ M!PickClaim(c)
         \/ M!SumClaim(c) \/ M!ClaimNext(c) \/ M!CallError(c)
  PROVE  MiningInv'
<1>1. UNCHANGED <<clock, sessions, hours>>
  BY DEF M!Begin, M!SyncSession, M!View, M!PickStart, M!PickClaim, M!SumClaim,
         M!ClaimNext, M!CallError, M!rows
<1> DEFINE r == call[c]
           u == r.user
<1>2. call \in [Calls -> CallStates] /\ r \in CallStates /\ CallOK(r) /\ clock \in Nat
  BY RewardsAssumption DEF MiningInv, MiningTypes, M!MiningTypeOK, CallStates
<1>3. ASSUME NEW s \in CallStates, CallOK(s), call' = [call EXCEPT ![c] = s]
      PROVE  MiningInv'
  BY <1>1, <1>3, CallMoves
<1>4. CASE M!View(c) \/ M!CallError(c)
  BY <1>1, <1>4, CallEnds DEF M!View, M!CallError
<1>5. ASSUME NEW v \in Members, NEW kind \in {"view", "start", "claim"}, M!Begin(c, v, kind)
      PROVE  MiningInv'
  <2> DEFINE t == M!Unclaimed(v)
             s == [M!NoCall EXCEPT !.pc = "sync", !.kind = kind, !.user = v,
                                   !.asOf = clock, !.todo = t]
  <2>1. t \subseteq 1..Len(sessions[v]) /\ t \in SUBSET Nat
    BY SessionType DEF MiningInv, M!Unclaimed
  <2>2. \A i \in 1..Len(sessions[v]) : i \notin t => Full(v, i)
    BY DEF MiningInv, SessionsOK, M!Unclaimed
  <2>3. call' = [call EXCEPT ![c] = s]
    BY <1>5 DEF M!Begin
  <2> HIDE DEF t
  <2>4. s \in CallStates /\ s.user = v /\ s.todo = t /\ s.pc = "sync" /\ s.missing = {} /\ s.asOf = clock
    BY <1>2, <2>1 DEF M!NoCall, CallStates
  <2> HIDE DEF s
  <2>5. CallOK(s)
    BY <1>2, <2>1, <2>2, <2>4 DEF CallOK, Full
  <2> QED BY <1>3, <2>3, <2>4, <2>5
<1>6. CASE M!SyncSession(c)
  <2> DEFINE i == M!Min(r.todo)
             m == {n \in 1..M!Matured(sessions[u][i], r.asOf) : ~M!HasHour(u, i, n)}
             s == [r EXCEPT !.todo = r.todo \ {i}, !.missing = m,
                            !.session = IF m = {} THEN 0 ELSE i]
  <2>1. /\ r.pc = "sync" /\ r.missing = {} /\ r.todo # {} /\ u \in Members
        /\ r.todo \subseteq 1..Len(sessions[u]) /\ r.asOf \in Nat /\ r.todo \in SUBSET Nat
    BY <1>2, <1>6 DEF M!SyncSession, M!AtCall, CallOK, CallStates
  <2>2. call' = [call EXCEPT ![c] = s]
    BY <1>2, <1>6 DEF M!SyncSession, CallStates
  <2>3. i \in r.todo /\ i \in Nat
    BY <2>1, MinOfNumbers
  <2> HIDE DEF i
  <2>4. sessions[u][i] \in Sessions
    BY <2>1, <2>3, SessionType DEF MiningInv
  <2>5. /\ m \subseteq 1..CycleHours /\ m \in SUBSET Nat
        /\ M!EndOf(sessions[u][i]) <= r.asOf =>
             \A n \in 1..CycleHours : M!HasHour(u, i, n) \/ n \in m
    <3> DEFINE k == M!Matured(sessions[u][i], r.asOf)
    <3>1. k \in 0..CycleHours /\ (M!EndOf(sessions[u][i]) <= r.asOf => k = CycleHours)
      BY <2>1, <2>4, MaturedHours
    <3>2. CycleHours \in Nat
      BY RewardsAssumption
    <3> HIDE DEF k
    <3>3. m = {n \in 1..k : ~M!HasHour(u, i, n)}
      BY DEF k
    <3> HIDE DEF m
    <3> QED BY <3>1, <3>2, <3>3
  <2> HIDE DEF m
  <2>6. /\ s \in CallStates /\ s.pc = "sync" /\ s.user = u /\ s.asOf = r.asOf
        /\ s.todo = r.todo \ {i} /\ s.missing = m /\ s.session = (IF m = {} THEN 0 ELSE i)
    BY <1>2, <2>1, <2>3, <2>5 DEF CallStates
  <2> HIDE DEF s
  <2>7. CallOK(s)
    <3>1. \A j \in 1..Len(sessions[u]), n \in 1..CycleHours :
            M!EndOf(sessions[u][j]) <= r.asOf /\ j \notin r.todo => M!HasHour(u, j, n)
      BY <1>2, <2>1 DEF CallOK
    <3>2. \A j \in 1..Len(sessions[u]), n \in 1..CycleHours :
            M!EndOf(sessions[u][j]) <= r.asOf /\ j \notin r.todo \ {i} =>
              M!HasHour(u, j, n) \/ (j = s.session /\ n \in m)
      <4> SUFFICES ASSUME NEW j \in 1..Len(sessions[u]), NEW n \in 1..CycleHours,
                          M!EndOf(sessions[u][j]) <= r.asOf, j \notin r.todo \ {i}
                   PROVE  M!HasHour(u, j, n) \/ (j = s.session /\ n \in m)
        OBVIOUS
      <4>1. CASE j = i
        BY <2>5, <2>6, <4>1
      <4>2. CASE j # i
        BY <3>1, <4>2
      <4> QED BY <4>1, <4>2
    <3>3. r.asOf <= clock /\ clock <= r.asOf + 1
      BY <1>2, <2>1 DEF CallOK
    <3> QED BY <2>1, <2>3, <2>5, <2>6, <3>2, <3>3 DEF CallOK
  <2> QED BY <1>3, <2>2, <2>6, <2>7
<1>7. CASE M!PickStart(c)
  <2>1. CASE M!Finish(c)
    BY <1>1, <2>1, CallEnds
  <2>2. CASE call' = [call EXCEPT ![c].pc = "create"] /\ r.pc = "sync"
    <3> DEFINE s == [r EXCEPT !.pc = "create"]
    <3>1. call' = [call EXCEPT ![c] = s]
      BY <1>2, <2>2
    <3>2. s \in CallStates /\ CallOK(s)
      BY <1>2, <2>2 DEF CallStates, CallOK
    <3> QED BY <1>3, <3>1, <3>2
  <2> QED BY <1>7, <2>1, <2>2 DEF M!PickStart, M!Synced, M!AtCall
<1>8. CASE M!PickClaim(c)
  <2>1. CASE M!Finish(c)
    BY <1>1, <2>1, CallEnds
  <2>2. ASSUME NEW i \in M!Claimable(u, r.asOf), M!Synced(c, "claim"),
               call' = [call EXCEPT ![c].pc = "sum", ![c].session = i]
        PROVE  MiningInv'
    <3> DEFINE s == [r EXCEPT !.pc = "sum", !.session = i]
    <3>1. call' = [call EXCEPT ![c] = s]
      BY <1>2, <2>2
    <3>2. /\ i \in 1..Len(sessions[u]) /\ M!EndOf(sessions[u][i]) <= r.asOf
          /\ r.pc = "sync" /\ r.todo = {} /\ r.missing = {}
      BY <2>2 DEF M!Claimable, M!Unclaimed, M!Synced, M!AtCall
    <3>3. Full(u, i) /\ u \in Members /\ r.asOf <= clock /\ clock <= r.asOf + 1
      BY <1>2, <3>2 DEF CallOK, Full
    <3>4. i \in Nat
      BY <3>2, <3>3, SessionType DEF MiningInv
    <3>5. s \in CallStates /\ s.pc = "sum" /\ s.session = i /\ s.user = u /\ s.asOf = r.asOf
      BY <1>2, <3>4 DEF CallStates
    <3> HIDE DEF s
    <3>6. CallOK(s)
      BY <3>2, <3>3, <3>5 DEF CallOK
    <3> QED BY <1>3, <3>1, <3>5, <3>6
  <2> QED BY <1>8, <2>1, <2>2 DEF M!PickClaim
<1>9. CASE M!SumClaim(c)
  <2> DEFINE i == r.session
             open == {h \in M!HoursOf(u, i) : ~h.claimed}
             w == M!Worth(u, i, open)
             s == [r EXCEPT !.pc = "commit", !.points = w]
  <2>1. /\ r.pc = "sum" /\ call' = [call EXCEPT ![c].pc = "commit", ![c].points = w]
    BY <1>9 DEF M!SumClaim, M!AtCall
  <2>2. /\ u \in Members /\ i \in 1..Len(sessions[u]) /\ Full(u, i)
        /\ r.asOf <= clock /\ clock <= r.asOf + 1
    BY <1>2, <2>1 DEF CallOK
  <2>3. open \in SUBSET hours[u]
    BY DEF M!HoursOf
  <2> HIDE DEF open
  <2>4. w \in Nat
    BY <2>2, <2>3, WorthType DEF MiningInv
  <2>5. ~sessions[u][i].claimed => w = M!Worth(u, i, M!HoursOf(u, i))
    <3>1. SUFFICES ASSUME ~sessions[u][i].claimed PROVE w = M!Worth(u, i, M!HoursOf(u, i))
      OBVIOUS
    <3>2. open = M!HoursOf(u, i)
      BY <2>2, <3>1 DEF MiningInv, SessionsOK, M!HoursOf, open
    <3> QED BY Zenon, <3>2
  <2> HIDE DEF w
  <2>6. call' = [call EXCEPT ![c] = s]
    BY <1>2, <2>1
  <2>7. /\ s \in CallStates /\ s.pc = "commit" /\ s.points = w /\ s.session = i
        /\ s.user = u /\ s.asOf = r.asOf
    BY <1>2, <2>4 DEF CallStates
  <2> HIDE DEF s
  <2>8. CallOK(s)
    BY <2>2, <2>5, <2>7 DEF CallOK
  <2> QED BY <1>3, <2>6, <2>7, <2>8
<1>10. CASE M!ClaimNext(c)
  <2>1. CASE M!Finish(c)
    BY <1>1, <2>1, CallEnds
  <2>2. CASE call' = [call EXCEPT ![c].pc = "create", ![c].asOf = clock] /\ r.pc = "next"
    <3> DEFINE s == [r EXCEPT !.pc = "create", !.asOf = clock]
    <3>1. call' = [call EXCEPT ![c] = s]
      BY <1>2, <2>2
    <3>2. u \in Members
      BY <1>2, <2>2 DEF CallOK
    <3>3. s \in CallStates /\ s.pc = "create" /\ s.user = u /\ s.asOf = clock
      BY <1>2, <2>2 DEF CallStates
    <3> HIDE DEF s
    <3>4. CallOK(s)
      BY <1>2, <3>2, <3>3 DEF CallOK
    <3> QED BY <1>3, <3>1, <3>3, <3>4
  <2> QED BY <1>10, <2>1, <2>2 DEF M!ClaimNext, M!AtCall
<1> QED BY <1>4, <1>5, <1>6, <1>7, <1>8, <1>9, <1>10

\* The hours of a session that no other call touches.
SameSession(u, i) ==
  /\ sessions'[u][i].start = sessions[u][i].start
  /\ sessions'[u][i].effective = sessions[u][i].effective
  /\ sessions[u][i].claimed => sessions'[u][i].claimed
  /\ \A n : M!HasHour(u, i, n) => M!HasHour(u, i, n)'
  /\ Full(u, i) /\ ~sessions'[u][i].claimed => M!HoursOf(u, i)' = M!HoursOf(u, i)

\* What a call knows stays true while others write rows.
LEMMA OthersStay ==
  ASSUME NEW s, CallOK(s), clock' = clock, clock \in Nat, s.asOf \in Nat,
         \A u \in Members : Len(sessions[u]) \in Nat /\ Len(sessions'[u]) \in Nat,
         \A u \in Members : Len(sessions[u]) <= Len(sessions'[u]),
         \A u \in Members : \A i \in 1..Len(sessions[u]) : SameSession(u, i),
         \A u \in Members : \A i \in 1..Len(sessions'[u]) :
           i \notin 1..Len(sessions[u]) =>
             ~(M!EndOf(sessions'[u][i]) <= clock) /\ sessions'[u][i] \in Sessions
  PROVE  CallOK(s)'
<1>1. SUFFICES ASSUME s.pc # "idle" PROVE CallOK(s)'
  BY DEF CallOK
<1> DEFINE u == s.user
<1>2. u \in Members /\ s.asOf <= clock /\ clock <= s.asOf + 1
  BY <1>1 DEF CallOK
<1>3. 1..Len(sessions[u]) \subseteq 1..Len(sessions'[u])
  BY <1>2
<1>4. ASSUME NEW i \in 1..Len(sessions[u])
      PROVE  /\ M!EndOf(sessions[u][i])' = M!EndOf(sessions[u][i])
             /\ Full(u, i) => Full(u, i)'
  BY <1>2, <1>4 DEF SameSession, M!EndOf, Full
<1>5. CASE s.pc = "sync"
  <2>1. /\ s.todo \subseteq 1..Len(sessions'[u]) /\ s.missing \subseteq 1..CycleHours
        /\ s.missing # {} => s.session \in 1..Len(sessions'[u])
    BY <1>3, <1>5 DEF CallOK
  <2>2. ASSUME NEW i \in 1..Len(sessions'[u]), NEW n \in 1..CycleHours,
               M!EndOf(sessions'[u][i]) <= s.asOf, i \notin s.todo
        PROVE  M!HasHour(u, i, n)' \/ (i = s.session /\ n \in s.missing)
    <3>1. CASE i \in 1..Len(sessions[u])
      <4>1. M!EndOf(sessions[u][i]) <= s.asOf
        BY <1>2, <2>2, <3>1 DEF SameSession, M!EndOf
      <4>2. M!HasHour(u, i, n) \/ (i = s.session /\ n \in s.missing)
        BY <1>5, <2>2, <3>1, <4>1 DEF CallOK
      <4> QED BY <1>2, <3>1, <4>2 DEF SameSession
    <3>2. CASE i \notin 1..Len(sessions[u])
      <4>1. ~(M!EndOf(sessions'[u][i]) <= clock) /\ sessions'[u][i] \in Sessions
        BY <1>2, <2>2, <3>2
      <4> PICK e : e = M!EndOf(sessions'[u][i])
        OBVIOUS
      <4>2. e \in Nat
        <5> PICK z \in Sessions : z = sessions'[u][i]
          BY <4>1
        <5>1. z.start \in Nat /\ CycleHours \in Nat
          BY RewardsAssumption DEF Sessions
        <5>2. e = z.start + CycleHours
          BY DEF M!EndOf
        <5> QED BY <5>1, <5>2
      <4>3. e <= s.asOf /\ ~(e <= clock)
        BY <2>2, <4>1
      <4> QED BY <1>2, <4>2, <4>3
    <3> QED BY <3>1, <3>2
  <2> QED BY <1>2, <1>5, <2>1, <2>2 DEF CallOK, M!EndOf
<1>6. CASE s.pc \in {"sum", "commit"}
  <2> DEFINE i == s.session
  <2>1. i \in 1..Len(sessions[u]) /\ Full(u, i)
    BY <1>6 DEF CallOK
  <2>2. i \in 1..Len(sessions'[u]) /\ Full(u, i)'
    BY <1>3, <1>4, <2>1
  <2>3. ASSUME s.pc = "commit", ~sessions'[u][i].claimed
        PROVE  s.points = M!Worth(u, i, M!HoursOf(u, i))'
    <3>1. ~sessions[u][i].claimed /\ M!HoursOf(u, i)' = M!HoursOf(u, i)
          /\ sessions'[u][i].effective = sessions[u][i].effective
      BY <1>2, <2>1, <2>3 DEF SameSession
    <3>2. M!Worth(u, i, M!HoursOf(u, i))' = M!Worth(u, i, M!HoursOf(u, i))
      BY <3>1, WorthStays
    <3>3. s.points = M!Worth(u, i, M!HoursOf(u, i))
      BY <2>3, <3>1 DEF CallOK
    <3> QED BY Zenon, <3>2, <3>3
  <2> QED BY <1>2, <1>6, <2>2, <2>3 DEF CallOK
<1>7. CASE s.pc \notin {"sync", "sum", "commit"}
  BY <1>2, <1>7 DEF CallOK
<1> QED BY <1>5, <1>6, <1>7

\* A missing hour is inserted.
LEMMA HourSteps ==
  ASSUME MiningInv, NEW c \in Calls, NEW p \in M!InForce, M!CreateHour(c, p)
  PROVE  MiningInv'
<1>0. PICK r : r = call[c]
  OBVIOUS
<1> DEFINE u == r.user
           i == r.session
           n == M!Min(r.missing)
           row == [session |-> i, hour |-> n, points |-> M!PerHour(p), claimed |-> FALSE]
           s == [r EXCEPT !.missing = r.missing \ {n},
                          !.session = IF r.missing = {n} THEN 0 ELSE i]
<1>1. call \in [Calls -> CallStates] /\ r \in CallStates /\ CallOK(r) /\ clock \in Nat
  BY <1>0, RewardsAssumption DEF MiningInv, MiningTypes, M!MiningTypeOK, CallStates
<1>2. UNCHANGED <<clock, sessions>> /\ r.pc = "sync" /\ r.missing # {} /\ r.missing \in SUBSET Nat
  BY <1>0, <1>1 DEF M!CreateHour, M!AtCall, CallStates
<1>3. /\ u \in Members /\ i \in 1..Len(sessions[u]) /\ r.missing \subseteq 1..CycleHours
      /\ r.asOf <= clock /\ clock <= r.asOf + 1 /\ r.todo \subseteq 1..Len(sessions[u])
      /\ \A j \in 1..Len(sessions[u]), k \in 1..CycleHours :
           M!EndOf(sessions[u][j]) <= r.asOf /\ j \notin r.todo
             => M!HasHour(u, j, k) \/ (j = i /\ k \in r.missing)
  BY <1>1, <1>2 DEF CallOK
<1>4. n \in r.missing
  BY <1>2, MinOfNumbers
<1>5. CASE M!HasHour(u, i, n)
  <2>1. M!Finish(c) /\ UNCHANGED <<clock, sessions, hours>>
    BY <1>0, <1>2, <1>5 DEF M!CreateHour
  <2> QED BY <2>1, CallEnds
<1>6. CASE ~M!HasHour(u, i, n)
  <2>1. /\ hours' = [hours EXCEPT ![u] = hours[u] \cup {row}]
        /\ call' = [call EXCEPT ![c].missing = r.missing \ {n},
                                ![c].session = IF r.missing = {n} THEN 0 ELSE i]
    BY <1>0, <1>6 DEF M!CreateHour
  <2>2. i \in Nat /\ n \in Nat /\ Len(sessions[u]) \in Nat /\ M!PerHour(p) \in Nat
    <3>1. Len(sessions[u]) \in Nat
      BY <1>3, SessionType DEF MiningInv
    <3>2. p \in Nat
      BY RewardsAssumption DEF M!InForce
    <3>3. i \in Nat /\ n \in Nat
      BY <1>2, <1>3, <1>4, <3>1
    <3>4. M!PerHour(p) \in Nat
      BY <3>2, RewardsAssumption DEF M!PerHour
    <3> QED BY <3>1, <3>3, <3>4
  <2>3. /\ row \in HourRows /\ row.session = i /\ row.hour = n /\ row.claimed = FALSE
    BY <2>2 DEF HourRows
  <2> HIDE DEF n, row
  <2>4. hours \in [Members -> SUBSET HourRows] /\ \A v \in Members : IsFiniteSet(hours[v])
    BY DEF MiningInv, MiningTypes, M!MiningTypeOK, HourRows
  <2>5. /\ hours' \in [Members -> SUBSET HourRows]
        /\ \A v \in Members : hours'[v] = IF v = u THEN hours[u] \cup {row} ELSE hours[v]
    BY <1>3, <2>1, <2>3, <2>4
  <2>6. \A v \in Members : IsFiniteSet(hours'[v])
    <3>1. IsFiniteSet(hours[u] \cup {row})
      BY <1>3, <2>4, FS_AddElement
    <3>2. hours'[u] = hours[u] \cup {row}
      BY <1>3, <2>5
    <3>3. IsFiniteSet(hours'[u])
      BY Zenon, <3>1, <3>2
    <3> QED BY <2>4, <2>5, <3>3
  <2>7. ~sessions[u][i].claimed
    BY <1>3, <1>4, <1>6 DEF MiningInv, SessionsOK, Full
  <2>8. \A v \in Members : \A j, k :
          M!HasHour(v, j, k)' <=> M!HasHour(v, j, k) \/ (v = u /\ j = i /\ k = n)
    BY <1>3, <2>3, <2>5 DEF M!HasHour
  <2>9. \A v \in Members : \A j : v # u \/ j # i => M!HoursOf(v, j)' = M!HoursOf(v, j)
    BY <2>3, <2>5 DEF M!HoursOf
  <2>10. /\ call' = [call EXCEPT ![c] = s] /\ s \in CallStates
         /\ s.pc = "sync" /\ s.user = u /\ s.asOf = r.asOf /\ s.todo = r.todo
         /\ s.missing = r.missing \ {n} /\ s.session = (IF r.missing = {n} THEN 0 ELSE i)
    BY <1>0, <1>1, <1>2, <2>1, <2>2 DEF CallStates
  <2> HIDE DEF s
  <2>11. call' \in [Calls -> CallStates] /\ \A d \in Calls : call'[d] = IF d = c THEN s ELSE call[d]
    BY <1>1, <2>10
  <2>12. MiningTypes'
    BY <1>2, <2>5, <2>6, <2>11 DEF MiningInv, MiningTypes, M!MiningTypeOK, HourRows, CallStates
  <2>13. SessionsOK'
    <3> SUFFICES ASSUME NEW v \in Members
                 PROVE  /\ \A h \in hours'[v] : /\ h.session \in 1..Len(sessions[v])
                                                /\ h.hour \in 1..CycleHours
                                                /\ h.claimed = sessions[v][h.session].claimed
                        /\ \A j \in 1..Len(sessions[v]) :
                             /\ sessions[v][j].start <= clock
                             /\ sessions[v][j].claimed =>
                                  /\ Full(v, j)'
                                  /\ sessions[v][j].paid = M!Worth(v, j, M!HoursOf(v, j))'
                             /\ ~sessions[v][j].claimed => sessions[v][j].paid = 0
      BY <1>2 DEF SessionsOK
    <3>1. \A h \in hours'[v] : /\ h.session \in 1..Len(sessions[v])
                               /\ h.hour \in 1..CycleHours
                               /\ h.claimed = sessions[v][h.session].claimed
      <4>1. row.session \in 1..Len(sessions[u]) /\ row.hour \in 1..CycleHours
            /\ row.claimed = sessions[u][row.session].claimed
        <5>1. sessions[u][i].claimed \in BOOLEAN
          BY <1>3, SessionType DEF MiningInv, Sessions
        <5> QED BY <1>3, <1>4, <2>3, <2>7, <5>1
      <4>2. \A h \in hours[v] : /\ h.session \in 1..Len(sessions[v])
                                 /\ h.hour \in 1..CycleHours
                                 /\ h.claimed = sessions[v][h.session].claimed
        BY DEF MiningInv, SessionsOK
      <4>3. \A h \in hours'[v] : h \in hours[v] \/ (v = u /\ h = row)
        BY <2>5
      <4> QED BY <4>1, <4>2, <4>3
    <3>2. ASSUME NEW j \in 1..Len(sessions[v]), sessions[v][j].claimed
          PROVE  Full(v, j)' /\ sessions[v][j].paid = M!Worth(v, j, M!HoursOf(v, j))'
      <4>1. Full(v, j) /\ sessions[v][j].paid = M!Worth(v, j, M!HoursOf(v, j))
        BY <3>2 DEF MiningInv, SessionsOK
      <4>2. M!HoursOf(v, j)' = M!HoursOf(v, j)
        BY <2>7, <2>9, <3>2
      <4>3. M!Worth(v, j, M!HoursOf(v, j))' = M!Worth(v, j, M!HoursOf(v, j))
        BY <1>2, <4>2, WorthStays
      <4>4. Full(v, j)'
        BY <2>8, <4>1 DEF Full
      <4> QED BY Zenon, <4>1, <4>3, <4>4
    <3> QED BY <3>1, <3>2 DEF MiningInv, SessionsOK
  <2>14. ASSUME NEW v \in Members, NEW j \in 1..Len(sessions[v]) PROVE SameSession(v, j)
    <3>1. Full(v, j) => v # u \/ j # i
      BY <1>3, <1>4, <1>6 DEF Full
    <3> QED BY <1>2, <2>8, <2>9, <3>1 DEF SameSession
  <2>15. ASSUME NEW d \in Calls, d # c PROVE CallOK(call[d])'
    <3>1. call[d] \in CallStates /\ CallOK(call[d])
      BY <1>1 DEF MiningInv
    <3>2. PICK t : t = call[d]
      OBVIOUS
    <3>3. CallOK(t) /\ t.asOf \in Nat /\ call'[d] = t
      BY <2>11, <2>15, <3>1, <3>2 DEF CallStates
    <3>4. \A v \in Members : Len(sessions[v]) \in Nat /\ Len(sessions'[v]) \in Nat
                             /\ Len(sessions[v]) <= Len(sessions'[v])
      BY <1>2, SessionType DEF MiningInv
    <3>5. \A v \in Members : \A j \in 1..Len(sessions'[v]) : j \in 1..Len(sessions[v])
      BY <1>2
    <3>6. CallOK(t)'
      BY <1>1, <1>2, <2>14, <3>3, <3>4, <3>5, OthersStay
    <3> QED BY <3>3, <3>6 DEF CallOK
  <2>16. CallOK(call[c])'
    <3>1. call'[c] = s
      BY <2>11
    <3>2. CallOK(s)'
      <4>1. \A j \in 1..Len(sessions[u]), k \in 1..CycleHours :
              M!EndOf(sessions[u][j]) <= r.asOf /\ j \notin r.todo
                => M!HasHour(u, j, k)' \/ (j = s.session /\ k \in s.missing)
        <5> SUFFICES ASSUME NEW j \in 1..Len(sessions[u]), NEW k \in 1..CycleHours,
                            M!EndOf(sessions[u][j]) <= r.asOf, j \notin r.todo,
                            ~M!HasHour(u, j, k)'
                     PROVE  j = s.session /\ k \in s.missing
          OBVIOUS
        <5>1. ~M!HasHour(u, j, k) /\ ~(j = i /\ k = n)
          BY <1>3, <2>8
        <5>2. j = i /\ k \in r.missing /\ k # n
          BY <1>3, <5>1
        <5> QED BY <2>10, <5>2
      <4>2. s.missing \subseteq 1..CycleHours
            /\ (s.missing # {} => s.session \in 1..Len(sessions[u]))
        BY <1>3, <2>10
      <4> QED BY <1>2, <1>3, <2>10, <4>1, <4>2 DEF CallOK, M!EndOf
    <3> QED BY <3>1, <3>2 DEF CallOK
  <2> QED BY <2>12, <2>13, <2>15, <2>16 DEF MiningInv
<1> QED BY <1>5, <1>6

\* A session starts.
LEMMA StartSteps ==
  ASSUME MiningInv, NEW c \in Calls, NEW p \in M!InForce, M!CreateSession(c, p)
  PROVE  MiningInv'
<1>0. PICK r : r = call[c]
  OBVIOUS
<1> DEFINE u == r.user
           new == [start |-> r.asOf, effective |-> p, claimed |-> FALSE, paid |-> 0]
<1>1. call \in [Calls -> CallStates] /\ r \in CallStates /\ CallOK(r) /\ clock \in Nat
  BY <1>0, RewardsAssumption DEF MiningInv, MiningTypes, M!MiningTypeOK, CallStates
<1>2. /\ UNCHANGED <<clock, hours>> /\ r.pc = "create" /\ M!Finish(c)
      /\ sessions' = [sessions EXCEPT ![u] = Append(sessions[u], new)]
  BY <1>0 DEF M!CreateSession, M!AtCall
<1>3. u \in Members /\ r.asOf <= clock /\ clock <= r.asOf + 1 /\ r.asOf \in Nat
  BY <1>1, <1>2 DEF CallOK, CallStates
<1>4. new \in Sessions /\ new.start = r.asOf /\ new.claimed = FALSE /\ new.paid = 0
  <2>1. p \in Nat
    BY RewardsAssumption DEF M!InForce
  <2> QED BY <1>3, <2>1 DEF Sessions
<1> HIDE DEF new
<1>5. sessions \in [Members -> Seq(Sessions)]
  BY DEF MiningInv, MiningTypes, M!MiningTypeOK, Sessions
<1> DEFINE longer == Append(sessions[u], new)
<1>6. /\ longer \in Seq(Sessions) /\ Len(sessions[u]) \in Nat
      /\ Len(longer) = Len(sessions[u]) + 1
      /\ \A i \in 1..Len(sessions[u]) : longer[i] = sessions[u][i]
      /\ longer[Len(sessions[u]) + 1] = new
  BY <1>3, <1>4, <1>5, AppendProperties, LenProperties
<1> HIDE DEF longer
<1>7. /\ sessions' \in [Members -> Seq(Sessions)]
      /\ \A v \in Members : sessions'[v] = IF v = u THEN longer ELSE sessions[v]
  <2>1. sessions' = [sessions EXCEPT ![u] = longer]
    BY <1>2 DEF longer
  <2> QED BY <1>3, <1>5, <1>6, <2>1
<1>8. \A v \in Members :
        /\ Len(sessions[v]) \in Nat /\ Len(sessions'[v]) \in Nat
        /\ Len(sessions[v]) <= Len(sessions'[v])
        /\ \A i \in 1..Len(sessions[v]) : sessions'[v][i] = sessions[v][i]
        /\ \A i \in 1..Len(sessions'[v]) :
             i \notin 1..Len(sessions[v]) => sessions'[v][i] = new
  <2>1. \A v \in Members : Len(sessions[v]) \in Nat
    BY SessionType DEF MiningInv
  <2>2. ASSUME NEW v \in Members, v # u PROVE sessions'[v] = sessions[v]
    BY <1>7, <2>2
  <2>3. sessions'[u] = longer
    BY <1>3, <1>7
  <2> QED BY <1>3, <1>6, <2>1, <2>2, <2>3
<1>9. call' \in [Calls -> CallStates]
      /\ \A d \in Calls : call'[d] = IF d = c THEN M!NoCall ELSE call[d]
  <2>1. M!NoCall \in CallStates
    BY DEF M!NoCall, CallStates
  <2> QED BY <1>1, <1>2, <2>1 DEF M!Finish
<1>10. MiningTypes'
  BY <1>2, <1>7, <1>9 DEF MiningInv, MiningTypes, M!MiningTypeOK, Sessions, CallStates
<1>11. \A v \in Members : \A i : M!HoursOf(v, i)' = M!HoursOf(v, i)
                                /\ \A n : M!HasHour(v, i, n)' = M!HasHour(v, i, n)
  BY <1>2 DEF M!HasHour, M!HoursOf
<1>12. SessionsOK'
  <2> SUFFICES ASSUME NEW v \in Members
               PROVE  /\ \A h \in hours[v] : /\ h.session \in 1..Len(sessions'[v])
                                             /\ h.hour \in 1..CycleHours
                                             /\ h.claimed = sessions'[v][h.session].claimed
                      /\ \A j \in 1..Len(sessions'[v]) :
                           /\ sessions'[v][j].start <= clock
                           /\ sessions'[v][j].claimed =>
                                /\ Full(v, j)'
                                /\ sessions'[v][j].paid = M!Worth(v, j, M!HoursOf(v, j))'
                           /\ ~sessions'[v][j].claimed => sessions'[v][j].paid = 0
    BY <1>2 DEF SessionsOK
  <2>1. \A h \in hours[v] : /\ h.session \in 1..Len(sessions'[v])
                            /\ h.hour \in 1..CycleHours
                            /\ h.claimed = sessions'[v][h.session].claimed
    <3>1. \A h \in hours[v] : /\ h.session \in 1..Len(sessions[v])
                              /\ h.hour \in 1..CycleHours
                              /\ h.claimed = sessions[v][h.session].claimed
      BY DEF MiningInv, SessionsOK
    <3>2. 1..Len(sessions[v]) \subseteq 1..Len(sessions'[v])
      BY <1>8
    <3> QED BY <1>8, <3>1, <3>2
  <2>2. ASSUME NEW j \in 1..Len(sessions[v]), sessions[v][j].claimed
        PROVE  Full(v, j)' /\ sessions[v][j].paid = M!Worth(v, j, M!HoursOf(v, j))'
    <3>1. Full(v, j) /\ sessions[v][j].paid = M!Worth(v, j, M!HoursOf(v, j))
      BY <2>2 DEF MiningInv, SessionsOK
    <3>2. sessions'[v][j].effective = sessions[v][j].effective
      BY <1>8
    <3>3. M!Worth(v, j, M!HoursOf(v, j))' = M!Worth(v, j, M!HoursOf(v, j))
      BY <1>11, <3>2, WorthStays
    <3>4. Full(v, j)'
      BY <1>11, <3>1 DEF Full
    <3> QED BY Zenon, <3>1, <3>3, <3>4
  <2>3. ASSUME NEW j \in 1..Len(sessions'[v])
        PROVE  \/ j \in 1..Len(sessions[v]) /\ sessions'[v][j] = sessions[v][j]
               \/ sessions'[v][j] = new
    BY <1>8
  <2>4. \A j \in 1..Len(sessions[v]) :
          /\ sessions[v][j].start <= clock
          /\ ~sessions[v][j].claimed => sessions[v][j].paid = 0
    BY DEF MiningInv, SessionsOK
  <2> QED BY <1>3, <1>4, <2>1, <2>2, <2>3, <2>4
<1>13. ASSUME NEW v \in Members, NEW j \in 1..Len(sessions[v]) PROVE SameSession(v, j)
  <2>1. sessions'[v][j] = sessions[v][j]
    BY <1>8
  <2> QED BY <1>11, <2>1 DEF SameSession
<1>14. ASSUME NEW d \in Calls PROVE CallOK(call[d])'
  <2>1. CASE d = c
    BY <1>9, <2>1 DEF CallOK, M!NoCall
  <2>2. CASE d # c
    <3>1. PICK t : t = call[d]
      OBVIOUS
    <3>2. CallOK(t) /\ t.asOf \in Nat /\ call'[d] = t
      BY <1>1, <1>9, <2>2, <3>1 DEF MiningInv, CallStates
    <3>3. \A v \in Members : \A j \in 1..Len(sessions'[v]) :
            j \notin 1..Len(sessions[v]) =>
              ~(M!EndOf(sessions'[v][j]) <= clock) /\ sessions'[v][j] \in Sessions
      <4>1. ~(M!EndOf(new) <= clock)
        BY <1>1, <1>3, <1>4, RewardsAssumption DEF M!EndOf
      <4> QED BY <1>4, <1>8, <4>1 DEF M!EndOf
    <3>4. CallOK(t)'
      BY <1>1, <1>2, <1>8, <1>13, <3>2, <3>3, OthersStay
    <3> QED BY <3>2, <3>4 DEF CallOK
  <2> QED BY <2>1, <2>2
<1> QED BY <1>10, <1>12, <1>14 DEF MiningInv

\* Closing hours does not change what they are worth.
LEMMA ClosedHoursTotal ==
  ASSUME NEW S \in SUBSET HourRows, IsFiniteSet(S), \A h \in S : h.claimed = FALSE,
         NEW C, C = {[h EXCEPT !.claimed = TRUE] : h \in S}
  PROVE  /\ IsFiniteSet(C)
         /\ M!Total(M!HourPoints(C), C) = M!Total(M!HourPoints(S), S)
<1> DEFINE b == [h \in S |-> [h EXCEPT !.claimed = TRUE]]
           f == M!HourPoints(S)
           g == M!HourPoints(C)
           B == {b[x] : x \in S}
<1>1. B = C
  OBVIOUS
<1>2. \A x \in S : f[x] \in Int /\ g[b[x]] = f[x]
  <2> SUFFICES ASSUME NEW x \in S PROVE f[x] \in Int /\ g[b[x]] = f[x]
    OBVIOUS
  <2>1. f[x] = x.points /\ x.points \in Nat
    BY DEF M!HourPoints, HourRows
  <2>2. b[x] \in C /\ b[x].points = x.points
    BY DEF HourRows
  <2>3. g[b[x]] = b[x].points
    BY <2>2 DEF M!HourPoints
  <2> QED BY <2>1, <2>2, <2>3
<1>3. \A x, y \in S : b[x] = b[y] => x = y
  <2> SUFFICES ASSUME NEW x \in S, NEW y \in S, b[x] = b[y] PROVE x = y
    OBVIOUS
  <2>1. x \in HourRows /\ y \in HourRows /\ x.claimed = y.claimed
    OBVIOUS
  <2>2. x.session = y.session /\ x.hour = y.hour /\ x.points = y.points
    <3>1. /\ b[x].session = x.session /\ b[x].hour = x.hour /\ b[x].points = x.points
          /\ b[y].session = y.session /\ b[y].hour = y.hour /\ b[y].points = y.points
      BY <2>1 DEF HourRows
    <3> QED BY <3>1
  <2> QED BY <2>1, <2>2 DEF HourRows
<1> HIDE DEF b, f, g
<1>4. IsFiniteSet(B) /\ Total(g, B) = Total(f, S)
  BY <1>2, <1>3, TotalOfImage
<1> HIDE DEF B
<1>5. IsFiniteSet(C) /\ Total(g, C) = Total(f, S)
  BY Zenon, <1>1, <1>4
<1> QED BY Zenon, <1>5, MiningTotal DEF f, g

\* A finished session is claimed.
LEMMA ClaimSteps ==
  ASSUME MiningInv, NEW c \in Calls, M!CommitClaim(c)
  PROVE  MiningInv'
<1>0. PICK r : r = call[c]
  OBVIOUS
<1> DEFINE u == r.user
           i == r.session
           p == r.points
           old == M!HoursOf(u, i)
           closed == {[h EXCEPT !.claimed = TRUE] : h \in old}
           paid == [sessions[u][i] EXCEPT !.claimed = TRUE, !.paid = @ + p]
           s == [M!NoCall EXCEPT !.pc = "next", !.user = u, !.asOf = r.asOf]
<1>1. call \in [Calls -> CallStates] /\ r \in CallStates /\ CallOK(r) /\ clock \in Nat
  BY <1>0, RewardsAssumption DEF MiningInv, MiningTypes, M!MiningTypeOK, CallStates
<1>2. r.pc = "commit" /\ clock' = clock
  BY <1>0 DEF M!CommitClaim, M!AtCall
<1>3. /\ u \in Members /\ i \in 1..Len(sessions[u]) /\ Full(u, i)
      /\ r.asOf <= clock /\ clock <= r.asOf + 1 /\ r.asOf \in Nat /\ p \in Nat
      /\ ~sessions[u][i].claimed => p = M!Worth(u, i, old)
  BY <1>1, <1>2 DEF CallOK, CallStates
<1>4. CASE sessions[u][i].claimed
  <2>1. M!Finish(c) /\ UNCHANGED <<clock, sessions, hours>>
    BY <1>0, <1>2, <1>4 DEF M!CommitClaim, M!MayClaim, M!rows
  <2> QED BY <2>1, CallEnds
<1>5. CASE ~sessions[u][i].claimed
  <2>1. /\ sessions' = [sessions EXCEPT ![u][i].claimed = TRUE, ![u][i].paid = @ + p]
        /\ hours' = [hours EXCEPT ![u] = (hours[u] \ old) \cup closed]
        /\ call' = [call EXCEPT ![c] = s]
    BY <1>0, <1>5 DEF M!CommitClaim, M!MayClaim
  <2>2. /\ sessions \in [Members -> Seq(Sessions)] /\ sessions[u] \in Seq(Sessions)
        /\ hours \in [Members -> SUBSET HourRows] /\ \A v \in Members : IsFiniteSet(hours[v])
    BY <1>3, SessionType DEF MiningInv, MiningTypes, M!MiningTypeOK, Sessions, HourRows
  <2>3. /\ sessions[u][i] \in Sessions /\ sessions[u][i].paid = 0
        /\ Len(sessions[u]) \in Nat /\ i \in Nat
    BY <1>3, <1>5, SessionType DEF MiningInv, SessionsOK
  <2>4. /\ paid \in Sessions /\ paid.claimed = TRUE /\ paid.paid = p
        /\ paid.start = sessions[u][i].start /\ paid.effective = sessions[u][i].effective
    <3>1. ASSUME NEW x \in Sessions, NEW n \in Nat
          PROVE  LET y == [x EXCEPT !.claimed = TRUE, !.paid = n]
                 IN  /\ y \in Sessions /\ y.claimed = TRUE /\ y.paid = n
                     /\ y.start = x.start /\ y.effective = x.effective
      BY DEF Sessions
    <3>2. sessions[u][i].paid + p = p
      BY <1>3, <2>3
    <3>3. paid = [sessions[u][i] EXCEPT !.claimed = TRUE, !.paid = p]
      BY Zenon, <3>2
    <3> HIDE DEF paid
    <3> QED BY <1>3, <2>3, <3>1, <3>3
  <2> DEFINE list == [sessions[u] EXCEPT ![i] = paid]
  <2>5. sessions' = [sessions EXCEPT ![u] = list]
    BY <2>1, <2>2
  <2> HIDE DEF paid
  <2>6. /\ list \in Seq(Sessions) /\ Len(list) = Len(sessions[u])
        /\ \A j \in 1..Len(sessions[u]) : list[j] = IF j = i THEN paid ELSE sessions[u][j]
    BY <1>3, <2>2, <2>4, ExceptSeq
  <2> HIDE DEF list
  <2>7. /\ sessions' \in [Members -> Seq(Sessions)]
        /\ \A v \in Members :
             /\ Len(sessions[v]) \in Nat /\ Len(sessions'[v]) = Len(sessions[v])
             /\ \A j \in 1..Len(sessions[v]) :
                  sessions'[v][j] = IF v = u /\ j = i THEN paid ELSE sessions[v][j]
    <3>1. sessions' \in [Members -> Seq(Sessions)]
      BY <2>2, <2>5, <2>6
    <3>2. \A v \in Members : Len(sessions[v]) \in Nat
      BY SessionType DEF MiningInv
    <3>3. sessions'[u] = list /\ \A v \in Members \ {u} : sessions'[v] = sessions[v]
      BY <1>3, <2>2, <2>5
    <3> QED BY <1>3, <2>6, <3>1, <3>2, <3>3
  <2>8. old \in SUBSET HourRows /\ IsFiniteSet(old) /\ old \subseteq hours[u]
    <3>1. old \subseteq hours[u]
      BY DEF M!HoursOf
    <3> QED BY <1>3, <2>2, <3>1, FS_Subset
  <2>9. \A h \in old : h.claimed = FALSE /\ h.session = i
    <3>1. \A h \in old : h \in HourRows /\ h.session = i /\ h.claimed = sessions[u][i].claimed
      BY <1>3, <2>8 DEF MiningInv, SessionsOK, M!HoursOf
    <3> QED BY <1>5, <3>1 DEF HourRows
  <2>10. /\ IsFiniteSet(closed)
         /\ M!Total(M!HourPoints(closed), closed) = M!Total(M!HourPoints(old), old)
    <3> HIDE DEF old
    <3> QED BY <2>8, <2>9, ClosedHoursTotal
  <2>11. /\ closed \in SUBSET HourRows
         /\ \A h \in closed : h.session = i /\ h.claimed = TRUE /\ \E o \in old : o.hour = h.hour
         /\ \A o \in old : \E h \in closed : h.hour = o.hour
    <3>1. \A o \in old : LET h == [o EXCEPT !.claimed = TRUE]
                         IN  h \in HourRows /\ h.session = i /\ h.claimed = TRUE /\ h.hour = o.hour
      <4> HIDE DEF old
      <4> QED BY <2>8, <2>9 DEF HourRows
    <3> HIDE DEF old
    <3> QED BY <3>1
  <2>12. M!HoursOf(u, i) = old
    OBVIOUS
  <2> HIDE DEF closed, old
  <2>13. /\ hours' \in [Members -> SUBSET HourRows]
         /\ \A v \in Members :
              hours'[v] = IF v = u THEN (hours[u] \ old) \cup closed ELSE hours[v]
    BY <1>3, <2>1, <2>2, <2>11
  <2>14. \A v \in Members : IsFiniteSet(hours'[v])
    <3>1. IsFiniteSet(hours[u] \ old)
      BY <1>3, <2>2, FS_Difference
    <3>2. IsFiniteSet((hours[u] \ old) \cup closed)
      BY <2>10, <3>1, FS_Union
    <3>3. hours'[u] = (hours[u] \ old) \cup closed
      BY <1>3, <2>13
    <3>4. IsFiniteSet(hours'[u])
      BY Zenon, <3>2, <3>3
    <3> QED BY <2>2, <2>13, <3>4
  <2>15. M!HoursOf(u, i)' = closed
    <3>1. \A h \in hours[u] : h \in old <=> h.session = i
      BY <2>12 DEF M!HoursOf
    <3>2. hours'[u] = (hours[u] \ old) \cup closed
      BY <1>3, <2>13
    <3> QED BY <2>11, <3>1, <3>2 DEF M!HoursOf
  <2>16. ASSUME NEW v \in Members, NEW j, v # u \/ j # i
         PROVE  M!HoursOf(v, j)' = M!HoursOf(v, j)
    <3>1. CASE v # u
      BY <2>13, <3>1 DEF M!HoursOf
    <3>2. CASE v = u /\ j # i
      <4>1. \A h \in hours[u] : h \in old <=> h.session = i
        BY <2>12 DEF M!HoursOf
      <4>2. hours'[u] = (hours[u] \ old) \cup closed
        BY <1>3, <2>13
      <4> QED BY <2>11, <3>2, <4>1, <4>2 DEF M!HoursOf
    <3> QED BY <2>16, <3>1, <3>2
  <2>17. ASSUME NEW v \in Members, NEW j
         PROVE  \A n : M!HasHour(v, j, n)' <=> M!HasHour(v, j, n)
    <3>1. \A n : M!HasHour(v, j, n) <=> \E h \in M!HoursOf(v, j) : h.hour = n
      BY DEF M!HasHour, M!HoursOf
    <3>2. \A n : M!HasHour(v, j, n)' <=> \E h \in M!HoursOf(v, j)' : h.hour = n
      BY DEF M!HasHour, M!HoursOf
    <3>3. CASE v = u /\ j = i
      BY <2>11, <2>12, <2>15, <3>1, <3>2, <3>3
    <3>4. CASE v # u \/ j # i
      <4>1. M!HoursOf(v, j)' = M!HoursOf(v, j)
        BY <2>16, <3>4
      <4> QED BY <3>1, <3>2, <4>1
    <3> QED BY <3>3, <3>4
  <2>18. M!Worth(u, i, M!HoursOf(u, i))' = p
    <3>1. sessions'[u][i].effective = sessions[u][i].effective
      BY <1>3, <2>4, <2>7
    <3>2. M!Worth(u, i, old) = p
      BY <1>3, <1>5 DEF old
    <3>3. M!Worth(u, i, M!HoursOf(u, i))'
            = LET sum == M!Total(M!HourPoints(closed), closed)
              IN  IF sum > 0 THEN sum ELSE sessions'[u][i].effective
      BY Zenon, <2>15 DEF M!Worth
    <3>4. M!Worth(u, i, old)
            = LET sum == M!Total(M!HourPoints(old), old)
              IN  IF sum > 0 THEN sum ELSE sessions[u][i].effective
      BY Zenon DEF M!Worth
    <3> QED BY Zenon, <2>10, <3>1, <3>2, <3>3, <3>4
  <2>19. s \in CallStates /\ s.pc = "next" /\ s.user = u /\ s.asOf = r.asOf
    BY <1>1, <1>3 DEF CallStates, M!NoCall
  <2> HIDE DEF s
  <2>20. call' \in [Calls -> CallStates]
         /\ \A d \in Calls : call'[d] = IF d = c THEN s ELSE call[d]
    BY <1>1, <2>1, <2>19
  <2>21. MiningTypes'
    BY <1>2, <2>7, <2>13, <2>14, <2>20
       DEF MiningInv, MiningTypes, M!MiningTypeOK, Sessions, HourRows, CallStates
  <2>22. SessionsOK'
    <3> SUFFICES ASSUME NEW v \in Members
                 PROVE  /\ \A h \in hours'[v] : /\ h.session \in 1..Len(sessions'[v])
                                                /\ h.hour \in 1..CycleHours
                                                /\ h.claimed = sessions'[v][h.session].claimed
                        /\ \A j \in 1..Len(sessions'[v]) :
                             /\ sessions'[v][j].start <= clock
                             /\ sessions'[v][j].claimed =>
                                  /\ Full(v, j)'
                                  /\ sessions'[v][j].paid = M!Worth(v, j, M!HoursOf(v, j))'
                             /\ ~sessions'[v][j].claimed => sessions'[v][j].paid = 0
      BY <1>2 DEF SessionsOK
    <3>0. /\ \A h \in hours[v] : /\ h.session \in 1..Len(sessions[v])
                                 /\ h.hour \in 1..CycleHours
                                 /\ h.claimed = sessions[v][h.session].claimed
          /\ \A j \in 1..Len(sessions[v]) :
               /\ sessions[v][j].start <= clock
               /\ sessions[v][j].claimed =>
                    Full(v, j) /\ sessions[v][j].paid = M!Worth(v, j, M!HoursOf(v, j))
               /\ ~sessions[v][j].claimed => sessions[v][j].paid = 0
      BY DEF MiningInv, SessionsOK
    <3>1. ASSUME NEW h \in hours'[v]
          PROVE  /\ h.session \in 1..Len(sessions'[v])
                 /\ h.hour \in 1..CycleHours
                 /\ h.claimed = sessions'[v][h.session].claimed
      <4>1. CASE h \in hours[v] /\ (v # u \/ h.session # i)
        BY <2>7, <3>0, <4>1
      <4>2. CASE v = u /\ h \in closed
        <5>1. PICK o \in old : o.hour = h.hour
          BY <2>11, <4>2
        <5>2. h.hour \in 1..CycleHours
          BY <2>8, <3>0, <4>2, <5>1
        <5> QED BY <1>3, <2>4, <2>7, <2>11, <4>2, <5>2
      <4>3. \A o \in hours[u] : o \in old <=> o.session = i
        BY <2>12 DEF M!HoursOf
      <4> QED BY <2>13, <4>1, <4>2, <4>3
    <3>2. ASSUME NEW j \in 1..Len(sessions[v])
          PROVE  /\ sessions'[v][j].start <= clock
                 /\ sessions'[v][j].claimed =>
                      /\ Full(v, j)'
                      /\ sessions'[v][j].paid = M!Worth(v, j, M!HoursOf(v, j))'
                 /\ ~sessions'[v][j].claimed => sessions'[v][j].paid = 0
      <4>1. Full(v, j) => Full(v, j)'
        BY <2>17 DEF Full
      <4>2. CASE v = u /\ j = i
        <5>1. sessions'[u][i] = paid
          BY <1>3, <2>7
        <5> QED BY <1>3, <2>4, <2>18, <3>0, <4>1, <4>2, <5>1
      <4>3. CASE v # u \/ j # i
        <5>1. sessions'[v][j] = sessions[v][j]
          BY <2>7, <4>3
        <5>2. M!HoursOf(v, j)' = M!HoursOf(v, j)
          BY <2>16, <4>3
        <5>3. M!Worth(v, j, M!HoursOf(v, j))' = M!Worth(v, j, M!HoursOf(v, j))
          BY <5>1, <5>2, WorthStays
        <5> QED BY <3>0, <4>1, <5>1, <5>3
      <4> QED BY <4>2, <4>3
    <3> QED BY <2>7, <3>1, <3>2
  <2>23. ASSUME NEW v \in Members, NEW j \in 1..Len(sessions[v]) PROVE SameSession(v, j)
    <3>1. CASE v = u /\ j = i
      <4>1. sessions'[u][i] = paid
        BY <1>3, <2>7
      <4> QED BY <2>4, <2>17, <3>1, <4>1 DEF SameSession
    <3>2. CASE v # u \/ j # i
      <4>1. sessions'[v][j] = sessions[v][j]
        BY <2>7, <3>2
      <4> QED BY <2>16, <2>17, <3>2, <4>1 DEF SameSession
    <3> QED BY <3>1, <3>2
  <2>24. ASSUME NEW d \in Calls PROVE CallOK(call[d])'
    <3>1. CASE d = c
      BY <1>2, <1>3, <2>19, <2>20, <3>1 DEF CallOK
    <3>2. CASE d # c
      <4>1. PICK t : t = call[d]
        OBVIOUS
      <4>2. CallOK(t) /\ t.asOf \in Nat /\ call'[d] = t
        BY <1>1, <2>20, <3>2, <4>1 DEF MiningInv, CallStates
      <4>3. \A v \in Members : Len(sessions'[v]) \in Nat /\ Len(sessions[v]) <= Len(sessions'[v])
        BY <2>7
      <4>4. CallOK(t)'
        BY <1>1, <1>2, <2>7, <2>23, <4>2, <4>3, OthersStay
      <4> QED BY <4>2, <4>4 DEF CallOK
    <3> QED BY <3>1, <3>2
  <2> QED BY <2>21, <2>22, <2>24 DEF MiningInv
<1> QED BY <1>4, <1>5

\* An hour ends under every call that is in progress.
LEMMA ClockSteps ==
  ASSUME MiningInv, M!Hour
  PROVE  MiningInv'
<1>1. /\ clock < MaxClock /\ clock' = clock + 1 /\ UNCHANGED <<sessions, hours, call>>
      /\ \A c \in Calls : call[c].pc # "idle" => call[c].asOf = clock
  BY DEF M!Hour, M!rows, M!AtCall
<1>2. clock \in 0..MaxClock /\ clock \in Nat /\ MaxClock \in Nat
  BY RewardsAssumption DEF MiningInv, MiningTypes, M!MiningTypeOK
<1>3. MiningTypes'
  BY <1>1, <1>2 DEF MiningInv, MiningTypes, M!MiningTypeOK
<1>4. /\ \A u, i, n : M!HasHour(u, i, n)' = M!HasHour(u, i, n)
      /\ \A u, i : M!HoursOf(u, i)' = M!HoursOf(u, i)
  BY <1>1 DEF M!HasHour, M!HoursOf
<1>5. ASSUME NEW u, NEW i
      PROVE  M!Worth(u, i, M!HoursOf(u, i))' = M!Worth(u, i, M!HoursOf(u, i))
  BY <1>1, <1>4, WorthStays
<1>6. SessionsOK'
  <2>1. ASSUME NEW u \in Members, NEW i \in 1..Len(sessions[u])
        PROVE  sessions[u][i].start <= clock + 1
    <3>1. sessions[u][i].start <= clock /\ sessions[u][i].start \in Nat
      BY SessionType DEF MiningInv, SessionsOK, Sessions
    <3> QED BY <1>2, <3>1
  <2> QED BY <1>1, <1>4, <1>5, <2>1 DEF MiningInv, SessionsOK, Full
<1>7. ASSUME NEW c \in Calls PROVE CallOK(call[c])'
  <2>1. PICK s : s = call[c]
    OBVIOUS
  <2>2. CallOK(s) /\ call'[c] = s /\ (s.pc # "idle" => s.asOf = clock)
    BY <1>1, <2>1 DEF MiningInv
  <2>3. CallOK(s)'
    BY <1>1, <1>2, <1>4, <1>5, <2>2 DEF CallOK, Full, M!EndOf
  <2> QED BY <2>2, <2>3 DEF CallOK
<1> QED BY <1>3, <1>6, <1>7 DEF MiningInv

\* The other parts write no row of mining.
LEMMA MiningStays ==
  ASSUME MiningInv, UNCHANGED miningVars
  PROVE  MiningInv'
<1>1. UNCHANGED <<clock, sessions, hours, call>>
  BY DEF miningVars
<1>2. /\ \A u, i, n : M!HasHour(u, i, n)' = M!HasHour(u, i, n)
      /\ \A u, i : M!HoursOf(u, i)' = M!HoursOf(u, i)
  BY <1>1 DEF M!HasHour, M!HoursOf
<1>3. \A u, i : M!Worth(u, i, M!HoursOf(u, i))' = M!Worth(u, i, M!HoursOf(u, i))
  BY <1>1, <1>2, WorthStays
<1>4. SessionsOK'
  BY <1>1, <1>2, <1>3 DEF MiningInv, SessionsOK, Full
<1>5. ASSUME NEW c \in Calls PROVE CallOK(call[c])'
  BY <1>1, <1>2, <1>3 DEF MiningInv, CallOK, Full, M!EndOf
<1>6. MiningTypes'
  BY <1>1 DEF MiningInv, MiningTypes, M!MiningTypeOK
<1> QED BY <1>4, <1>5, <1>6 DEF MiningInv

\* Mining keeps its rows and its calls consistent with one another.
LEMMA MiningCorrect == Spec => []MiningInv
<1>1. Init => MiningInv
  <2> SUFFICES ASSUME Init PROVE MiningInv
    OBVIOUS
  <2>1. /\ clock = 0 /\ sessions = [u \in Members |-> <<>>] /\ hours = [u \in Members |-> {}]
        /\ call = [c \in Calls |-> M!NoCall]
    BY DEF Init, M!Init
  <2>2. M!NoCall \in CallStates /\ M!NoCall.pc = "idle"
    BY DEF M!NoCall, CallStates
  <2>3. \A u \in Members : IsFiniteSet(hours[u])
    BY <2>1, FS_EmptySet
  <2>4. MiningTypes
    <3>1. <<>> \in Seq(Sessions)
      OBVIOUS
    <3> QED BY <2>1, <2>2, <2>3, <3>1, RewardsAssumption
            DEF MiningTypes, M!MiningTypeOK, CallStates, Sessions
  <2>5. SessionsOK
    BY <2>1 DEF SessionsOK
  <2> QED BY <2>1, <2>2, <2>4, <2>5 DEF MiningInv, CallOK
<1>2. MiningInv /\ [Next]_vars => MiningInv'
  <2> SUFFICES ASSUME MiningInv, [Next]_vars PROVE MiningInv'
    OBVIOUS
  <2>1. CASE M!Step
    <3>1. CASE M!Hour
      BY <3>1, ClockSteps
    <3>2. ASSUME NEW c \in Calls,
                 \/ \E u \in Members, kind \in {"view", "start", "claim"} : M!Begin(c, u, kind)
                 \/ M!SyncSession(c) \/ M!View(c) \/ M!PickStart(c) \/ M!PickClaim(c)
                 \/ M!SumClaim(c) \/ M!ClaimNext(c) \/ M!CallError(c)
          PROVE  MiningInv'
      BY <3>2, CallSteps
    <3>3. ASSUME NEW c \in Calls, M!CommitClaim(c) PROVE MiningInv'
      BY <3>3, ClaimSteps
    <3>4. ASSUME NEW c \in Calls, NEW p \in M!InForce, M!CreateHour(c, p) PROVE MiningInv'
      BY <3>4, HourSteps
    <3>5. ASSUME NEW c \in Calls, NEW p \in M!InForce, M!CreateSession(c, p) PROVE MiningInv'
      BY <3>5, StartSteps
    <3> QED BY <2>1, <3>1, <3>2, <3>3, <3>4, <3>5 DEF M!Step
  <2>2. CASE UNCHANGED miningVars
    BY <2>2, MiningStays
  <2> QED BY <2>1, <2>2 DEF Next, vars
<1> QED BY <1>1, <1>2, PTL DEF Spec

\* A user whose calls do not overlap starts a session only when none is open.
OneByOne ==
  "overlap_calls" \notin scene =>
    /\ \A c, d \in Calls :
         call[c].pc # "idle" /\ call[d].pc # "idle" /\ call[c].user = call[d].user => c = d
    /\ \A u \in Members : \A i, j \in M!Unclaimed(u) : i = j
    /\ \A c \in Calls : call[c].pc = "create" => M!Unclaimed(call[c].user) = {}

\* Calls of one user that follow one another leave him one open session at most.
LEMMA OneByOneStep == MiningInv /\ OneByOne /\ [Next]_vars => OneByOne'
<1> SUFFICES ASSUME MiningInv, OneByOne, [Next]_vars PROVE OneByOne'
  OBVIOUS
<1>a. scene' = scene
  BY DEF Next, vars
<1> SUFFICES ASSUME "overlap_calls" \notin scene PROVE OneByOne'
  BY <1>a DEF OneByOne
<1>0. /\ call \in [Calls -> CallStates]
      /\ \A c \in Calls : call[c].pc # "idle" => call[c].user \in Members
  BY DEF MiningInv, MiningTypes, M!MiningTypeOK, CallStates, CallOK
<1>1. /\ \A c, d \in Calls :
           call[c].pc # "idle" /\ call[d].pc # "idle" /\ call[c].user = call[d].user => c = d
      /\ \A u \in Members : \A i, j \in M!Unclaimed(u) : i = j
      /\ \A c \in Calls : call[c].pc = "create" => M!Unclaimed(call[c].user) = {}
  BY DEF OneByOne
<1>2. ASSUME sessions' = sessions, NEW c \in Calls, NEW s \in CallStates,
             call' = [call EXCEPT ![c] = s],
             s.pc # "idle" =>
               \/ call[c].pc # "idle" /\ s.user = call[c].user
               \/ \A d \in Calls : call[d].user # s.user,
             s.pc = "create" => M!Unclaimed(s.user) = {}
      PROVE  OneByOne'
  <2>1. \A d \in Calls : call'[d] = IF d = c THEN s ELSE call[d]
    BY <1>0, <1>2
  <2>2. \A u : M!Unclaimed(u)' = M!Unclaimed(u)
    BY <1>2 DEF M!Unclaimed
  <2> QED BY <1>1, <1>2, <2>1, <2>2 DEF OneByOne
<1>3. M!NoCall \in CallStates /\ M!NoCall.pc = "idle"
  BY DEF M!NoCall, CallStates
<1>4. ASSUME sessions' = sessions, NEW c \in Calls, M!Finish(c) PROVE OneByOne'
  BY <1>2, <1>3, <1>4 DEF M!Finish
<1>5. ASSUME NEW c \in Calls,
             \/ M!View(c) \/ M!CallError(c)
             \/ (M!PickStart(c) \/ M!PickClaim(c) \/ M!ClaimNext(c)) /\ M!Finish(c)
      PROVE  OneByOne'
  BY <1>4, <1>5 DEF M!View, M!CallError, M!PickStart, M!PickClaim, M!ClaimNext, M!rows
<1>6. ASSUME NEW c \in Calls, NEW u \in Members, NEW kind \in {"view", "start", "claim"},
             M!Begin(c, u, kind)
      PROVE  OneByOne'
  <2> DEFINE t == M!Unclaimed(u)
             s == [M!NoCall EXCEPT !.pc = "sync", !.kind = kind, !.user = u,
                                   !.asOf = clock, !.todo = t]
  <2>1. t \in SUBSET Nat /\ clock \in Nat
    BY SessionType, RewardsAssumption
       DEF MiningInv, MiningTypes, M!MiningTypeOK, M!Unclaimed
  <2>2. call' = [call EXCEPT ![c] = s] /\ sessions' = sessions
    BY <1>6 DEF M!Begin, M!rows
  <2>3. \A d \in Calls : call[d].user # u
    BY <1>6 DEF M!Begin
  <2> HIDE DEF t
  <2>4. s \in CallStates /\ s.user = u /\ s.pc = "sync"
    BY <2>1 DEF M!NoCall, CallStates
  <2> HIDE DEF s
  <2> QED BY <1>2, <2>2, <2>3, <2>4
<1>7. ASSUME NEW c \in Calls,
             \/ M!PickStart(c) /\ M!FreeToStart(call[c].user, call[c].asOf)
             \/ M!ClaimNext(c) /\ M!FreeToStart(call[c].user, clock)
      PROVE  OneByOne'
  <2>0. PICK r : r = call[c]
    OBVIOUS
  <2>1. r \in CallStates /\ clock \in Nat /\ sessions' = sessions
    BY <1>0, <1>7, <2>0, RewardsAssumption
       DEF MiningInv, MiningTypes, M!MiningTypeOK, M!PickStart, M!ClaimNext, M!rows
  <2> DEFINE s == [r EXCEPT !.pc = "create"]
             t == [r EXCEPT !.pc = "create", !.asOf = clock]
  <2>2. r.pc # "idle" /\ M!Unclaimed(r.user) = {}
    BY <1>7, <2>0 DEF M!PickStart, M!ClaimNext, M!Synced, M!AtCall, M!FreeToStart
  <2>3. call' = [call EXCEPT ![c] = s] \/ call' = [call EXCEPT ![c] = t]
    BY <1>0, <1>7, <2>0 DEF M!PickStart, M!ClaimNext
  <2>4. s \in CallStates /\ s.user = r.user /\ t \in CallStates /\ t.user = r.user
    BY <2>1 DEF CallStates
  <2> HIDE DEF s, t
  <2>5. CASE call' = [call EXCEPT ![c] = s]
    BY <1>2, <2>0, <2>1, <2>2, <2>4, <2>5
  <2>6. CASE call' = [call EXCEPT ![c] = t]
    BY <1>2, <2>0, <2>1, <2>2, <2>4, <2>6
  <2> QED BY <2>3, <2>5, <2>6
<1>8. ASSUME NEW c \in Calls, sessions' = sessions, MiningInv',
             call[c].pc # "idle", \A d \in Calls \ {c} : call'[d] = call[d],
             call'[c].user = call[c].user, call'[c].pc # "create"
      PROVE  OneByOne'
  <2>1. \A u : M!Unclaimed(u)' = M!Unclaimed(u)
    BY <1>8 DEF M!Unclaimed
  <2> QED BY <1>1, <1>8, <2>1 DEF OneByOne
<1>9. ASSUME NEW c \in Calls, M!SyncSession(c) \/ M!SumClaim(c) PROVE OneByOne'
  <2>0. PICK r : r = call[c]
    OBVIOUS
  <2>1. r \in CallStates /\ r.pc \in {"sync", "sum"} /\ sessions' = sessions
    BY <1>0, <1>9, <2>0 DEF M!SyncSession, M!SumClaim, M!AtCall, M!rows
  <2>2. MiningInv'
    BY <1>9, CallSteps
  <2>3. CASE M!SyncSession(c)
    <3>1. /\ \A d \in Calls \ {c} : call'[d] = call[d]
          /\ call'[c].user = r.user /\ call'[c].pc = "sync"
      <4> DEFINE i == M!Min(r.todo)
                 m == {n \in 1..M!Matured(sessions[r.user][i], r.asOf) : ~M!HasHour(r.user, i, n)}
                 k == IF m = {} THEN 0 ELSE i
                 todo == r.todo \ {i}
      <4>1. call' = [call EXCEPT ![c].todo = todo, ![c].missing = m, ![c].session = k]
        BY <2>0, <2>3 DEF M!SyncSession
      <4> HIDE DEF m, k, todo
      <4>2. r.pc = "sync"
        BY <2>0, <2>3 DEF M!SyncSession, M!AtCall
      <4> QED BY <1>0, <2>0, <2>1, <4>1, <4>2 DEF CallStates
    <3> QED BY <1>8, <2>0, <2>1, <2>2, <3>1
  <2>4. CASE M!SumClaim(c)
    <3>1. /\ \A d \in Calls \ {c} : call'[d] = call[d]
          /\ call'[c].user = r.user /\ call'[c].pc = "commit"
      <4> DEFINE w == M!Worth(r.user, r.session, {h \in M!HoursOf(r.user, r.session) : ~h.claimed})
      <4>1. call' = [call EXCEPT ![c].pc = "commit", ![c].points = w]
        BY <2>0, <2>4 DEF M!SumClaim
      <4> HIDE DEF w
      <4> QED BY <1>0, <2>0, <2>1, <4>1 DEF CallStates
    <3> QED BY <1>8, <2>0, <2>1, <2>2, <3>1
  <2> QED BY <1>9, <2>3, <2>4
<1>10. ASSUME NEW c \in Calls, M!PickClaim(c), ~M!Finish(c) PROVE OneByOne'
  <2>0. PICK r : r = call[c]
    OBVIOUS
  <2>1. r \in CallStates /\ r.pc = "sync" /\ sessions' = sessions /\ MiningInv'
    BY <1>0, <1>10, <2>0, CallSteps DEF M!PickClaim, M!Synced, M!AtCall, M!rows
  <2>2. PICK i : call' = [call EXCEPT ![c].pc = "sum", ![c].session = i]
    BY <1>10 DEF M!PickClaim
  <2>3. /\ \A d \in Calls \ {c} : call'[d] = call[d]
        /\ call'[c].user = r.user /\ call'[c].pc = "sum"
    BY <1>0, <2>0, <2>1, <2>2 DEF CallStates
  <2> QED BY <1>8, <2>0, <2>1, <2>3
<1>11. ASSUME NEW c \in Calls, NEW p \in M!InForce, M!CreateHour(c, p) PROVE OneByOne'
  <2>0. PICK r : r = call[c]
    OBVIOUS
  <2>1. r \in CallStates /\ r.pc = "sync" /\ sessions' = sessions /\ MiningInv'
    BY <1>0, <1>11, <2>0, HourSteps DEF M!CreateHour, M!AtCall
  <2>2. CASE M!Finish(c)
    BY <1>4, <2>1, <2>2
  <2>3. CASE ~M!Finish(c)
    <3> DEFINE n == M!Min(r.missing)
               m == r.missing \ {n}
               k == IF r.missing = {n} THEN 0 ELSE r.session
    <3>1. call' = [call EXCEPT ![c].missing = m, ![c].session = k]
      BY <1>11, <2>0, <2>3 DEF M!CreateHour
    <3> HIDE DEF m, k
    <3>2. /\ \A d \in Calls \ {c} : call'[d] = call[d]
          /\ call'[c].user = r.user /\ call'[c].pc = "sync"
      BY <1>0, <2>0, <2>1, <3>1 DEF CallStates
    <3> QED BY <1>8, <2>0, <2>1, <3>2
  <2> QED BY <2>2, <2>3
<1>12. ASSUME NEW c \in Calls, NEW p \in M!InForce, M!CreateSession(c, p) PROVE OneByOne'
  <2>0. PICK r : r = call[c]
    OBVIOUS
  <2> DEFINE u == r.user
             new == [start |-> r.asOf, effective |-> p, claimed |-> FALSE, paid |-> 0]
  <2>1. /\ r.pc = "create" /\ call' = [call EXCEPT ![c] = M!NoCall] /\ u \in Members
        /\ sessions' = [sessions EXCEPT ![u] = Append(sessions[u], new)]
    BY <1>0, <1>12, <2>0 DEF M!CreateSession, M!AtCall, M!Finish
  <2>2. new \in Sessions
    <3>1. p \in Nat /\ r.asOf \in Nat
      BY <1>0, <2>0, RewardsAssumption DEF M!InForce, CallStates
    <3> QED BY <3>1 DEF Sessions
  <2> HIDE DEF new
  <2>3. sessions \in [Members -> Seq(Sessions)]
    BY DEF MiningInv, MiningTypes, M!MiningTypeOK, Sessions
  <2> DEFINE longer == Append(sessions[u], new)
  <2>4. /\ Len(sessions[u]) \in Nat /\ Len(longer) = Len(sessions[u]) + 1
        /\ \A i \in 1..Len(sessions[u]) : longer[i] = sessions[u][i]
    BY <2>1, <2>2, <2>3, AppendProperties, LenProperties
  <2> HIDE DEF longer
  <2>5. sessions'[u] = longer /\ \A v \in Members \ {u} : sessions'[v] = sessions[v]
    BY <2>1, <2>3 DEF longer
  <2>6. M!Unclaimed(u) = {}
    BY <1>1, <2>0, <2>1
  <2>7. M!Unclaimed(u)' \subseteq {Len(sessions[u]) + 1}
    BY <2>4, <2>5, <2>6 DEF M!Unclaimed
  <2>8. \A v \in Members \ {u} : M!Unclaimed(v)' = M!Unclaimed(v)
    BY <2>5 DEF M!Unclaimed
  <2>9. \A d \in Calls : call'[d] = IF d = c THEN M!NoCall ELSE call[d]
    BY <1>0, <1>3, <2>1
  <2>10. \A v \in Members : \A i, j \in M!Unclaimed(v)' : i = j
    BY <1>1, <2>7, <2>8
  <2>11. \A d \in Calls : call'[d].pc = "create" =>
            \E v \in Members : call'[d].user = v /\ M!Unclaimed(v)' = {}
    <3> SUFFICES ASSUME NEW d \in Calls, d # c, call[d].pc = "create"
                 PROVE  \E v \in Members : call[d].user = v /\ M!Unclaimed(v)' = {}
      BY <1>3, <2>9
    <3>1. call[d].user # u /\ call[d].user \in Members
      BY <1>0, <1>1, <2>0, <2>1
    <3> QED BY <1>1, <2>8, <3>1
  <2> QED BY <1>1, <1>3, <2>9, <2>10, <2>11 DEF OneByOne
<1>13. ASSUME NEW c \in Calls, M!CommitClaim(c) PROVE OneByOne'
  <2>0. PICK r : r = call[c]
    OBVIOUS
  <2> DEFINE u == r.user
             i == r.session
             s == [M!NoCall EXCEPT !.pc = "next", !.user = u, !.asOf = r.asOf]
  <2>1. /\ r.pc = "commit" /\ u \in Members /\ i \in 1..Len(sessions[u]) /\ r \in CallStates
    BY <1>0, <1>13, <2>0 DEF M!CommitClaim, M!AtCall, MiningInv, CallOK
  <2>2. CASE ~M!MayClaim(u, i)
    BY <1>4, <1>13, <2>0, <2>2 DEF M!CommitClaim, M!rows
  <2>3. CASE M!MayClaim(u, i)
    <3>1. /\ sessions' = [sessions EXCEPT ![u][i].claimed = TRUE, ![u][i].paid = @ + r.points]
          /\ call' = [call EXCEPT ![c] = s]
      BY <1>13, <2>0, <2>3 DEF M!CommitClaim
    <3>2. /\ sessions \in [Members -> Seq(Sessions)] /\ sessions[u] \in Seq(Sessions)
          /\ sessions[u][i] \in Sessions
      BY <2>1, SessionType DEF MiningInv, MiningTypes, M!MiningTypeOK, Sessions
    <3> DEFINE paid == [sessions[u][i] EXCEPT !.claimed = TRUE, !.paid = @ + r.points]
    <3>3. paid.claimed = TRUE
      BY <3>2 DEF Sessions
    <3>4. sessions' = [sessions EXCEPT ![u] = [sessions[u] EXCEPT ![i] = paid]]
      BY <3>1, <3>2
    <3> HIDE DEF paid
    <3>5. sessions'[u] = [sessions[u] EXCEPT ![i] = paid]
          /\ \A v \in Members \ {u} : sessions'[v] = sessions[v]
      BY <2>1, <3>2, <3>4
    <3>6. /\ Len(sessions'[u]) = Len(sessions[u])
          /\ \A j \in 1..Len(sessions[u]) :
               sessions'[u][j] = IF j = i THEN paid ELSE sessions[u][j]
      BY <2>1, <3>2, <3>5
    <3>7. \A v \in Members : M!Unclaimed(v)' \subseteq M!Unclaimed(v)
      BY <3>3, <3>5, <3>6 DEF M!Unclaimed
    <3>8. s \in CallStates /\ s.user = u /\ s.pc = "next"
      BY <2>1 DEF CallStates, M!NoCall
    <3> HIDE DEF s
    <3>9. \A d \in Calls : call'[d] = IF d = c THEN s ELSE call[d]
      BY <1>0, <3>1, <3>8
    <3>10. \A v \in Members : \A j, k \in M!Unclaimed(v)' : j = k
      BY <1>1, <3>7
    <3>11. \A d \in Calls : call'[d].pc = "create" =>
              \E v \in Members : call'[d].user = v /\ M!Unclaimed(v)' = {}
      BY <1>0, <1>1, <3>7, <3>8, <3>9
    <3>12. \A d, e \in Calls :
             call'[d].pc # "idle" /\ call'[e].pc # "idle" /\ call'[d].user = call'[e].user => d = e
      BY <1>1, <2>0, <2>1, <3>8, <3>9
    <3> QED BY <3>10, <3>11, <3>12 DEF OneByOne
  <2> QED BY <2>2, <2>3
<1>14. CASE UNCHANGED <<sessions, call>>
  BY <1>1, <1>14 DEF OneByOne, M!Unclaimed
<1>15. CASE M!Step
  <2>1. CASE M!Hour
    BY <1>14, <2>1 DEF M!Hour, M!rows
  <2>2. ASSUME NEW c \in Calls,
               \/ M!PickStart(c) \/ M!ClaimNext(c) \/ M!PickClaim(c)
        PROVE  OneByOne'
    BY <1>5, <1>7, <1>10, <2>2 DEF M!PickStart, M!ClaimNext
  <2> QED BY <1>5, <1>6, <1>9, <1>11, <1>12, <1>13, <1>15, <2>1, <2>2 DEF M!Step
<1> QED BY <1>14, <1>15 DEF Next, vars, miningVars

\* After any steps of any calls, a claimed session has all its hours, closed,
\* and was paid what they are worth, an open one was paid nothing, and a user
\* whose calls do not overlap has one open session at most: what getMe, start
\* and claim of the mining service promise, whatever the interleaving.
THEOREM EveryHourPaidCorrect == Spec => []EveryHourPaid
<1>1. Init => OneByOne
  <2> SUFFICES ASSUME Init PROVE OneByOne
    OBVIOUS
  <2>1. /\ sessions = [u \in Members |-> <<>>] /\ \A c \in Calls : call[c].pc = "idle"
    BY DEF Init, M!Init, M!NoCall
  <2> QED BY <2>1 DEF OneByOne, M!Unclaimed
<1>2. MiningInv /\ OneByOne => EveryHourPaid
  <2> SUFFICES ASSUME MiningInv, OneByOne PROVE EveryHourPaid
    OBVIOUS
  <2>1. ASSUME NEW u \in Members, NEW i \in 1..Len(sessions[u])
        PROVE  LET s == sessions[u][i]  rows == M!HoursOf(u, i) IN
               IF s.claimed
               THEN /\ {h.hour : h \in rows} = 1..CycleHours /\ \A h \in rows : h.claimed
                    /\ s.paid = M!Worth(u, i, rows)
               ELSE s.paid = 0 /\ \A h \in rows : ~h.claimed
    <3> DEFINE rows == M!HoursOf(u, i)
    <3>1. \A h \in rows : h.hour \in 1..CycleHours /\ h.claimed = sessions[u][i].claimed
      BY DEF MiningInv, SessionsOK, M!HoursOf
    <3>2. CASE sessions[u][i].claimed
      <4>1. Full(u, i) /\ sessions[u][i].paid = M!Worth(u, i, rows)
        BY <3>2 DEF MiningInv, SessionsOK
      <4>2. {h.hour : h \in rows} = 1..CycleHours
        BY <3>1, <4>1 DEF Full, M!HasHour, M!HoursOf
      <4> QED BY <3>1, <3>2, <4>1, <4>2
    <3>3. CASE ~sessions[u][i].claimed
      <4>1. sessions[u][i].paid = 0
        BY <3>3 DEF MiningInv, SessionsOK
      <4> QED BY <3>1, <3>3, <4>1
    <3> QED BY <3>2, <3>3
  <2>2. ASSUME "overlap_calls" \notin scene, NEW u \in Members
        PROVE  Cardinality(M!Unclaimed(u)) <= 1
    <3>1. \A i, j \in M!Unclaimed(u) : i = j
      BY <2>2 DEF OneByOne
    <3> QED BY <3>1, CardinalityOfOne
  <2> QED BY <2>1, <2>2 DEF EveryHourPaid, Without
<1> QED BY <1>1, <1>2, OneByOneStep, MiningCorrect, PTL DEF Spec

-------------------------------------------------------------------------------
(* Quests: the types, and what a step changes of one user's quest.         *)

Verdicts == {"pending", "approved", "rejected"}
Statuses == {"none", "in_progress", "pending_verification", "completed"}
Submits == [pc : {"idle", "open", "create", "mark"},
            user : Members \cup {NoUser}, quest : Quests \cup {NoQuest}]
Reviews == [pc : {"idle", "approve", "reject", "reopen", "revoke", "revoking"},
            user : Members \cup {NoUser}, quest : Quests \cup {NoQuest},
            row : Nat, reward : Nat, badge : Badges \cup {NoBadge}, balance : Nat]
OfferTypes ==
  /\ reward \in [Quests -> RewardPoints]
  /\ rewardBadge \in [Quests -> Badges \cup {NoBadge}]
  /\ former \in [Quests -> SUBSET (Badges \cup {NoBadge})]

\* The rows of an automatic quest are never written; a call names a quest that
\* exists, and a review a submission that does.
QuestTypes ==
  /\ OfferTypes
  /\ status \in [Members -> [Quests -> Statuses]]
  /\ submissions \in [Members -> [Quests -> Seq(Verdicts)]]
  /\ granted \in [Members -> [Quests -> Int]]
  /\ lapses \subseteq {"overwritten", "clamped"}
  /\ submitter \in [Submitters -> Submits]
  /\ reviewer \in [Reviewers -> Reviews]
  /\ \A u \in Members, q \in Automatic : Len(submissions[u][q]) = 0
  /\ \A s \in Submitters : submitter[s].pc # "idle" =>
       submitter[s].user \in Members /\ submitter[s].quest \in Quests \ Automatic
  /\ \A r \in Reviewers : reviewer[r].pc # "idle" =>
       /\ reviewer[r].user \in Members /\ reviewer[r].quest \in Quests
       /\ reviewer[r].row \in 1..Len(submissions[reviewer[r].user][reviewer[r].quest])

\* What becomes of the quest of a user, and of a call.
Moves(u, q, st, rows, count) ==
  /\ \A v \in Members : \A o \in Quests :
       /\ status'[v][o] = IF v = u /\ o = q THEN st ELSE status[v][o]
       /\ submissions'[v][o] = IF v = u /\ o = q THEN rows ELSE submissions[v][o]
       /\ granted'[v][o] = IF v = u /\ o = q THEN count ELSE granted[v][o]
  /\ status' \in [Members -> [Quests -> Statuses]]
  /\ submissions' \in [Members -> [Quests -> Seq(Verdicts)]]
  /\ granted' \in [Members -> [Quests -> Int]]
SubmitMoves(s, state) ==
  /\ \A t \in Submitters : submitter'[t] = IF t = s THEN state ELSE submitter[t]
  /\ submitter' \in [Submitters -> Submits]
ReviewMoves(r, state) ==
  /\ \A o \in Reviewers : reviewer'[o] = IF o = r THEN state ELSE reviewer[o]
  /\ reviewer' \in [Reviewers -> Reviews]

\* The update of one cell of a table.
LEMMA CellUpdate ==
  ASSUME NEW S, NEW D, NEW X, NEW f \in [S -> [D -> X]], NEW a \in S, NEW b \in D, NEW v \in X
  PROVE  /\ [f EXCEPT ![a][b] = v] \in [S -> [D -> X]]
         /\ \A x \in S : \A y \in D :
              [f EXCEPT ![a][b] = v][x][y] = IF x = a /\ y = b THEN v ELSE f[x][y]
OBVIOUS

\* Statements about one user's quest change that one only.
LEMMA MovesOf ==
  ASSUME QuestTypes, NEW u \in Members, NEW q \in Quests,
         NEW st \in Statuses, NEW rows \in Seq(Verdicts), NEW count \in Int,
         status' = [status EXCEPT ![u][q] = st] \/ (status' = status /\ st = status[u][q]),
         \/ submissions' = [submissions EXCEPT ![u][q] = rows]
         \/ submissions' = submissions /\ rows = submissions[u][q],
         \/ granted' = [granted EXCEPT ![u][q] = count]
         \/ granted' = granted /\ count = granted[u][q]
  PROVE  Moves(u, q, st, rows, count)
<1>1. /\ status \in [Members -> [Quests -> Statuses]]
      /\ submissions \in [Members -> [Quests -> Seq(Verdicts)]]
      /\ granted \in [Members -> [Quests -> Int]]
  BY DEF QuestTypes
<1>2. /\ status' \in [Members -> [Quests -> Statuses]]
      /\ \A v \in Members : \A o \in Quests :
           status'[v][o] = IF v = u /\ o = q THEN st ELSE status[v][o]
  <2>1. CASE status' = [status EXCEPT ![u][q] = st]
    BY <1>1, <2>1, CellUpdate
  <2>2. CASE status' = status /\ st = status[u][q]
    BY <1>1, <2>2
  <2> QED BY <2>1, <2>2
<1>3. /\ submissions' \in [Members -> [Quests -> Seq(Verdicts)]]
      /\ \A v \in Members : \A o \in Quests :
           submissions'[v][o] = IF v = u /\ o = q THEN rows ELSE submissions[v][o]
  <2>1. CASE submissions' = [submissions EXCEPT ![u][q] = rows]
    BY <1>1, <2>1, CellUpdate
  <2>2. CASE submissions' = submissions /\ rows = submissions[u][q]
    BY <1>1, <2>2
  <2> QED BY <2>1, <2>2
<1>4. /\ granted' \in [Members -> [Quests -> Int]]
      /\ \A v \in Members : \A o \in Quests :
           granted'[v][o] = IF v = u /\ o = q THEN count ELSE granted[v][o]
  <2>1. CASE granted' = [granted EXCEPT ![u][q] = count]
    BY <1>1, <2>1, CellUpdate
  <2>2. CASE granted' = granted /\ count = granted[u][q]
    BY <1>1, <2>2
  <2> QED BY <2>1, <2>2
<1> QED BY <1>2, <1>3, <1>4 DEF Moves

\* A call goes to its next state.
LEMMA SubmitMovesTo ==
  ASSUME QuestTypes, NEW s \in Submitters, NEW state \in Submits,
         submitter' = [submitter EXCEPT ![s] = state]
  PROVE  SubmitMoves(s, state)
BY DEF QuestTypes, SubmitMoves

LEMMA ReviewMovesTo ==
  ASSUME QuestTypes, NEW r \in Reviewers, NEW state \in Reviews,
         reviewer' = [reviewer EXCEPT ![r] = state]
  PROVE  ReviewMoves(r, state)
BY DEF QuestTypes, ReviewMoves

\* A step keeps the types if it shortens no list of submissions.
LEMMA TypesKept ==
  ASSUME QuestTypes, OfferTypes',
         lapses' \subseteq {"overwritten", "clamped"},
         NEW u \in Members, NEW q \in Quests, NEW st, NEW rows \in Seq(Verdicts), NEW count,
         Moves(u, q, st, rows, count),
         Len(rows) >= Len(submissions[u][q]), q \in Automatic => Len(rows) = 0,
         submitter' \in [Submitters -> Submits],
         \A s \in Submitters :
           submitter'[s] = submitter[s] \/
             (submitter'[s].pc # "idle" =>
                submitter'[s].user \in Members /\ submitter'[s].quest \in Quests \ Automatic),
         reviewer' \in [Reviewers -> Reviews],
         \A r \in Reviewers :
           reviewer'[r] = reviewer[r] \/
             (reviewer'[r].pc # "idle" =>
                /\ reviewer'[r].user \in Members /\ reviewer'[r].quest \in Quests
                /\ reviewer'[r].row \in 1..Len(submissions[reviewer'[r].user][reviewer'[r].quest]))
  PROVE  QuestTypes'
<1>0. \A v \in Members : \A o \in Quests :
        submissions'[v][o] = IF v = u /\ o = q THEN rows ELSE submissions[v][o]
  BY DEF Moves
<1>1. \A v \in Members : \A o \in Quests :
        /\ Len(submissions[v][o]) \in Nat /\ Len(submissions'[v][o]) \in Nat
        /\ Len(submissions[v][o]) <= Len(submissions'[v][o])
  <2>1. \A v \in Members : \A o \in Quests :
          submissions[v][o] \in Seq(Verdicts) /\ submissions'[v][o] \in Seq(Verdicts)
    BY DEF QuestTypes, Moves
  <2>2. \A v \in Members : \A o \in Quests :
          Len(submissions[v][o]) \in Nat /\ Len(submissions'[v][o]) \in Nat
    BY <2>1, LenProperties
  <2> QED BY <1>0, <2>2
<1>2. \A v \in Members, o \in Automatic : Len(submissions'[v][o]) = 0
  <2>1. \A v \in Members, o \in Automatic : o \in Quests /\ Len(submissions[v][o]) = 0
    BY RewardsAssumption DEF QuestTypes, OfferTypes
  <2> QED BY <1>0, <2>1
<1>3. \A s \in Submitters : submitter'[s].pc # "idle" =>
        submitter'[s].user \in Members /\ submitter'[s].quest \in Quests \ Automatic
  BY DEF QuestTypes
<1>4. ASSUME NEW r \in Reviewers, reviewer'[r].pc # "idle"
      PROVE  /\ reviewer'[r].user \in Members /\ reviewer'[r].quest \in Quests
             /\ reviewer'[r].row \in 1..Len(submissions'[reviewer'[r].user][reviewer'[r].quest])
  <2>1. /\ reviewer'[r].user \in Members /\ reviewer'[r].quest \in Quests
        /\ reviewer'[r].row \in 1..Len(submissions[reviewer'[r].user][reviewer'[r].quest])
    BY <1>4 DEF QuestTypes
  <2> QED BY <1>1, <2>1
<1> QED BY <1>2, <1>3, <1>4 DEF QuestTypes, Moves

\* What a submitter's call does.
LEMMA SubmitterSteps ==
  ASSUME QuestTypes, NEW s \in Submitters,
         Q!OpenUserQuest(s) \/ Q!CreateSubmission(s) \/ Q!MarkPending(s) \/ Q!SubmitError(s)
  PROVE  LET u == submitter[s].user
             q == submitter[s].quest
         IN
         /\ QuestTypes' /\ UNCHANGED <<lapses, reviewer, Q!offer, points, ledger, held, primary>>
         /\ u \in Members /\ q \in Quests \ Automatic
         /\ \/ /\ Q!OpenUserQuest(s)
               /\ submitter[s].pc = "open"
               /\ Moves(u, q, "in_progress", submissions[u][q], granted[u][q])
               /\ SubmitMoves(s, [submitter[s] EXCEPT !.pc = "create"])
            \/ /\ Q!CreateSubmission(s)
               /\ submitter[s].pc = "create"
               /\ Moves(u, q, status[u][q], Append(submissions[u][q], "pending"), granted[u][q])
               /\ SubmitMoves(s, [submitter[s] EXCEPT !.pc = "mark"])
            \/ /\ Q!MarkPending(s)
               /\ submitter[s].pc = "mark"
               /\ Moves(u, q, "pending_verification", submissions[u][q], granted[u][q])
               /\ SubmitMoves(s, Q!NoSubmit)
            \/ /\ Q!SubmitError(s)
               /\ "submit_error" \in scene
               /\ Moves(u, q, status[u][q], submissions[u][q], granted[u][q])
               /\ SubmitMoves(s, Q!NoSubmit)
<1>0. PICK c : c = submitter[s]
  OBVIOUS
<1> DEFINE u == c.user
           q == c.quest
           add == Append(submissions[u][q], "pending")
           create == [c EXCEPT !.pc = "create"]
           mark == [c EXCEPT !.pc = "mark"]
<1>1. /\ UNCHANGED <<lapses, reviewer, Q!offer, points, ledger, held, primary>>
      /\ c.pc # "idle"
  BY <1>0 DEF Q!OpenUserQuest, Q!CreateSubmission, Q!MarkPending, Q!SubmitError,
              Q!wealth, Q!progress
<1>2. /\ c \in Submits /\ u \in Members /\ q \in Quests \ Automatic /\ q \in Quests
      /\ submitter \in [Submitters -> Submits]
      /\ submissions[u][q] \in Seq(Verdicts) /\ Len(submissions[u][q]) \in Nat
      /\ status[u][q] \in Statuses /\ granted[u][q] \in Int
      /\ lapses \subseteq {"overwritten", "clamped"} /\ reviewer \in [Reviewers -> Reviews]
      /\ OfferTypes'
  BY <1>0, <1>1, LenProperties DEF QuestTypes, OfferTypes, Q!offer
<1>3. /\ create \in Submits /\ create.user = u /\ create.quest = q
      /\ mark \in Submits /\ mark.user = u /\ mark.quest = q
      /\ Q!NoSubmit \in Submits /\ Q!NoSubmit.pc = "idle"
  BY <1>2 DEF Submits, Q!NoSubmit
<1>4. /\ add \in Seq(Verdicts) /\ Len(add) = Len(submissions[u][q]) + 1
  BY <1>2, AppendProperties DEF Verdicts
<1>5. "in_progress" \in Statuses /\ "pending_verification" \in Statuses
  BY DEF Statuses
<1>6. ASSUME NEW st \in Statuses, NEW rows \in Seq(Verdicts), Moves(u, q, st, rows, granted[u][q]),
             Len(rows) >= Len(submissions[u][q]),
             NEW state \in Submits, SubmitMoves(s, state),
             state.pc # "idle" => state.user = u /\ state.quest = q
      PROVE  QuestTypes'
  <2>1. \A t \in Submitters :
          submitter'[t] = submitter[t] \/
            (submitter'[t].pc # "idle" =>
               submitter'[t].user \in Members /\ submitter'[t].quest \in Quests \ Automatic)
    BY <1>2, <1>6 DEF SubmitMoves
  <2>2. submitter' \in [Submitters -> Submits]
    BY <1>6 DEF SubmitMoves
  <2> QED BY <1>1, <1>2, <1>6, <2>1, <2>2, TypesKept
<1> HIDE DEF add, create, mark
<1>7. CASE Q!OpenUserQuest(s)
  <2>1. /\ status' = [status EXCEPT ![u][q] = "in_progress"] /\ submissions' = submissions
        /\ granted' = granted /\ c.pc = "open" /\ submitter' = [submitter EXCEPT ![s] = create]
    BY <1>0, <1>2, <1>7 DEF Q!OpenUserQuest, create
  <2>2. Moves(u, q, "in_progress", submissions[u][q], granted[u][q])
    BY <1>2, <1>5, <2>1, MovesOf
  <2>3. SubmitMoves(s, create)
    BY <1>3, <2>1, SubmitMovesTo
  <2>4. QuestTypes'
    BY <1>2, <1>3, <1>5, <1>6, <2>2, <2>3
  <2> QED BY <1>0, <1>1, <1>2, <1>7, <2>1, <2>2, <2>3, <2>4 DEF create
<1>8. CASE Q!CreateSubmission(s)
  <2>1. /\ submissions' = [submissions EXCEPT ![u][q] = add] /\ status' = status
        /\ granted' = granted /\ c.pc = "create" /\ submitter' = [submitter EXCEPT ![s] = mark]
    BY <1>0, <1>2, <1>8 DEF Q!CreateSubmission, mark, add
  <2>2. Moves(u, q, status[u][q], add, granted[u][q])
    BY <1>2, <1>4, <2>1, MovesOf
  <2>3. SubmitMoves(s, mark)
    BY <1>3, <2>1, SubmitMovesTo
  <2>4. QuestTypes'
    BY <1>2, <1>3, <1>4, <1>6, <2>2, <2>3
  <2> QED BY <1>0, <1>1, <1>2, <1>8, <2>1, <2>2, <2>3, <2>4 DEF mark, add
<1>9. CASE Q!MarkPending(s)
  <2>1. /\ status' = [status EXCEPT ![u][q] = "pending_verification"] /\ submissions' = submissions
        /\ granted' = granted /\ c.pc = "mark" /\ submitter' = [submitter EXCEPT ![s] = Q!NoSubmit]
    BY <1>0, <1>9 DEF Q!MarkPending, Q!Leave
  <2>2. Moves(u, q, "pending_verification", submissions[u][q], granted[u][q])
    BY <1>2, <1>5, <2>1, MovesOf
  <2>3. SubmitMoves(s, Q!NoSubmit)
    BY <1>3, <2>1, SubmitMovesTo
  <2>4. QuestTypes'
    BY <1>2, <1>3, <1>5, <1>6, <2>2, <2>3
  <2> QED BY <1>0, <1>1, <1>2, <1>9, <2>1, <2>2, <2>3, <2>4
<1>10. CASE Q!SubmitError(s)
  <2>1. /\ UNCHANGED <<status, submissions, granted>> /\ "submit_error" \in scene
        /\ submitter' = [submitter EXCEPT ![s] = Q!NoSubmit]
    BY <1>10 DEF Q!SubmitError, Q!Leave, Q!progress
  <2>2. Moves(u, q, status[u][q], submissions[u][q], granted[u][q])
    BY <1>2, <2>1, MovesOf
  <2>3. SubmitMoves(s, Q!NoSubmit)
    BY <1>3, <2>1, SubmitMovesTo
  <2>4. QuestTypes'
    <3>1. PICK st \in Statuses, rows \in Seq(Verdicts) :
            st = status[u][q] /\ rows = submissions[u][q]
      BY <1>2
    <3>2. Moves(u, q, st, rows, granted[u][q]) /\ Len(rows) >= Len(submissions[u][q])
      BY <1>2, <2>2, <3>1
    <3> QED BY <1>3, <1>6, <2>3, <3>2
  <2> QED BY <1>0, <1>1, <1>2, <1>10, <2>1, <2>2, <2>3, <2>4
<1> QED BY <1>7, <1>8, <1>9, <1>10

\* What a reviewer's call does.
LEMMA ReviewerSteps ==
  ASSUME QuestTypes, SharedOK, NEW r \in Reviewers,
         \/ Q!Approve(r) \/ Q!RejectSubmission(r) \/ Q!ReopenQuest(r)
         \/ Q!RevokeRead(r) \/ Q!RevokeCommit(r) \/ Q!ReviewError(r)
  PROVE  LET u == reviewer[r].user
             q == reviewer[r].quest
             rows == submissions[u][q]
             i == reviewer[r].row
         IN
         /\ QuestTypes' /\ UNCHANGED <<submitter, Q!offer>>
         /\ u \in Members /\ q \in Quests \ Automatic /\ i \in 1..Len(rows)
         /\ \/ /\ Q!Approve(r) /\ reviewer[r].pc = "approve"
               /\ Moves(u, q, "completed", [rows EXCEPT ![i] = "approved"], granted[u][q] + 1)
               /\ ReviewMoves(r, Q!NoReview)
            \/ /\ Q!RejectSubmission(r) /\ reviewer[r].pc = "reject"
               /\ Moves(u, q, status[u][q], [rows EXCEPT ![i] = "rejected"], granted[u][q])
               /\ ReviewMoves(r, [reviewer[r] EXCEPT !.pc = "reopen"])
            \/ /\ Q!ReopenQuest(r) /\ reviewer[r].pc = "reopen"
               /\ Moves(u, q, "in_progress", rows, granted[u][q])
               /\ ReviewMoves(r, Q!NoReview)
            \/ /\ Q!RevokeRead(r) /\ reviewer[r].pc = "revoke"
               /\ Moves(u, q, status[u][q], rows, granted[u][q])
               /\ ReviewMoves(r, [reviewer[r] EXCEPT !.pc = "revoking", !.balance = points[u]])
            \/ /\ Q!RevokeCommit(r) /\ reviewer[r].pc = "revoking"
               /\ Moves(u, q, "in_progress", [rows EXCEPT ![i] = "rejected"], granted[u][q] - 1)
               /\ ReviewMoves(r, Q!NoReview)
            \/ /\ Q!ReviewError(r) /\ "review_error" \in scene
               /\ Moves(u, q, status[u][q], rows, granted[u][q])
               /\ ReviewMoves(r, Q!NoReview)
<1>0. PICK c : c = reviewer[r]
  OBVIOUS
<1> DEFINE u == c.user
           q == c.quest
           i == c.row
           rows == submissions[u][q]
           yes == [rows EXCEPT ![i] = "approved"]
           no == [rows EXCEPT ![i] = "rejected"]
           reopen == [c EXCEPT !.pc = "reopen"]
           revoking == [c EXCEPT !.pc = "revoking", !.balance = points[u]]
<1>1. UNCHANGED <<submitter, Q!offer>> /\ c.pc # "idle"
  BY <1>0 DEF Q!Approve, Q!RejectSubmission, Q!ReopenQuest, Q!RevokeRead, Q!RevokeCommit,
              Q!ReviewError
<1>2. /\ c \in Reviews /\ u \in Members /\ q \in Quests /\ i \in 1..Len(rows)
      /\ reviewer \in [Reviewers -> Reviews] /\ submitter \in [Submitters -> Submits]
      /\ rows \in Seq(Verdicts) /\ Len(rows) \in Nat
      /\ status[u][q] \in Statuses /\ granted[u][q] \in Int
      /\ lapses \subseteq {"overwritten", "clamped"} /\ OfferTypes'
      /\ submissions \in [Members -> [Quests -> Seq(Verdicts)]]
      /\ granted \in [Members -> [Quests -> Int]]
  BY <1>0, <1>1, LenProperties DEF QuestTypes, OfferTypes, Q!offer
<1>3. q \notin Automatic
  BY <1>2 DEF QuestTypes
<1>4. /\ reopen \in Reviews /\ reopen.user = u /\ reopen.quest = q /\ reopen.row = i
      /\ revoking \in Reviews /\ revoking.user = u /\ revoking.quest = q /\ revoking.row = i
      /\ Q!NoReview \in Reviews /\ Q!NoReview.pc = "idle"
  <2>1. points[u] \in Nat
    BY <1>2, RewardsAssumption DEF SharedOK
  <2> QED BY <1>2, <2>1 DEF Reviews, Q!NoReview
<1>5. /\ yes \in Seq(Verdicts) /\ Len(yes) = Len(rows)
      /\ no \in Seq(Verdicts) /\ Len(no) = Len(rows)
  <2>1. "approved" \in Verdicts /\ "rejected" \in Verdicts
    BY DEF Verdicts
  <2> QED BY <1>2, <2>1, ExceptSeq
<1>6. /\ "in_progress" \in Statuses /\ "completed" \in Statuses
      /\ granted[u][q] + 1 \in Int /\ granted[u][q] - 1 \in Int
  BY <1>2 DEF Statuses
<1>7. ASSUME NEW st \in Statuses, NEW list \in Seq(Verdicts), NEW count \in Int,
             Moves(u, q, st, list, count), Len(list) = Len(rows),
             lapses' \subseteq {"overwritten", "clamped"},
             NEW state \in Reviews, ReviewMoves(r, state),
             state.pc # "idle" => state.user = u /\ state.quest = q /\ state.row = i
      PROVE  QuestTypes'
  <2>1. \A o \in Reviewers :
           reviewer'[o] = reviewer[o] \/
             (reviewer'[o].pc # "idle" =>
                /\ reviewer'[o].user \in Members /\ reviewer'[o].quest \in Quests
                /\ reviewer'[o].row \in 1..Len(submissions[reviewer'[o].user][reviewer'[o].quest]))
    BY <1>2, <1>7 DEF ReviewMoves
  <2>2. reviewer' \in [Reviewers -> Reviews]
    BY <1>7 DEF ReviewMoves
  <2>3. Len(list) >= Len(submissions[u][q])
    BY <1>2, <1>7
  <2> QED BY <1>1, <1>2, <1>3, <1>7, <2>1, <2>2, <2>3, TypesKept
<1> HIDE DEF yes, no, reopen, revoking
<1>8. CASE Q!Approve(r)
  <2>1. /\ status' = [status EXCEPT ![u][q] = "completed"]
        /\ submissions' = [submissions EXCEPT ![u][q] = yes]
        /\ granted' = [granted EXCEPT ![u][q] = granted[u][q] + 1]
        /\ reviewer' = [reviewer EXCEPT ![r] = Q!NoReview] /\ lapses' = lapses
        /\ c.pc = "approve"
    BY <1>0, <1>2, <1>8 DEF Q!Approve, Q!Complete, Q!AwardQuestRewards, Q!SetRow, Q!EndReview,
                            Q!Put, yes
  <2>2. Moves(u, q, "completed", yes, granted[u][q] + 1)
    BY <1>2, <1>5, <1>6, <2>1, MovesOf
  <2>3. ReviewMoves(r, Q!NoReview)
    BY <1>4, <2>1, ReviewMovesTo
  <2>4. QuestTypes'
    BY <1>2, <1>4, <1>5, <1>6, <1>7, <2>1, <2>2, <2>3
  <2> QED BY <1>0, <1>1, <1>2, <1>3, <1>8, <2>1, <2>2, <2>3, <2>4 DEF yes
<1>9. CASE Q!RejectSubmission(r)
  <2>1. /\ status' = status /\ granted' = granted
        /\ submissions' = [submissions EXCEPT ![u][q] = no]
        /\ reviewer' = [reviewer EXCEPT ![r] = reopen] /\ lapses' = lapses
        /\ c.pc = "reject"
    BY <1>0, <1>2, <1>9 DEF Q!RejectSubmission, Q!SetRow, Q!Put, no, reopen
  <2>2. Moves(u, q, status[u][q], no, granted[u][q])
    BY <1>2, <1>5, <2>1, MovesOf
  <2>3. ReviewMoves(r, reopen)
    BY <1>4, <2>1, ReviewMovesTo
  <2>4. QuestTypes'
    BY <1>2, <1>4, <1>5, <1>7, <2>1, <2>2, <2>3
  <2> QED BY <1>0, <1>1, <1>2, <1>3, <1>9, <2>1, <2>2, <2>3, <2>4 DEF no, reopen
<1>10. CASE Q!ReopenQuest(r)
  <2>1. /\ status' = [status EXCEPT ![u][q] = "in_progress"]
        /\ UNCHANGED <<submissions, granted, lapses>>
        /\ reviewer' = [reviewer EXCEPT ![r] = Q!NoReview]
        /\ c.pc = "reopen"
    BY <1>0, <1>10 DEF Q!ReopenQuest, Q!EndReview, Q!Put
  <2>2. Moves(u, q, "in_progress", rows, granted[u][q])
    BY <1>2, <1>6, <2>1, MovesOf
  <2>3. ReviewMoves(r, Q!NoReview)
    BY <1>4, <2>1, ReviewMovesTo
  <2>4. QuestTypes'
    BY <1>2, <1>4, <1>6, <1>7, <2>1, <2>2, <2>3
  <2> QED BY <1>0, <1>1, <1>2, <1>3, <1>10, <2>1, <2>2, <2>3, <2>4
<1>11. CASE Q!RevokeRead(r)
  <2>1. /\ UNCHANGED <<status, submissions, granted, lapses>>
        /\ reviewer' = [reviewer EXCEPT ![r] = revoking]
        /\ c.pc = "revoke"
    BY <1>0, <1>11 DEF Q!RevokeRead, Q!Put, Q!progress, revoking
  <2>2. Moves(u, q, status[u][q], rows, granted[u][q])
    BY <1>2, <2>1, MovesOf
  <2>3. ReviewMoves(r, revoking)
    BY <1>4, <2>1, ReviewMovesTo
  <2>4. QuestTypes'
    BY <1>2, <1>4, <1>7, <2>1, <2>2, <2>3
  <2> QED BY <1>0, <1>1, <1>2, <1>3, <1>11, <2>1, <2>2, <2>3, <2>4 DEF revoking
<1>12. CASE Q!RevokeCommit(r)
  <2>1. /\ status' = [status EXCEPT ![u][q] = "in_progress"]
        /\ submissions' = [submissions EXCEPT ![u][q] = no]
        /\ granted' = [granted EXCEPT ![u][q] = granted[u][q] - 1]
        /\ reviewer' = [reviewer EXCEPT ![r] = Q!NoReview]
        /\ lapses' \subseteq {"overwritten", "clamped"}
        /\ c.pc = "revoking"
    BY <1>0, <1>2, <1>12 DEF Q!RevokeCommit, Q!SetRow, Q!EndReview, Q!Put, no
  <2>2. Moves(u, q, "in_progress", no, granted[u][q] - 1)
    BY <1>2, <1>5, <1>6, <2>1, MovesOf
  <2>3. ReviewMoves(r, Q!NoReview)
    BY <1>4, <2>1, ReviewMovesTo
  <2>4. QuestTypes'
    BY <1>2, <1>4, <1>5, <1>6, <1>7, <2>1, <2>2, <2>3
  <2> QED BY <1>0, <1>1, <1>2, <1>3, <1>12, <2>1, <2>2, <2>3, <2>4 DEF no
<1>13. CASE Q!ReviewError(r)
  <2>1. /\ UNCHANGED <<status, submissions, granted, lapses>> /\ "review_error" \in scene
        /\ reviewer' = [reviewer EXCEPT ![r] = Q!NoReview]
    BY <1>13 DEF Q!ReviewError, Q!EndReview, Q!Put, Q!progress
  <2>2. Moves(u, q, status[u][q], rows, granted[u][q])
    BY <1>2, <2>1, MovesOf
  <2>3. ReviewMoves(r, Q!NoReview)
    BY <1>4, <2>1, ReviewMovesTo
  <2>4. QuestTypes'
    BY <1>2, <1>4, <1>7, <2>1, <2>2, <2>3
  <2> QED BY <1>0, <1>1, <1>2, <1>3, <1>13, <2>1, <2>2, <2>3, <2>4
<1> QED BY <1>8, <1>9, <1>10, <1>11, <1>12, <1>13

\* How calls begin, and the steps that need none.
LEMMA BeginSteps ==
  ASSUME QuestTypes, NEW u \in Members, NEW q \in Quests,
         \/ Q!StartQuest(u, q) \/ Q!CompleteAutoQuest(u, q)
         \/ \E s \in Submitters : Q!ReadForSubmit(s, u, q)
         \/ \E r \in Reviewers, i \in 1..MaxSubmissions : Q!BeginReview(r, u, q, i)
  PROVE  /\ QuestTypes' /\ UNCHANGED <<lapses, Q!offer>>
         /\ \/ /\ Q!StartQuest(u, q) /\ UNCHANGED <<submitter, reviewer>>
               /\ Moves(u, q, "in_progress", submissions[u][q], granted[u][q])
            \/ /\ Q!CompleteAutoQuest(u, q) /\ UNCHANGED <<submitter, reviewer>>
               /\ Moves(u, q, "completed", submissions[u][q], granted[u][q] + 1)
            \/ /\ UNCHANGED <<reviewer, points, ledger, held, primary>>
               /\ Moves(u, q, status[u][q], submissions[u][q], granted[u][q])
               /\ \E s \in Submitters :
                    /\ Q!ReadForSubmit(s, u, q)
                    /\ SubmitMoves(s, [pc |-> "open", user |-> u, quest |-> q])
            \/ /\ UNCHANGED <<submitter, points, ledger, held, primary>> /\ q \notin Automatic
               /\ Moves(u, q, status[u][q], submissions[u][q], granted[u][q])
               /\ \E r \in Reviewers, i \in 1..Len(submissions[u][q]),
                     decision \in {"approve", "reject", "revoke"}, state \in Reviews :
                    /\ Q!BeginReview(r, u, q, i)
                    /\ IF decision = "revoke" THEN submissions[u][q][i] = "approved"
                       ELSE submissions[u][q][i] = "pending"
                    /\ ReviewMoves(r, state) /\ state.pc = decision /\ state.user = u
                    /\ state.quest = q /\ state.row = i /\ state.reward = reward[q]
<1> DEFINE rows == submissions[u][q]
<1>1. UNCHANGED <<lapses, Q!offer>>
  BY DEF Q!StartQuest, Q!CompleteAutoQuest, Q!ReadForSubmit, Q!BeginReview, Q!progress
<1>2. /\ reviewer \in [Reviewers -> Reviews] /\ submitter \in [Submitters -> Submits]
      /\ rows \in Seq(Verdicts) /\ Len(rows) \in Nat
      /\ status[u][q] \in Statuses /\ granted[u][q] \in Int
      /\ lapses \subseteq {"overwritten", "clamped"} /\ OfferTypes /\ OfferTypes'
      /\ granted \in [Members -> [Quests -> Int]] /\ (q \in Automatic => Len(rows) = 0)
  BY <1>1, LenProperties DEF QuestTypes, OfferTypes, Q!offer
<1>3. /\ "in_progress" \in Statuses /\ "completed" \in Statuses /\ granted[u][q] + 1 \in Int
      /\ lapses' \subseteq {"overwritten", "clamped"}
      /\ Len(rows) >= Len(rows)
  BY <1>1, <1>2 DEF Statuses
<1>4. ASSUME UNCHANGED <<submitter, reviewer>>,
             NEW st \in Statuses, NEW count \in Int, Moves(u, q, st, rows, count)
      PROVE  QuestTypes'
  BY <1>2, <1>3, <1>4, TypesKept
<1>5. CASE Q!StartQuest(u, q)
  <2>1. /\ status' = [status EXCEPT ![u][q] = "in_progress"]
        /\ UNCHANGED <<submissions, granted, submitter, reviewer>>
    BY <1>5 DEF Q!StartQuest
  <2>2. Moves(u, q, "in_progress", rows, granted[u][q])
    BY <1>2, <1>3, <2>1, MovesOf
  <2> QED BY <1>1, <1>2, <1>3, <1>4, <1>5, <2>1, <2>2
<1>6. CASE Q!CompleteAutoQuest(u, q)
  <2>1. /\ status' = [status EXCEPT ![u][q] = "completed"]
        /\ granted' = [granted EXCEPT ![u][q] = granted[u][q] + 1]
        /\ UNCHANGED <<submissions, submitter, reviewer>>
    BY <1>2, <1>6 DEF Q!CompleteAutoQuest, Q!Complete, Q!AwardQuestRewards
  <2>2. Moves(u, q, "completed", rows, granted[u][q] + 1)
    BY <1>2, <1>3, <2>1, MovesOf
  <2> QED BY <1>1, <1>2, <1>3, <1>4, <1>6, <2>1, <2>2
<1>7. ASSUME NEW s \in Submitters, Q!ReadForSubmit(s, u, q)
      PROVE  /\ QuestTypes' /\ UNCHANGED <<reviewer, points, ledger, held, primary>>
             /\ Moves(u, q, status[u][q], rows, granted[u][q])
             /\ SubmitMoves(s, [pc |-> "open", user |-> u, quest |-> q])
  <2> DEFINE state == [pc |-> "open", user |-> u, quest |-> q]
  <2>1. /\ UNCHANGED <<status, submissions, granted, reviewer, points, ledger, held, primary>>
        /\ submitter' = [submitter EXCEPT ![s] = state] /\ q \notin Automatic
    BY <1>7 DEF Q!ReadForSubmit, Q!progress, Q!wealth, Q!Manual
  <2>2. state \in Submits /\ state.user = u /\ state.quest = q
    BY DEF Submits
  <2> HIDE DEF state
  <2>3. Moves(u, q, status[u][q], rows, granted[u][q])
    BY <1>2, <2>1, MovesOf
  <2>4. SubmitMoves(s, state)
    BY <2>1, <2>2, SubmitMovesTo
  <2>5. /\ submitter' \in [Submitters -> Submits]
        /\ \A t \in Submitters :
             submitter'[t] = submitter[t] \/
               (submitter'[t].pc # "idle" =>
                  submitter'[t].user \in Members /\ submitter'[t].quest \in Quests \ Automatic)
    BY <2>1, <2>2, <2>4 DEF SubmitMoves
  <2>6. QuestTypes'
    BY <1>2, <1>3, <2>1, <2>3, <2>5, TypesKept
  <2> QED BY <2>1, <2>3, <2>4, <2>6 DEF state
<1>8. ASSUME NEW r \in Reviewers, NEW i \in 1..MaxSubmissions, Q!BeginReview(r, u, q, i)
      PROVE  /\ QuestTypes' /\ UNCHANGED <<submitter, points, ledger, held, primary>>
             /\ q \notin Automatic /\ i \in 1..Len(rows)
             /\ Moves(u, q, status[u][q], rows, granted[u][q])
             /\ \E decision \in {"approve", "reject", "revoke"}, state \in Reviews :
                  /\ IF decision = "revoke" THEN rows[i] = "approved" ELSE rows[i] = "pending"
                  /\ ReviewMoves(r, state) /\ state.pc = decision /\ state.user = u
                  /\ state.quest = q /\ state.row = i /\ state.reward = reward[q]
  <2>1. PICK decision \in {"approve", "reject", "revoke"} :
          /\ IF decision = "revoke" THEN rows[i] = "approved" ELSE rows[i] = "pending"
          /\ reviewer' = [reviewer EXCEPT ![r] =
                 [Q!NoReview EXCEPT !.pc = decision, !.user = u, !.quest = q,
                                    !.row = i, !.reward = reward[q],
                                    !.badge = rewardBadge[q]]]
    BY <1>8 DEF Q!BeginReview, Q!Put, Q!Reviewable
  <2> DEFINE state == [Q!NoReview EXCEPT !.pc = decision, !.user = u, !.quest = q,
                                         !.row = i, !.reward = reward[q],
                                    !.badge = rewardBadge[q]]
  <2>2. /\ UNCHANGED <<status, submissions, granted, submitter, points, ledger, held, primary>>
        /\ i \in 1..Len(rows) /\ q \notin Automatic
    <3>1. /\ UNCHANGED <<status, submissions, granted, submitter, points, ledger, held, primary>>
          /\ i \in 1..Len(rows)
      BY <1>8 DEF Q!BeginReview, Q!progress, Q!wealth
    <3> QED BY <1>2, <3>1
  <2>3. /\ state \in Reviews /\ state.pc = decision /\ state.user = u
        /\ state.quest = q /\ state.row = i /\ state.reward = reward[q]
    <3>1. reward[q] \in Nat /\ rewardBadge[q] \in Badges \cup {NoBadge}
      BY <1>2, RewardsAssumption DEF OfferTypes
    <3>2. i \in Nat
      BY <2>2
    <3> QED BY <3>1, <3>2 DEF Reviews, Q!NoReview
  <2>4. reviewer' = [reviewer EXCEPT ![r] = state]
    BY <2>1
  <2> HIDE DEF state
  <2>5. Moves(u, q, status[u][q], rows, granted[u][q])
    BY <1>2, <2>2, MovesOf
  <2>6. ReviewMoves(r, state)
    BY <2>3, <2>4, ReviewMovesTo
  <2>7. /\ reviewer' \in [Reviewers -> Reviews]
        /\ \A o \in Reviewers :
             reviewer'[o] = reviewer[o] \/
               (reviewer'[o].pc # "idle" =>
                  /\ reviewer'[o].user \in Members /\ reviewer'[o].quest \in Quests
                  /\ reviewer'[o].row \in 1..Len(submissions[reviewer'[o].user][reviewer'[o].quest]))
    BY <2>2, <2>3, <2>6 DEF ReviewMoves
  <2>8. QuestTypes'
    BY <1>2, <1>3, <2>2, <2>5, <2>7, TypesKept
  <2> QED BY <2>1, <2>2, <2>3, <2>5, <2>6, <2>8
<1>9. CASE \E s \in Submitters : Q!ReadForSubmit(s, u, q)
  BY <1>1, <1>7, <1>9
<1>10. CASE \E r \in Reviewers, i \in 1..MaxSubmissions : Q!BeginReview(r, u, q, i)
  <2>1. PICK r \in Reviewers, i \in 1..MaxSubmissions : Q!BeginReview(r, u, q, i)
    BY <1>10
  <2>2. PICK decision \in {"approve", "reject", "revoke"}, state \in Reviews :
          /\ IF decision = "revoke" THEN rows[i] = "approved" ELSE rows[i] = "pending"
          /\ ReviewMoves(r, state) /\ state.pc = decision /\ state.user = u
          /\ state.quest = q /\ state.row = i /\ state.reward = reward[q]
    BY <1>8, <2>1
  <2> QED BY <1>1, <1>8, <2>1, <2>2
<1> QED BY <1>5, <1>6, <1>9, <1>10

\* Quests keep their types.
LEMMA QuestTypesStep == QuestTypes /\ SharedOK /\ [Next]_vars => QuestTypes'
<1> SUFFICES ASSUME QuestTypes, SharedOK, [Next]_vars PROVE QuestTypes'
  OBVIOUS
<1>1. CASE UNCHANGED <<Q!offer, status, submissions, granted, lapses, submitter, reviewer>>
  BY <1>1 DEF QuestTypes, OfferTypes, Q!offer
<1>2. ASSUME NEW u \in Members, NEW q \in Quests,
             \/ Q!StartQuest(u, q) \/ Q!CompleteAutoQuest(u, q)
             \/ \E s \in Submitters : Q!ReadForSubmit(s, u, q)
             \/ \E r \in Reviewers, i \in 1..MaxSubmissions : Q!BeginReview(r, u, q, i)
      PROVE  QuestTypes'
  BY <1>2, BeginSteps
<1>3. ASSUME NEW s \in Submitters,
             Q!OpenUserQuest(s) \/ Q!CreateSubmission(s) \/ Q!MarkPending(s) \/ Q!SubmitError(s)
      PROVE  QuestTypes'
  BY <1>3, SubmitterSteps
<1>4. ASSUME NEW r \in Reviewers,
             \/ Q!Approve(r) \/ Q!RejectSubmission(r) \/ Q!ReopenQuest(r)
             \/ Q!RevokeRead(r) \/ Q!RevokeCommit(r) \/ Q!ReviewError(r)
      PROVE  QuestTypes'
  BY <1>4, ReviewerSteps
<1>5. ASSUME NEW q \in Quests, NEW gain \in RewardPoints,
             NEW badge \in Badges \cup {NoBadge}, Q!EditReward(q, gain, badge)
      PROVE  QuestTypes'
  BY <1>5 DEF Q!EditReward, Q!progress, QuestTypes, OfferTypes
<1>6. CASE Q!QuestStep
  BY <1>2, <1>3, <1>4, <1>5, <1>6, Zenon DEF Q!QuestStep
<1>7. CASE Q!BadgeStep
  BY <1>1, <1>7 DEF Q!BadgeStep, Q!progress
<1> QED BY <1>1, <1>6, <1>7 DEF Next, vars, questVars, Q!offer

-------------------------------------------------------------------------------
(* Points and their ledger.                                                *)

\* A claim writes its points everywhere, or nothing.
LEMMA ClaimPays ==
  ASSUME MiningInv, NEW c \in Calls, M!CommitClaim(c)
  PROVE  \/ UNCHANGED <<ledger, points, opened, tipBalance, funded>>
         \/ call[c].user \in Members /\ call[c].points \in Nat
            /\ Claims(call[c].user, call[c].points)
<1>1. call[c] \in CallStates /\ CallOK(call[c]) /\ call[c].pc = "commit"
  BY DEF MiningInv, MiningTypes, M!MiningTypeOK, CallStates, M!CommitClaim, M!AtCall
<1>2. call[c].user \in Members /\ call[c].points \in Nat
  BY <1>1 DEF CallOK, CallStates
<1> QED BY <1>2 DEF M!CommitClaim, M!account, Claims

\* Every step that changes points or ledger is a claim, a reward or a revocation.
PaidBy ==
  \/ UNCHANGED <<points, ledger>> /\ lapses' = lapses
     /\ UNCHANGED <<opened, tipBalance, funded>>
  \/ /\ UNCHANGED questVars
     /\ \E u \in Members, p \in Nat : Claims(u, p)
  \/ /\ UNCHANGED <<lapses, opened, tipBalance, funded>>
     /\ \E u \in Members, p \in Nat :
          /\ ledger' = [ledger EXCEPT ![u].gained = @ + p]
          /\ points' = [points EXCEPT ![u] = @ + p]
  \/ /\ UNCHANGED <<opened, tipBalance, funded>>
     /\ \E r \in Reviewers : Q!RevokeCommit(r)
  \/ T!Step /\ UNCHANGED <<points, ledger, questVars>>

LEMMA PointsMove ==
  ASSUME MiningInv, QuestTypes, [Next]_vars
  PROVE  PaidBy
<1>1. CASE UNCHANGED vars
  BY <1>1 DEF vars, questVars, PaidBy
<1>2. CASE M!Step /\ UNCHANGED <<questVars, tipVars>>
  <2>1. CASE UNCHANGED M!account
    BY <1>2, <2>1 DEF M!account, PaidBy, questVars
  <2>2. ASSUME NEW c \in Calls, M!CommitClaim(c) PROVE PaidBy
    BY <1>2, <2>2, ClaimPays DEF PaidBy, questVars
  <2> QED BY <1>2, <2>1, <2>2
          DEF M!Step, M!Hour, M!Begin, M!SyncSession, M!View, M!PickStart, M!PickClaim,
              M!SumClaim, M!ClaimNext, M!CallError, M!CreateHour, M!CreateSession
<1>3. CASE Q!QuestStep /\ UNCHANGED <<opened, tipBalance, funded, miningVars, tipVars>>
  <2> DEFINE same == UNCHANGED <<points, ledger, lapses>>
  <2>1. CASE same
    BY <1>3, <2>1 DEF PaidBy
  <2>2. ASSUME NEW u \in Members, NEW q \in Quests, NEW gain \in Nat, NEW badge,
               Q!Complete(u, q, gain, badge), lapses' = lapses
        PROVE  PaidBy
    <3>1. /\ ledger' = [ledger EXCEPT ![u].gained = @ + gain]
          /\ points' = [points EXCEPT ![u] = @ + gain]
      BY <2>2 DEF Q!Complete, Q!AwardQuestRewards
    <3> QED BY <1>3, <2>2, <3>1 DEF PaidBy
  <2>3. ASSUME NEW u \in Members, NEW q \in Quests, Q!CompleteAutoQuest(u, q) PROVE PaidBy
    <3>1. reward[q] \in Nat /\ rewardBadge[q] \in Badges \cup {NoBadge}
      BY RewardsAssumption DEF QuestTypes, OfferTypes
    <3> QED BY <2>2, <2>3, <3>1 DEF Q!CompleteAutoQuest
  <2>4. ASSUME NEW r \in Reviewers, Q!Approve(r) PROVE PaidBy
    <3>1. reviewer[r].pc = "approve" /\ reviewer[r] \in Reviews
      BY <2>4 DEF Q!Approve, QuestTypes
    <3>2. /\ reviewer[r].reward \in Nat /\ reviewer[r].user \in Members
          /\ reviewer[r].quest \in Quests
      BY <3>1 DEF QuestTypes, Reviews
    <3> QED BY <2>2, <2>4, <3>2 DEF Q!Approve
  <2>5. ASSUME NEW r \in Reviewers, Q!RevokeCommit(r) PROVE PaidBy
    BY <1>3, <2>5 DEF PaidBy
  <2>6. ASSUME NEW u \in Members, NEW q \in Quests,
               \/ Q!StartQuest(u, q) \/ \E s \in Submitters : Q!ReadForSubmit(s, u, q)
               \/ \E r \in Reviewers, i \in 1..MaxSubmissions : Q!BeginReview(r, u, q, i)
               \/ \E gain \in RewardPoints, badge \in Badges \cup {NoBadge} : Q!EditReward(q, gain, badge)
        PROVE  same
    BY <2>6 DEF Q!StartQuest, Q!ReadForSubmit, Q!BeginReview, Q!EditReward, Q!wealth, Q!progress
  <2>7. ASSUME NEW s \in Submitters,
               Q!OpenUserQuest(s) \/ Q!CreateSubmission(s) \/ Q!MarkPending(s) \/ Q!SubmitError(s)
        PROVE  same
    BY <2>7 DEF Q!OpenUserQuest, Q!CreateSubmission, Q!MarkPending, Q!SubmitError,
                Q!wealth, Q!progress
  <2>8. ASSUME NEW r \in Reviewers,
               Q!RejectSubmission(r) \/ Q!ReopenQuest(r) \/ Q!RevokeRead(r) \/ Q!ReviewError(r)
        PROVE  same
    BY <2>8 DEF Q!RejectSubmission, Q!ReopenQuest, Q!RevokeRead, Q!ReviewError,
                Q!wealth, Q!progress
  <2> HIDE DEF same
  <2>9. ASSUME NEW u \in Members, NEW q \in Quests,
               \/ Q!StartQuest(u, q) \/ Q!CompleteAutoQuest(u, q)
               \/ \E s \in Submitters : Q!ReadForSubmit(s, u, q)
               \/ \E r \in Reviewers, i \in 1..MaxSubmissions : Q!BeginReview(r, u, q, i)
        PROVE  PaidBy
    BY <2>1, <2>3, <2>6, <2>9
  <2>10. ASSUME NEW q \in Quests, NEW gain \in RewardPoints,
             NEW badge \in Badges \cup {NoBadge}, Q!EditReward(q, gain, badge) PROVE PaidBy
    <3>1. UNCHANGED <<points, ledger, lapses>>
      BY <2>10 DEF Q!EditReward, Q!wealth, Q!progress
    <3> QED BY <2>1, <3>1 DEF same
  <2>11. ASSUME NEW r \in Reviewers,
                \/ Q!Approve(r) \/ Q!RejectSubmission(r) \/ Q!ReopenQuest(r)
                \/ Q!RevokeRead(r) \/ Q!RevokeCommit(r) \/ Q!ReviewError(r)
         PROVE  PaidBy
    BY <2>1, <2>4, <2>5, <2>8, <2>11
  <2> QED BY <1>3, <2>1, <2>7, <2>9, <2>10, <2>11 DEF Q!QuestStep
<1>4. CASE Q!BadgeStep /\ UNCHANGED <<opened, tipBalance, funded, miningVars, tipVars>>
  BY <1>4 DEF Q!BadgeStep, Q!progress, PaidBy
<1>5. CASE T!Step /\ UNCHANGED <<points, ledger, miningVars, questVars>>
  BY <1>5 DEF PaidBy
<1> QED BY <1>1, <1>2, <1>3, <1>4, <1>5 DEF Next

\* Only a revocation that has just read the points comes to hold a balance.
LEMMA RevokesRead ==
  ASSUME QuestTypes, SharedOK, [Next]_vars, NEW r \in Reviewers, reviewer'[r].pc = "revoking"
  PROVE  \/ reviewer'[r] = reviewer[r]
         \/ /\ UNCHANGED <<points, ledger, lapses, submissions, Q!offer>>
            /\ reviewer[r].pc = "revoke" /\ reviewer[r].user \in Members
            /\ reviewer'[r] = [reviewer[r] EXCEPT !.pc = "revoking",
                                                  !.balance = points[reviewer[r].user]]
<1>1. CASE reviewer' = reviewer
  BY <1>1
<1>2. CASE Q!QuestStep
  <2>1. ASSUME NEW u \in Members, NEW q \in Quests,
               \/ Q!StartQuest(u, q) \/ Q!CompleteAutoQuest(u, q)
               \/ \E s \in Submitters : Q!ReadForSubmit(s, u, q)
               \/ \E o \in Reviewers, i \in 1..MaxSubmissions : Q!BeginReview(o, u, q, i)
        PROVE  reviewer'[r] = reviewer[r]
    <3>1. CASE \E o \in Reviewers, i \in 1..MaxSubmissions : Q!BeginReview(o, u, q, i)
      <4>0. PICK o \in Reviewers, i \in 1..MaxSubmissions : Q!BeginReview(o, u, q, i)
        BY <3>1
      <4>1. PICK decision \in {"approve", "reject", "revoke"} :
              reviewer' = [reviewer EXCEPT ![o] =
                 [Q!NoReview EXCEPT !.pc = decision, !.user = u, !.quest = q,
                                    !.row = i, !.reward = reward[q],
                                    !.badge = rewardBadge[q]]]
        BY <4>0 DEF Q!BeginReview, Q!Put
      <4> DEFINE state == [Q!NoReview EXCEPT !.pc = decision, !.user = u, !.quest = q,
                                             !.row = i, !.reward = reward[q],
                                    !.badge = rewardBadge[q]]
      <4>2. state.pc = decision
        BY DEF Q!NoReview
      <4>3. reviewer' = [reviewer EXCEPT ![o] = state]
        BY <4>1
      <4> HIDE DEF state
      <4>4. reviewer'[r] = IF r = o THEN state ELSE reviewer[r]
        BY <4>3 DEF QuestTypes
      <4> QED BY <4>2, <4>4
    <3> QED BY <1>1, <2>1, <3>1 DEF Q!StartQuest, Q!CompleteAutoQuest, Q!ReadForSubmit
  <2>2. ASSUME NEW s \in Submitters,
               Q!OpenUserQuest(s) \/ Q!CreateSubmission(s) \/ Q!MarkPending(s) \/ Q!SubmitError(s)
        PROVE  reviewer'[r] = reviewer[r]
    BY <2>2 DEF Q!OpenUserQuest, Q!CreateSubmission, Q!MarkPending, Q!SubmitError
  <2>3. ASSUME NEW q \in Quests, NEW gain \in RewardPoints,
             NEW badge \in Badges \cup {NoBadge}, Q!EditReward(q, gain, badge)
        PROVE  reviewer'[r] = reviewer[r]
    BY <2>3 DEF Q!EditReward
  <2>4. ASSUME NEW o \in Reviewers,
               \/ Q!Approve(o) \/ Q!RejectSubmission(o) \/ Q!ReopenQuest(o)
               \/ Q!RevokeRead(o) \/ Q!RevokeCommit(o) \/ Q!ReviewError(o)
        PROVE  \/ reviewer'[r] = reviewer[r]
               \/ o = r /\ Q!RevokeRead(r)
    <3>1. reviewer \in [Reviewers -> Reviews]
      BY DEF QuestTypes
    <3>2. Q!NoReview.pc = "idle"
      BY DEF Q!NoReview
    <3>3. CASE Q!RejectSubmission(o)
      BY <3>1, <3>3 DEF Q!RejectSubmission, Q!Put, Reviews
    <3>4. CASE Q!RevokeRead(o)
      BY <3>1, <3>4 DEF Q!RevokeRead, Q!Put
    <3>5. CASE reviewer' = [reviewer EXCEPT ![o] = Q!NoReview]
      BY <3>1, <3>2, <3>5
    <3> QED BY <2>4, <3>3, <3>4, <3>5
            DEF Q!Approve, Q!ReopenQuest, Q!RevokeCommit, Q!ReviewError, Q!EndReview, Q!Put
  <2>5. ASSUME Q!RevokeRead(r)
        PROVE  /\ UNCHANGED <<points, ledger, lapses, submissions, Q!offer>>
               /\ reviewer[r].pc = "revoke" /\ reviewer[r].user \in Members
               /\ reviewer'[r] = [reviewer[r] EXCEPT !.pc = "revoking",
                                                     !.balance = points[reviewer[r].user]]
    <3>1. /\ UNCHANGED <<points, ledger, lapses, submissions, Q!offer>>
          /\ reviewer[r].pc = "revoke"
      BY <2>5 DEF Q!RevokeRead, Q!progress, Q!wealth
    <3>2. reviewer[r].user \in Members
      BY <3>1 DEF QuestTypes
    <3> QED BY <2>5, <3>1, <3>2 DEF Q!RevokeRead, Q!Put, QuestTypes
  <2> QED BY <1>2, <2>1, <2>2, <2>3, <2>4, <2>5 DEF Q!QuestStep
<1>3. CASE Q!BadgeStep
  BY <1>1, <1>3 DEF Q!BadgeStep
<1> QED BY <1>1, <1>2, <1>3 DEF Next, vars, questVars

\* What one gain, or one reversal, makes of the ledger.
LEMMA LedgerMoves ==
  ASSUME SharedOK, NEW u \in Users, NEW p \in Nat
  PROVE  /\ ledger' = [ledger EXCEPT ![u].gained = @ + p] =>
              /\ ledger' \in [Users -> [gained : Nat, reversed : Nat]]
              /\ \A v \in Users :
                   /\ ledger'[v].gained = ledger[v].gained + (IF v = u THEN p ELSE 0)
                   /\ ledger'[v].reversed = ledger[v].reversed
         /\ ledger' = [ledger EXCEPT ![u].reversed = @ + p] =>
              /\ ledger' \in [Users -> [gained : Nat, reversed : Nat]]
              /\ \A v \in Users :
                   /\ ledger'[v].gained = ledger[v].gained
                   /\ ledger'[v].reversed = ledger[v].reversed + (IF v = u THEN p ELSE 0)
         /\ points' = [points EXCEPT ![u] = @ + p] =>
              /\ points' \in [Users -> Nat]
              /\ \A v \in Users : points'[v] = points[v] + (IF v = u THEN p ELSE 0)
BY DEF SharedOK

\* A profile never shows more points than its ledger gained, and a revocation
\* never read more.
FundsOK ==
  /\ SharedOK
  /\ \A u \in Users : points[u] <= ledger[u].gained
  /\ \A r \in Reviewers : reviewer[r].pc = "revoking" =>
       reviewer[r].balance <= ledger[reviewer[r].user].gained

\* What a revocation writes.
LEMMA RevocationPays ==
  ASSUME QuestTypes, SharedOK, NEW r \in Reviewers, Q!RevokeCommit(r)
  PROVE  LET u == reviewer[r].user
             p == reviewer[r].reward
             b == reviewer[r].balance
         IN
         /\ reviewer[r].pc = "revoking" /\ u \in Members /\ u \in Users /\ p \in Nat /\ b \in Nat
         /\ ledger' \in [Users -> [gained : Nat, reversed : Nat]]
         /\ points' \in [Users -> Nat]
         /\ \A v \in Users :
              /\ ledger'[v].gained = ledger[v].gained
              /\ ledger'[v].reversed = ledger[v].reversed + (IF v = u THEN p ELSE 0)
              /\ points'[v] = IF v = u /\ p > 0 THEN (IF b > p THEN b - p ELSE 0) ELSE points[v]
         /\ lapses \subseteq lapses'
         /\ "clamped" \in lapses' => "clamped" \in lapses \/ p > b
         /\ "overwritten" \notin lapses' /\ p > 0 => points[u] = b
         /\ "clamped" \notin lapses' /\ p > 0 => b >= p
<1> DEFINE u == reviewer[r].user
           p == reviewer[r].reward
           b == reviewer[r].balance
           new == IF b > p THEN b - p ELSE 0
<1>1. reviewer[r].pc = "revoking" /\ reviewer[r] \in Reviews
  BY DEF Q!RevokeCommit, QuestTypes
<1>2. u \in Members /\ u \in Users /\ p \in Nat /\ b \in Nat
  BY <1>1, RewardsAssumption DEF QuestTypes, Reviews
<1>3. /\ ledger' = [ledger EXCEPT ![u].reversed = @ + p]
      /\ points' = IF p = 0 THEN points ELSE [points EXCEPT ![u] = new]
      /\ lapses' = lapses \cup {l \in {"overwritten", "clamped"} : p > 0 /\
                                 IF l = "clamped" THEN b < p ELSE points[u] # b}
  BY DEF Q!RevokeCommit, Q!LessReward
<1>4. new \in Nat
  BY <1>2
<1> HIDE DEF u, p, b
<1>5. /\ points' \in [Users -> Nat]
      /\ \A v \in Users : points'[v] = IF v = u /\ p > 0 THEN new ELSE points[v]
  <2> HIDE DEF new
  <2> QED BY <1>2, <1>3, <1>4 DEF SharedOK
<1>6. /\ ledger' \in [Users -> [gained : Nat, reversed : Nat]]
      /\ \A v \in Users :
           /\ ledger'[v].gained = ledger[v].gained
           /\ ledger'[v].reversed = ledger[v].reversed + (IF v = u THEN p ELSE 0)
  BY <1>2, <1>3, LedgerMoves
<1>7. /\ lapses \subseteq lapses'
      /\ "clamped" \in lapses' => "clamped" \in lapses \/ p > b
      /\ "overwritten" \notin lapses' /\ p > 0 => points[u] = b
      /\ "clamped" \notin lapses' /\ p > 0 => b >= p
  BY <1>2, <1>3
<1> QED BY <1>1, <1>2, <1>5, <1>6, <1>7 DEF u, p, b

LEMMA FundsStep == MiningInv /\ QuestTypes /\ FundsOK /\ [Next]_vars => FundsOK'
<1> SUFFICES ASSUME MiningInv, QuestTypes, FundsOK, [Next]_vars PROVE FundsOK'
  OBVIOUS
<1>0. SharedOK /\ Members \subseteq Users /\ QuestTypes'
  BY RewardsAssumption, QuestTypesStep DEF FundsOK
<1>1. ASSUME SharedOK', \A v \in Users : points'[v] <= ledger'[v].gained,
             \A v \in Users : ledger[v].gained <= ledger'[v].gained
      PROVE  FundsOK'
  <2>1. ASSUME NEW r \in Reviewers, reviewer'[r].pc = "revoking"
        PROVE  reviewer'[r].balance <= ledger'[reviewer'[r].user].gained
    <3>1. /\ reviewer'[r] \in Reviews /\ reviewer'[r].user \in Users
          /\ reviewer'[r].balance \in Nat
      BY <1>0, <2>1 DEF QuestTypes, Reviews
    <3>2. \A v \in Users : ledger[v].gained \in Nat /\ ledger'[v].gained \in Nat
      BY <1>0, <1>1 DEF SharedOK
    <3>3. CASE reviewer'[r] = reviewer[r]
      BY <1>1, <2>1, <3>1, <3>2, <3>3 DEF FundsOK
    <3>4. CASE reviewer'[r] # reviewer[r]
      <4>1. /\ UNCHANGED <<points, ledger>> /\ reviewer[r] \in Reviews
            /\ reviewer'[r] = [reviewer[r] EXCEPT !.pc = "revoking",
                                                  !.balance = points[reviewer[r].user]]
        BY <1>0, <2>1, <3>4, RevokesRead DEF QuestTypes
      <4>2. /\ reviewer'[r].user = reviewer[r].user
            /\ reviewer'[r].balance = points[reviewer[r].user]
        BY <4>1 DEF Reviews
      <4> QED BY <3>1, <4>1, <4>2 DEF FundsOK
    <3> QED BY <3>3, <3>4
  <2> QED BY <1>1, <2>1 DEF FundsOK
<1>2. CASE UNCHANGED <<points, ledger>>
  <2>1. \A v \in Users : ledger[v].gained \in Nat
    BY <1>0 DEF SharedOK
  <2> QED BY <1>1, <1>2, <2>1 DEF FundsOK, SharedOK
<1>3. ASSUME NEW u \in Members, NEW p \in Nat,
             ledger' = [ledger EXCEPT ![u].gained = @ + p],
             points' = [points EXCEPT ![u] = @ + p]
      PROVE  FundsOK'
  <2>1. /\ SharedOK'
        /\ \A v \in Users : /\ ledger'[v].gained = ledger[v].gained + (IF v = u THEN p ELSE 0)
                            /\ points'[v] = points[v] + (IF v = u THEN p ELSE 0)
    <3>1. u \in Users
      BY <1>0
    <3> QED BY <1>0, <1>3, <3>1, LedgerMoves DEF SharedOK
  <2>2. \A v \in Users : points[v] \in Nat /\ ledger[v].gained \in Nat
                         /\ points[v] <= ledger[v].gained
    BY DEF FundsOK, SharedOK
  <2>3. \A v \in Users : points'[v] <= ledger'[v].gained /\ ledger[v].gained <= ledger'[v].gained
    BY <2>1, <2>2
  <2> QED BY <1>1, <2>1, <2>3
<1>4. ASSUME NEW r \in Reviewers, Q!RevokeCommit(r) PROVE FundsOK'
  <2> DEFINE u == reviewer[r].user
             p == reviewer[r].reward
             b == reviewer[r].balance
  <2>1. /\ reviewer[r].pc = "revoking" /\ u \in Users /\ p \in Nat /\ b \in Nat /\ SharedOK'
        /\ \A v \in Users :
              /\ ledger'[v].gained = ledger[v].gained
              /\ points'[v] = IF v = u /\ p > 0 THEN (IF b > p THEN b - p ELSE 0) ELSE points[v]
    BY <1>0, <1>4, RevocationPays DEF SharedOK
  <2>2. /\ \A v \in Users : points[v] <= ledger[v].gained /\ ledger[v].gained \in Nat
        /\ b <= ledger[u].gained
    BY <2>1 DEF FundsOK, SharedOK
  <2> HIDE DEF u, p, b
  <2>3. \A v \in Users : points'[v] <= ledger'[v].gained /\ ledger[v].gained <= ledger'[v].gained
    BY <2>1, <2>2
  <2> QED BY <1>1, <2>1, <2>3
<1> QED BY <1>2, <1>3, <1>4, PointsMove DEF PaidBy, Claims

\* Unless a revocation lapsed, points are what the ledger adds up to.
Balanced == lapses = {} => \A u \in Users : points[u] = ledger[u].gained - ledger[u].reversed

LEMMA BalancedStep ==
  MiningInv /\ QuestTypes /\ FundsOK /\ Balanced /\ [Next]_vars => Balanced'
<1> SUFFICES ASSUME MiningInv, QuestTypes, FundsOK, Balanced, [Next]_vars, lapses' = {}
             PROVE  \A v \in Users : points'[v] = ledger'[v].gained - ledger'[v].reversed
  BY DEF Balanced
<1>0. SharedOK /\ Members \subseteq Users
      /\ \A v \in Users : points[v] \in Nat /\ ledger[v].gained \in Nat /\ ledger[v].reversed \in Nat
  BY RewardsAssumption DEF FundsOK, SharedOK
<1>1. CASE UNCHANGED <<points, ledger, lapses>>
  BY <1>1 DEF Balanced
<1>2. ASSUME NEW u \in Members, NEW p \in Nat, lapses' = lapses,
             ledger' = [ledger EXCEPT ![u].gained = @ + p],
             points' = [points EXCEPT ![u] = @ + p]
      PROVE  \A v \in Users : points'[v] = ledger'[v].gained - ledger'[v].reversed
  <2>1. u \in Users
    BY <1>0
  <2>2. \A v \in Users : /\ ledger'[v].gained = ledger[v].gained + (IF v = u THEN p ELSE 0)
                         /\ ledger'[v].reversed = ledger[v].reversed
                         /\ points'[v] = points[v] + (IF v = u THEN p ELSE 0)
    <3>1. /\ ledger' = [ledger EXCEPT ![u].gained = @ + p] /\ points' = [points EXCEPT ![u] = @ + p]
          /\ SharedOK
      BY <1>0, <1>2
    <3> QED BY <2>1, <3>1, LedgerMoves, Zenon
  <2>3. \A v \in Users : points[v] = ledger[v].gained - ledger[v].reversed
    BY <1>2 DEF Balanced
  <2> QED BY <1>0, <2>2, <2>3
<1>3. ASSUME NEW r \in Reviewers, Q!RevokeCommit(r)
      PROVE  \A v \in Users : points'[v] = ledger'[v].gained - ledger'[v].reversed
  <2> DEFINE u == reviewer[r].user
             p == reviewer[r].reward
             b == reviewer[r].balance
  <2>1. /\ u \in Users /\ p \in Nat /\ b \in Nat
        /\ \A v \in Users :
              /\ ledger'[v].gained = ledger[v].gained
              /\ ledger'[v].reversed = ledger[v].reversed + (IF v = u THEN p ELSE 0)
              /\ points'[v] = IF v = u /\ p > 0 THEN (IF b > p THEN b - p ELSE 0) ELSE points[v]
        /\ lapses \subseteq lapses'
        /\ p > 0 => points[u] = b /\ b >= p
    BY <1>0, <1>3, RevocationPays
  <2>2. \A v \in Users : points[v] = ledger[v].gained - ledger[v].reversed
    BY <2>1 DEF Balanced
  <2> HIDE DEF u, p, b
  <2> QED BY <1>0, <2>1, <2>2
<1> QED BY <1>1, <1>2, <1>3, PointsMove DEF PaidBy, Claims, questVars

\* A submission with a verdict, and what a step may make of the submissions.
Row(u, q, i, x) == i \in 1..Len(submissions[u][q]) /\ submissions[u][q][i] = x
SameRows ==
  \A v \in Members : \A o \in Quests : \A j, x : Row(v, o, j, x)' <=> Row(v, o, j, x)
SetsRow(u, q, i, w) ==
  \A v \in Members : \A o \in Quests : \A j, x :
    Row(v, o, j, x)' <=> IF v = u /\ o = q /\ j = i THEN x = w ELSE Row(v, o, j, x)
AddsRow(u, q) ==
  \E n \in Nat :
    /\ \A x : ~Row(u, q, n, x)
    /\ \A v \in Members : \A o \in Quests : \A j, x :
         Row(v, o, j, x)' <=>
           IF v = u /\ o = q /\ j = n THEN x = "pending" ELSE Row(v, o, j, x)

LEMMA RowsMove ==
  ASSUME QuestTypes, NEW u \in Members, NEW q \in Quests, NEW st, NEW count
  PROVE  /\ Moves(u, q, st, submissions[u][q], count) => SameRows
         /\ \A i \in 1..Len(submissions[u][q]), w \in Verdicts :
              Moves(u, q, st, [submissions[u][q] EXCEPT ![i] = w], count) => SetsRow(u, q, i, w)
         /\ Moves(u, q, st, Append(submissions[u][q], "pending"), count) => AddsRow(u, q)
<1> DEFINE rows == submissions[u][q]
<1>1. rows \in Seq(Verdicts) /\ Len(rows) \in Nat
  BY LenProperties DEF QuestTypes
<1>2. ASSUME NEW list, Moves(u, q, st, list, count), NEW v \in Members, NEW o \in Quests
      PROVE  submissions'[v][o] = IF v = u /\ o = q THEN list ELSE submissions[v][o]
  BY <1>2 DEF Moves
<1>3. ASSUME Moves(u, q, st, rows, count) PROVE SameRows
  <2>1. \A v \in Members : \A o \in Quests : submissions'[v][o] = submissions[v][o]
    BY <1>2, <1>3
  <2> QED BY <2>1 DEF SameRows, Row
<1>4. ASSUME NEW i \in 1..Len(rows), NEW w \in Verdicts,
             Moves(u, q, st, [rows EXCEPT ![i] = w], count)
      PROVE  SetsRow(u, q, i, w)
  <2> DEFINE list == [rows EXCEPT ![i] = w]
  <2>1. Len(list) = Len(rows) /\ \A j \in 1..Len(rows) : list[j] = IF j = i THEN w ELSE rows[j]
    BY <1>1, ExceptSeq
  <2>2. \A v \in Members : \A o \in Quests :
          submissions'[v][o] = IF v = u /\ o = q THEN list ELSE submissions[v][o]
    BY <1>2, <1>4
  <2> HIDE DEF list
  <2> QED BY <2>1, <2>2 DEF SetsRow, Row
<1>5. ASSUME Moves(u, q, st, Append(rows, "pending"), count) PROVE AddsRow(u, q)
  <2> DEFINE list == Append(rows, "pending")
             n == Len(rows) + 1
  <2>1. /\ Len(list) = Len(rows) + 1 /\ list[Len(rows) + 1] = "pending"
        /\ \A j \in 1..Len(rows) : list[j] = rows[j]
    BY <1>1, AppendProperties DEF Verdicts
  <2>2. \A v \in Members : \A o \in Quests :
          submissions'[v][o] = IF v = u /\ o = q THEN list ELSE submissions[v][o]
    BY <1>2, <1>5
  <2> HIDE DEF list
  <2>3. n \in Nat /\ \A x : ~Row(u, q, n, x)
    BY <1>1 DEF Row
  <2>4. \A v \in Members : \A o \in Quests : \A j, x :
          Row(v, o, j, x)' <=>
            IF v = u /\ o = q /\ j = n THEN x = "pending" ELSE Row(v, o, j, x)
    <3> TAKE v \in Members
    <3> TAKE o \in Quests
    <3> TAKE j, x
    <3>1. CASE v = u /\ o = q
      <4>1. submissions'[v][o] = list /\ submissions[v][o] = rows
        BY <2>2, <3>1
      <4>2. j \in 1..Len(list) <=> j \in 1..Len(rows) \/ j = n
        BY <1>1, <2>1
      <4>3. j \in 1..Len(rows) => j # n
        BY <1>1
      <4> HIDE DEF rows
      <4> QED BY <2>1, <3>1, <4>1, <4>2, <4>3 DEF Row
    <3>2. CASE ~(v = u /\ o = q)
      <4>1. submissions'[v][o] = submissions[v][o]
        BY <2>2, <3>2
      <4> QED BY <3>2, <4>1 DEF Row
    <3> QED BY <3>1, <3>2
  <2> QED BY <2>3, <2>4 DEF AddsRow
<1> QED BY <1>3, <1>4, <1>5

\* What any step makes of the submissions and of the reviews.
Begins ==
  \E u \in Members, q \in Quests : \E r \in Reviewers, i \in 1..MaxSubmissions :
    /\ SameRows /\ Q!BeginReview(r, u, q, i)
    /\ \E state \in Reviews :
         /\ state.pc \in {"approve", "reject", "revoke"} /\ state.user = u /\ state.quest = q
         /\ state.row = i /\ state.reward = reward[q] /\ state.badge = rewardBadge[q]
         /\ ReviewMoves(r, state)
         /\ Row(u, q, i, IF state.pc = "revoke" THEN "approved" ELSE "pending")
Resolves(r) ==
  LET u == reviewer[r].user  q == reviewer[r].quest  i == reviewer[r].row
      Set(w) == SetsRow(u, q, i, w)
  IN
  \/ Q!Approve(r) /\ reviewer[r].pc = "approve" /\ Set("approved")
     /\ ReviewMoves(r, Q!NoReview)
  \/ Q!RejectSubmission(r) /\ reviewer[r].pc = "reject" /\ Set("rejected")
     /\ ReviewMoves(r, [reviewer[r] EXCEPT !.pc = "reopen"])
  \/ (Q!ReopenQuest(r) \/ Q!ReviewError(r)) /\ SameRows /\ ReviewMoves(r, Q!NoReview)
  \/ Q!RevokeRead(r) /\ reviewer[r].pc = "revoke" /\ SameRows
     /\ ReviewMoves(r, [reviewer[r] EXCEPT !.pc = "revoking", !.balance = points[u]])
  \/ Q!RevokeCommit(r) /\ reviewer[r].pc = "revoking" /\ Set("rejected")
     /\ ReviewMoves(r, Q!NoReview)
ReviewStep ==
  \/ SameRows /\ UNCHANGED reviewer
  \/ \E u \in Members, q \in Quests : AddsRow(u, q) /\ UNCHANGED reviewer
  \/ Begins
  \/ \E r \in Reviewers : Resolves(r)

\* Where a review goes from its state.
Leads(c, state) ==
  \/ state.pc = "idle"
  \/ /\ (c.pc = "reject" /\ state.pc = "reopen") \/ (c.pc = "revoke" /\ state.pc = "revoking")
     /\ state.user = c.user /\ state.quest = c.quest /\ state.badge = c.badge

LEMMA LeadsOn ==
  ASSUME QuestTypes, NEW r \in Reviewers, Resolves(r)
  PROVE  \E state : ReviewMoves(r, state) /\ Leads(reviewer[r], state)
<1>0. PICK c \in Reviews : c = reviewer[r]
  BY DEF QuestTypes
<1> DEFINE over == [c EXCEPT !.pc = "reopen"]
           open == [c EXCEPT !.pc = "revoking", !.balance = points[c.user]]
<1>1. Leads(c, Q!NoReview)
  BY DEF Leads, Q!NoReview
<1>2. c.pc = "reject" => Leads(c, over)
  BY <1>0 DEF Leads, Reviews
<1>3. c.pc = "revoke" => Leads(c, open)
  BY <1>0 DEF Leads, Reviews
<1>4. \/ ReviewMoves(r, Q!NoReview)
      \/ c.pc = "reject" /\ ReviewMoves(r, over)
      \/ c.pc = "revoke" /\ ReviewMoves(r, open)
  BY <1>0, Zenon DEF Resolves
<1> HIDE DEF over, open
<1> QED BY <1>0, <1>1, <1>2, <1>3, <1>4, Zenon

LEMMA EveryReviewStep ==
  ASSUME QuestTypes, SharedOK, [Next]_vars
  PROVE  ReviewStep
<1>1. CASE UNCHANGED <<submissions, reviewer>>
  BY <1>1 DEF ReviewStep, SameRows, Row
<1>2. ASSUME NEW u \in Members, NEW q \in Quests,
             \/ Q!StartQuest(u, q) \/ Q!CompleteAutoQuest(u, q)
             \/ \E s \in Submitters : Q!ReadForSubmit(s, u, q)
      PROVE  ReviewStep
  BY <1>1, <1>2 DEF Q!StartQuest, Q!CompleteAutoQuest, Q!ReadForSubmit, Q!progress
<1>3. ASSUME NEW u \in Members, NEW q \in Quests, NEW r \in Reviewers,
             NEW i \in 1..MaxSubmissions, Q!BeginReview(r, u, q, i)
      PROVE  ReviewStep
  <2>0. PICK decision \in {"approve", "reject", "revoke"} :
          /\ IF decision = "revoke" THEN submissions[u][q][i] = "approved"
             ELSE submissions[u][q][i] = "pending"
          /\ reviewer' = [reviewer EXCEPT ![r] =
                 [Q!NoReview EXCEPT !.pc = decision, !.user = u, !.quest = q,
                                    !.row = i, !.reward = reward[q],
                                    !.badge = rewardBadge[q]]]
    BY <1>3 DEF Q!BeginReview, Q!Put, Q!Reviewable
  <2> DEFINE state == [Q!NoReview EXCEPT !.pc = decision, !.user = u, !.quest = q,
                                         !.row = i, !.reward = reward[q],
                                    !.badge = rewardBadge[q]]
  <2>1. i \in 1..Len(submissions[u][q]) /\ submissions' = submissions
    BY <1>3 DEF Q!BeginReview, Q!progress
  <2>2. /\ state \in Reviews /\ state.pc = decision /\ state.user = u
        /\ state.quest = q /\ state.row = i /\ state.reward = reward[q]
        /\ state.badge = rewardBadge[q]
    <3>1. reward[q] \in Nat /\ rewardBadge[q] \in Badges \cup {NoBadge}
      BY RewardsAssumption DEF QuestTypes, OfferTypes
    <3>2. i \in Nat
      BY <2>1
    <3> QED BY <3>1, <3>2 DEF Reviews, Q!NoReview
  <2>3. reviewer' = [reviewer EXCEPT ![r] = state]
    BY <2>0
  <2> HIDE DEF state
  <2>4. ReviewMoves(r, state)
    BY <2>2, <2>3, ReviewMovesTo
  <2>5. SameRows
    BY <2>1 DEF SameRows, Row
  <2>6. Row(u, q, i, IF state.pc = "revoke" THEN "approved" ELSE "pending")
    BY <2>0, <2>1, <2>2 DEF Row
  <2>7. \E s \in Reviews :
            /\ s.pc \in {"approve", "reject", "revoke"} /\ s.user = u /\ s.quest = q
            /\ s.row = i /\ s.reward = reward[q] /\ s.badge = rewardBadge[q]
            /\ ReviewMoves(r, s)
            /\ Row(u, q, i, IF s.pc = "revoke" THEN "approved" ELSE "pending")
    BY <2>2, <2>4, <2>6
  <2> QED BY <1>3, <2>5, <2>7 DEF ReviewStep, Begins
<1>4. ASSUME NEW s \in Submitters,
             Q!OpenUserQuest(s) \/ Q!CreateSubmission(s) \/ Q!MarkPending(s) \/ Q!SubmitError(s)
      PROVE  ReviewStep
  <2>1. CASE ~Q!CreateSubmission(s)
    BY <1>1, <1>4, <2>1 DEF Q!OpenUserQuest, Q!MarkPending, Q!SubmitError, Q!progress
  <2>2. CASE Q!CreateSubmission(s)
    <3> DEFINE u == submitter[s].user
               q == submitter[s].quest
    <3>1. submitter[s].pc = "create" /\ u \in Members /\ q \in Quests /\ reviewer' = reviewer
      BY <2>2 DEF Q!CreateSubmission, QuestTypes
    <3>2. Moves(u, q, status[u][q], Append(submissions[u][q], "pending"), granted[u][q])
      <4> DEFINE add == Append(submissions[u][q], "pending")
      <4>1. submissions[u][q] \in Seq(Verdicts) /\ "pending" \in Verdicts
            /\ status[u][q] \in Statuses /\ granted[u][q] \in Int
        BY <3>1 DEF QuestTypes, Verdicts
      <4>2. add \in Seq(Verdicts)
        BY <4>1, AppendProperties
      <4>3. /\ submissions' = [submissions EXCEPT ![u][q] = add]
            /\ status' = status /\ granted' = granted
        BY <2>2, <3>1 DEF Q!CreateSubmission, QuestTypes
      <4> HIDE DEF add
      <4> QED BY <3>1, <4>1, <4>2, <4>3, MovesOf DEF add
    <3>3. AddsRow(u, q)
      BY <3>1, <3>2, RowsMove
    <3> QED BY <3>1, <3>3 DEF ReviewStep
  <2> QED BY <2>1, <2>2
<1>5. ASSUME NEW r \in Reviewers,
             \/ Q!Approve(r) \/ Q!RejectSubmission(r) \/ Q!ReopenQuest(r)
             \/ Q!RevokeRead(r) \/ Q!RevokeCommit(r) \/ Q!ReviewError(r)
      PROVE  ReviewStep
  <2> DEFINE u == reviewer[r].user
             q == reviewer[r].quest
             i == reviewer[r].row
             rows == submissions[u][q]
             Set(w) == SetsRow(u, q, i, w)
  <2>1. u \in Members /\ q \in Quests /\ i \in 1..Len(rows)
    BY <1>5, ReviewerSteps
  <2>2. /\ \A st, count : Moves(u, q, st, rows, count) => SameRows
        /\ \A st, count, w : w \in Verdicts /\ Moves(u, q, st, [rows EXCEPT ![i] = w], count) => Set(w)
    BY <2>1, RowsMove
  <2>3. "approved" \in Verdicts /\ "rejected" \in Verdicts
    BY DEF Verdicts
  <2>4. \/ Q!Approve(r) /\ reviewer[r].pc = "approve" /\ Set("approved")
           /\ ReviewMoves(r, Q!NoReview)
        \/ Q!RejectSubmission(r) /\ reviewer[r].pc = "reject" /\ Set("rejected")
           /\ ReviewMoves(r, [reviewer[r] EXCEPT !.pc = "reopen"])
        \/ (Q!ReopenQuest(r) \/ Q!ReviewError(r)) /\ SameRows /\ ReviewMoves(r, Q!NoReview)
        \/ Q!RevokeRead(r) /\ reviewer[r].pc = "revoke" /\ SameRows
           /\ ReviewMoves(r, [reviewer[r] EXCEPT !.pc = "revoking", !.balance = points[u]])
        \/ Q!RevokeCommit(r) /\ reviewer[r].pc = "revoking" /\ Set("rejected")
           /\ ReviewMoves(r, Q!NoReview)
    <3> HIDE DEF Set
    <3> QED BY <1>5, <2>2, <2>3, ReviewerSteps
  <2> QED BY <2>4 DEF ReviewStep, Resolves
<1>6. ASSUME NEW q \in Quests, NEW gain \in RewardPoints,
             NEW badge \in Badges \cup {NoBadge}, Q!EditReward(q, gain, badge)
      PROVE  ReviewStep
  BY <1>1, <1>6 DEF Q!EditReward, Q!progress
<1>7. CASE Q!QuestStep
  BY <1>2, <1>3, <1>4, <1>5, <1>6, <1>7 DEF Q!QuestStep
<1>8. CASE Q!BadgeStep
  BY <1>1, <1>8 DEF Q!BadgeStep, Q!progress
<1> QED BY <1>1, <1>7, <1>8 DEF Next, vars, questVars

\* With rewards that stay as they are and one review at a time, the review in
\* progress holds its submission as it was read.
Reviewing ==
  scene \cap {"edit_reward", "overlap_reviews"} = {} =>
    /\ reward = FirstReward
    /\ \A r, o \in Reviewers : reviewer[r].pc # "idle" /\ reviewer[o].pc # "idle" => r = o
    /\ \A r \in Reviewers : reviewer[r].pc # "idle" =>
         reviewer[r].reward = FirstReward[reviewer[r].quest]
    /\ \A r \in Reviewers : reviewer[r].pc \in {"approve", "reject"} =>
         Row(reviewer[r].user, reviewer[r].quest, reviewer[r].row, "pending")
    /\ \A r \in Reviewers : reviewer[r].pc \in {"revoke", "revoking"} =>
         Row(reviewer[r].user, reviewer[r].quest, reviewer[r].row, "approved")

LEMMA ReviewingStep == QuestTypes /\ SharedOK /\ Reviewing /\ [Next]_vars => Reviewing'
<1> SUFFICES ASSUME QuestTypes, SharedOK, Reviewing, [Next]_vars PROVE Reviewing'
  OBVIOUS
<1>0. scene' = scene
  BY DEF Next, vars
<1> SUFFICES ASSUME scene \cap {"edit_reward", "overlap_reviews"} = {} PROVE Reviewing'
  BY <1>0 DEF Reviewing
<1>1. reward' = reward
  <2>1. ASSUME NEW q \in Quests, NEW gain \in RewardPoints,
             NEW badge \in Badges \cup {NoBadge}, Q!EditReward(q, gain, badge) PROVE reward' = reward
    BY <2>1 DEF Q!EditReward, QuestTypes, OfferTypes
  <2>2. CASE Q!QuestStep
    <3>1. ASSUME NEW u, NEW q, Q!StartQuest(u, q) \/ Q!CompleteAutoQuest(u, q) PROVE reward' = reward
      BY <3>1 DEF Q!StartQuest, Q!CompleteAutoQuest, Q!offer
    <3>2. ASSUME NEW s, NEW u, NEW q, Q!ReadForSubmit(s, u, q) PROVE reward' = reward
      BY <3>2 DEF Q!ReadForSubmit, Q!offer
    <3>3. ASSUME NEW r, NEW u, NEW q, NEW i, Q!BeginReview(r, u, q, i) PROVE reward' = reward
      BY <3>3 DEF Q!BeginReview, Q!offer
    <3>4. ASSUME NEW s, Q!OpenUserQuest(s) \/ Q!CreateSubmission(s) \/ Q!MarkPending(s) \/ Q!SubmitError(s)
          PROVE  reward' = reward
      BY <3>4 DEF Q!OpenUserQuest, Q!CreateSubmission, Q!MarkPending, Q!SubmitError, Q!offer
    <3>5. ASSUME NEW r, Q!Approve(r) \/ Q!RejectSubmission(r) \/ Q!ReopenQuest(r) \/ Q!RevokeRead(r)
                        \/ Q!RevokeCommit(r) \/ Q!ReviewError(r)
          PROVE  reward' = reward
      BY <3>5 DEF Q!Approve, Q!RejectSubmission, Q!ReopenQuest, Q!RevokeRead, Q!RevokeCommit, Q!ReviewError,
                   Q!offer
    <3> QED BY <2>1, <2>2, <3>1, <3>2, <3>3, <3>4, <3>5, Zenon DEF Q!QuestStep
  <2>3. CASE Q!BadgeStep
    BY <2>3 DEF Q!BadgeStep, Q!offer
  <2> QED BY <2>2, <2>3 DEF Next, vars, questVars
<1>2. /\ reward = FirstReward
      /\ \A r, o \in Reviewers : reviewer[r].pc # "idle" /\ reviewer[o].pc # "idle" => r = o
      /\ \A r \in Reviewers : reviewer[r].pc # "idle" =>
           reviewer[r].reward = FirstReward[reviewer[r].quest]
      /\ \A r \in Reviewers : reviewer[r].pc \in {"approve", "reject"} =>
           Row(reviewer[r].user, reviewer[r].quest, reviewer[r].row, "pending")
      /\ \A r \in Reviewers : reviewer[r].pc \in {"revoke", "revoking"} =>
           Row(reviewer[r].user, reviewer[r].quest, reviewer[r].row, "approved")
  BY DEF Reviewing
<1>3. /\ reviewer \in [Reviewers -> Reviews]
      /\ \A r \in Reviewers : reviewer[r].pc # "idle" =>
           reviewer[r].user \in Members /\ reviewer[r].quest \in Quests
  BY DEF QuestTypes
<1>4. ASSUME \A r, o \in Reviewers : reviewer'[r].pc # "idle" /\ reviewer'[o].pc # "idle" => r = o,
             \A r \in Reviewers : reviewer'[r].pc # "idle" =>
               /\ reviewer'[r].reward = FirstReward[reviewer'[r].quest]
               /\ reviewer'[r].pc \in {"approve", "reject"} =>
                    \E u, q, i : /\ u = reviewer'[r].user /\ q = reviewer'[r].quest
                                 /\ i = reviewer'[r].row /\ Row(u, q, i, "pending")'
               /\ reviewer'[r].pc \in {"revoke", "revoking"} =>
                    \E u, q, i : /\ u = reviewer'[r].user /\ q = reviewer'[r].quest
                                 /\ i = reviewer'[r].row /\ Row(u, q, i, "approved")'
      PROVE  Reviewing'
  BY <1>1, <1>2, <1>4 DEF Reviewing, Row
<1>5. ASSUME UNCHANGED reviewer, SameRows \/ \E u \in Members, q \in Quests : AddsRow(u, q)
      PROVE  Reviewing'
  <2>1. \A v \in Members : \A o \in Quests : \A j, x : Row(v, o, j, x) => Row(v, o, j, x)'
    BY <1>5 DEF SameRows, AddsRow
  <2> QED BY <1>2, <1>3, <1>4, <1>5, <2>1
<1>6. ASSUME NEW u \in Members, NEW q \in Quests, NEW r \in Reviewers,
             NEW i \in 1..MaxSubmissions, SameRows, Q!BeginReview(r, u, q, i),
             NEW state \in Reviews, ReviewMoves(r, state),
             state.pc \in {"approve", "reject", "revoke"}, state.user = u, state.quest = q,
             state.row = i, state.reward = reward[q],
             Row(u, q, i, IF state.pc = "revoke" THEN "approved" ELSE "pending")
      PROVE  Reviewing'
  <2>1. \A o \in Reviewers : reviewer[o].pc = "idle"
    BY <1>6 DEF Q!BeginReview
  <2>2. \A o \in Reviewers : reviewer'[o] = IF o = r THEN state ELSE reviewer[o]
    BY <1>6 DEF ReviewMoves
  <2>3. Row(u, q, i, IF state.pc = "revoke" THEN "approved" ELSE "pending")'
    BY <1>6 DEF SameRows
  <2>4. \A o \in Reviewers : reviewer'[o].pc # "idle" => o = r /\ reviewer'[o] = state
    BY <2>1, <2>2
  <2> QED BY <1>2, <1>4, <1>6, <2>3, <2>4
<1>7. ASSUME NEW r \in Reviewers, reviewer[r].pc # "idle", ReviewMoves(r, Q!NoReview)
      PROVE  Reviewing'
  <2>1. \A o \in Reviewers : reviewer'[o].pc = "idle"
    BY <1>2, <1>7 DEF ReviewMoves, Q!NoReview
  <2> QED BY <1>4, <2>1
<1>8. ASSUME NEW r \in Reviewers, reviewer[r].pc = "reject",
             ReviewMoves(r, [reviewer[r] EXCEPT !.pc = "reopen"])
      PROVE  Reviewing'
  <2> DEFINE state == [reviewer[r] EXCEPT !.pc = "reopen"]
  <2>1. state.pc = "reopen" /\ state.reward = reviewer[r].reward /\ state.quest = reviewer[r].quest
    BY <1>3 DEF Reviews
  <2>2. \A o \in Reviewers : reviewer'[o] = IF o = r THEN state ELSE reviewer[o]
    BY <1>8 DEF ReviewMoves
  <2> HIDE DEF state
  <2>3. \A o \in Reviewers : reviewer'[o].pc # "idle" => o = r /\ reviewer'[o] = state
    BY <1>2, <1>8, <2>2
  <2> QED BY <1>2, <1>4, <1>8, <2>1, <2>3
<1>9. ASSUME NEW r \in Reviewers, reviewer[r].pc = "revoke", SameRows,
             ReviewMoves(r, [reviewer[r] EXCEPT !.pc = "revoking",
                                                !.balance = points[reviewer[r].user]])
      PROVE  Reviewing'
  <2> DEFINE b == points[reviewer[r].user]
             state == [reviewer[r] EXCEPT !.pc = "revoking", !.balance = b]
  <2>0. \A o \in Reviewers : reviewer'[o] = IF o = r THEN state ELSE reviewer[o]
    BY <1>9 DEF ReviewMoves
  <2> HIDE DEF b
  <2>1. /\ state.pc = "revoking" /\ state.reward = reviewer[r].reward
        /\ state.quest = reviewer[r].quest /\ state.user = reviewer[r].user
        /\ state.row = reviewer[r].row
    BY <1>3 DEF Reviews
  <2> HIDE DEF state
  <2>2. \A o \in Reviewers : reviewer'[o].pc # "idle" => o = r /\ reviewer'[o] = state
    BY <1>2, <1>9, <2>0
  <2>3. \E u, q, i : /\ u = state.user /\ q = state.quest /\ i = state.row
                     /\ Row(u, q, i, "approved")'
    BY <1>2, <1>3, <1>9, <2>1 DEF SameRows
  <2> QED BY <1>2, <1>4, <1>9, <2>1, <2>2, <2>3
<1>10. ReviewStep
  BY EveryReviewStep
<1>11. ASSUME NEW r \in Reviewers, Q!ReopenQuest(r) \/ Q!ReviewError(r)
       PROVE  reviewer[r].pc # "idle"
  BY <1>11 DEF Q!ReopenQuest, Q!ReviewError
<1>12. CASE Begins
  <2> PICK u \in Members, q \in Quests, r \in Reviewers, i \in 1..MaxSubmissions :
        /\ SameRows /\ Q!BeginReview(r, u, q, i)
        /\ \E state \in Reviews :
             /\ state.pc \in {"approve", "reject", "revoke"} /\ state.user = u
             /\ state.quest = q /\ state.row = i /\ state.reward = reward[q]
             /\ ReviewMoves(r, state)
             /\ Row(u, q, i, IF state.pc = "revoke" THEN "approved" ELSE "pending")
    BY <1>12, SMT DEF Begins
  <2> PICK state \in Reviews :
        /\ state.pc \in {"approve", "reject", "revoke"} /\ state.user = u
        /\ state.quest = q /\ state.row = i /\ state.reward = reward[q]
        /\ ReviewMoves(r, state)
        /\ Row(u, q, i, IF state.pc = "revoke" THEN "approved" ELSE "pending")
    OBVIOUS
  <2> QED BY <1>6, Zenon
<1>13. ASSUME NEW r \in Reviewers, Resolves(r) PROVE Reviewing'
  <2>1. \/ reviewer[r].pc \in {"approve", "revoking"} /\ ReviewMoves(r, Q!NoReview)
        \/ reviewer[r].pc = "reject" /\ ReviewMoves(r, [reviewer[r] EXCEPT !.pc = "reopen"])
        \/ (Q!ReopenQuest(r) \/ Q!ReviewError(r)) /\ ReviewMoves(r, Q!NoReview)
        \/ /\ reviewer[r].pc = "revoke" /\ SameRows
           /\ ReviewMoves(r, [reviewer[r] EXCEPT !.pc = "revoking",
                                                !.balance = points[reviewer[r].user]])
    BY <1>13 DEF Resolves
  <2>2. CASE reviewer[r].pc # "idle" /\ ReviewMoves(r, Q!NoReview)
    BY <1>7, <2>2
  <2> QED BY <1>8, <1>9, <1>11, <2>1, <2>2
<1> QED BY <1>5, <1>10, <1>12, <1>13 DEF ReviewStep

\* What the ledger of a user is worth, and his approved submissions.
Net(u) == ledger[u].gained - ledger[u].reversed
Approvals(u) == {a \in Quests \X Nat : Row(u, a[1], a[2], "approved")}
Earned == [a \in Quests \X Nat |-> FirstReward[a[1]]]
Covered ==
  scene \cap {"edit_reward", "overlap_reviews"} = {} =>
    /\ \A u \in Members : IsFiniteSet(Approvals(u)) /\ Total(Earned, Approvals(u)) <= Net(u)
    /\ "overwritten" \notin lapses =>
         /\ "clamped" \notin lapses
         /\ \A r \in Reviewers : reviewer[r].pc = "revoking" =>
              reviewer[r].balance >= reviewer[r].reward

\* Points are whole, and an approved submission is among the approved ones.
LEMMA Approved ==
  ASSUME QuestTypes, NEW u \in Members, NEW q \in Quests, NEW i, Row(u, q, i, "approved")
  PROVE  <<q, i>> \in Approvals(u) /\ Earned[<<q, i>>] = FirstReward[q]
<1>1. i \in Nat
  BY LenProperties DEF QuestTypes, Row
<1>2. \A a \in Quests \X Nat : a[1] \in Quests /\ a[2] \in Nat
  OBVIOUS
<1> QED BY <1>1 DEF Approvals, Earned

LEMMA EarnedType ==
  /\ \A a \in Quests \X Nat : Earned[a] \in Nat
  /\ \A u : Approvals(u) \subseteq Quests \X Nat
BY RewardsAssumption DEF Earned, Approvals

LEMMA EarnedBy ==
  ASSUME QuestTypes, NEW u \in Members, NEW q \in Quests, NEW i, Row(u, q, i, "approved"),
         IsFiniteSet(Approvals(u))
  PROVE  /\ FirstReward[q] \in Nat
         /\ Total(Earned, Approvals(u)) = FirstReward[q] + Total(Earned, Approvals(u) \ {<<q, i>>})
         /\ Total(Earned, Approvals(u) \ {<<q, i>>}) \in Nat
         /\ Total(Earned, Approvals(u)) \in Nat
         /\ FirstReward[q] <= Total(Earned, Approvals(u))
<1> DEFINE S == Approvals(u)
           a == <<q, i>>
<1>1. a \in S /\ Earned[a] = FirstReward[q]
  BY Approved
<1>2. \A x \in S : Earned[x] \in Nat /\ Earned[x] \in Int
  BY EarnedType
<1> HIDE DEF S, a
<1>3. IsFiniteSet(S)
  BY DEF S
<1>4. Total(Earned, S) = Earned[a] + Total(Earned, S \ {a})
  BY <1>1, <1>2, <1>3, TotalWithout
<1>5. Total(Earned, S \ {a}) \in Nat
  BY <1>2, <1>3, TotalOfPart
<1>6. FirstReward[q] \in Nat
  BY RewardsAssumption
<1> QED BY <1>1, <1>4, <1>5, <1>6 DEF S, a

LEMMA CoveredStep ==
  /\ MiningInv /\ QuestTypes /\ FundsOK /\ Balanced /\ Reviewing /\ Covered /\ [Next]_vars
  => Covered'
<1> SUFFICES ASSUME MiningInv, QuestTypes, FundsOK, Balanced, Reviewing, Covered, [Next]_vars
             PROVE  Covered'
  OBVIOUS
<1>0. scene' = scene
  BY DEF Next, vars
<1> SUFFICES ASSUME scene \cap {"edit_reward", "overlap_reviews"} = {} PROVE Covered'
  BY <1>0 DEF Covered
<1>1. SharedOK /\ Members \subseteq Users
  BY RewardsAssumption DEF FundsOK
<1>2. /\ \A u \in Members : IsFiniteSet(Approvals(u)) /\ Total(Earned, Approvals(u)) <= Net(u)
      /\ "overwritten" \notin lapses =>
           /\ "clamped" \notin lapses
           /\ \A r \in Reviewers : reviewer[r].pc = "revoking" =>
                reviewer[r].balance >= reviewer[r].reward
  BY DEF Covered
<1>3. /\ reward = FirstReward
      /\ \A r \in Reviewers : reviewer[r].pc # "idle" =>
           reviewer[r].reward = FirstReward[reviewer[r].quest]
      /\ \A r \in Reviewers : reviewer[r].pc \in {"approve", "reject"} =>
           Row(reviewer[r].user, reviewer[r].quest, reviewer[r].row, "pending")
      /\ \A r \in Reviewers : reviewer[r].pc \in {"revoke", "revoking"} =>
           Row(reviewer[r].user, reviewer[r].quest, reviewer[r].row, "approved")
  BY DEF Reviewing
<1>4. /\ reviewer \in [Reviewers -> Reviews]
      /\ \A r \in Reviewers : reviewer[r].pc # "idle" =>
           reviewer[r].user \in Members /\ reviewer[r].quest \in Quests
  BY DEF QuestTypes
<1>5. \A u \in Members : Net(u) \in Int /\ Total(Earned, Approvals(u)) \in Int
  <2>1. ASSUME NEW u \in Members PROVE Net(u) \in Int
    BY <1>1 DEF SharedOK, Net
  <2>2. ASSUME NEW u \in Members PROVE Total(Earned, Approvals(u)) \in Int
    <3>1. \A x \in Approvals(u) : Earned[x] \in Int
      BY EarnedType
    <3> QED BY <1>2, <3>1, TotalType
  <2> QED BY <2>1, <2>2
<1>6. ASSUME lapses' = lapses, NEW r \in Reviewers, reviewer'[r].pc = "revoking",
             "overwritten" \notin lapses
      PROVE  reviewer'[r].balance >= reviewer'[r].reward
  <2>1. CASE reviewer'[r] = reviewer[r]
    BY <1>2, <1>6, <2>1
  <2>2. CASE reviewer'[r] # reviewer[r]
    <3> DEFINE u == reviewer[r].user
               q == reviewer[r].quest
               i == reviewer[r].row
    <3>1. /\ reviewer[r].pc = "revoke" /\ u \in Members
          /\ reviewer'[r] = [reviewer[r] EXCEPT !.pc = "revoking", !.balance = points[u]]
      BY <1>1, <1>6, <2>2, RevokesRead
    <3>2. /\ Row(u, q, i, "approved") /\ q \in Quests
          /\ reviewer[r].reward = FirstReward[q]
      BY <1>3, <1>4, <3>1
    <3>3. FirstReward[q] \in Nat /\ FirstReward[q] <= Total(Earned, Approvals(u))
      BY <1>2, <3>1, <3>2, EarnedBy
    <3>4. points[u] = Net(u)
      <4>1. lapses = {}
        BY <1>2, <1>6 DEF QuestTypes
      <4> QED BY <1>1, <3>1, <4>1 DEF Balanced, Net
    <3>5. reviewer'[r].balance = points[u] /\ reviewer'[r].reward = reviewer[r].reward
      <4> DEFINE b == points[u]
      <4>1. reviewer'[r] = [reviewer[r] EXCEPT !.pc = "revoking", !.balance = b]
        BY <3>1
      <4> HIDE DEF b
      <4>2. reviewer'[r].balance = b /\ reviewer'[r].reward = reviewer[r].reward
        BY <1>4, <4>1 DEF Reviews
      <4> QED BY <4>2 DEF b
    <3> QED BY <1>2, <1>5, <3>1, <3>2, <3>3, <3>4, <3>5
  <2> QED BY <2>1, <2>2
<1>7. ASSUME lapses' = lapses,
             \A u \in Members : IsFiniteSet(Approvals(u)') /\ Net(u)' \in Int
                                /\ Total(Earned, Approvals(u)') <= Net(u)'
      PROVE  Covered'
  <2>1. \A u \in Members : Total(Earned, Approvals(u))' = Total(Earned, Approvals(u)')
    BY DEF Earned
  <2> QED BY <1>2, <1>6, <1>7, <2>1 DEF Covered
<1>8. ASSUME NEW u \in Members, \A q \in Quests : \A i : Row(u, q, i, "approved")' <=> Row(u, q, i, "approved")
      PROVE  Approvals(u)' = Approvals(u)
  BY <1>8 DEF Approvals
<1>9. ASSUME NEW r \in Reviewers, Q!RevokeCommit(r) PROVE Covered'
  <2>0. PICK c : c = reviewer[r]
    OBVIOUS
  <2> USE <2>0
  <2> DEFINE u == c.user
             q == c.quest
             i == c.row
             p == c.reward
             b == c.balance
             a == <<q, i>>
  <2>1. /\ reviewer[r].pc = "revoking" /\ u \in Members /\ u \in Users /\ p \in Nat /\ b \in Nat
        /\ ledger' \in [Users -> [gained : Nat, reversed : Nat]]
        /\ \A v \in Users :
              /\ ledger'[v].gained = ledger[v].gained
              /\ ledger'[v].reversed = ledger[v].reversed + (IF v = u THEN p ELSE 0)
        /\ lapses \subseteq lapses'
        /\ "clamped" \in lapses' => "clamped" \in lapses \/ p > b
    BY <1>1, <1>9, RevocationPays
  <2>2. q \in Quests /\ Row(u, q, i, "approved") /\ p = FirstReward[q]
    BY <1>3, <1>4, <2>1
  <2>3. SetsRow(u, q, i, "rejected") /\ ReviewMoves(r, Q!NoReview)
    <3> DEFINE list == [submissions[u][q] EXCEPT ![i] = "rejected"]
    <3>1. /\ submissions[u][q] \in Seq(Verdicts) /\ "rejected" \in Verdicts
          /\ granted[u][q] \in Int /\ "in_progress" \in Statuses
      BY <2>1, <2>2 DEF QuestTypes, Verdicts, Statuses
    <3>2. i \in 1..Len(submissions[u][q])
      BY <2>2 DEF Row
    <3>3. list \in Seq(Verdicts)
      BY <3>1, <3>2, ExceptSeq
    <3>4. /\ submissions' = [submissions EXCEPT ![u][q] = list]
          /\ status' = [status EXCEPT ![u][q] = "in_progress"]
          /\ granted' = [granted EXCEPT ![u][q] = granted[u][q] - 1]
      BY <1>9, <2>1, <2>2 DEF Q!RevokeCommit, Q!SetRow, QuestTypes
    <3>5. reviewer' = [reviewer EXCEPT ![r] = Q!NoReview] /\ Q!NoReview \in Reviews
      BY <1>9 DEF Q!RevokeCommit, Q!EndReview, Q!Put, Q!NoReview, Reviews
    <3>6. ReviewMoves(r, Q!NoReview)
      BY <3>5, ReviewMovesTo
    <3>7. granted[u][q] - 1 \in Int
      BY <3>1
    <3> HIDE DEF list
    <3>8. Moves(u, q, "in_progress", list, granted[u][q] - 1)
      BY <2>1, <2>2, <3>1, <3>3, <3>4, <3>7, MovesOf
    <3> QED BY <2>1, <2>2, <3>1, <3>2, <3>6, <3>8, RowsMove DEF list
  <2>4. \A o \in Reviewers : reviewer'[o].pc # "revoking"
    BY <1>9, <2>1, <2>3 DEF ReviewMoves, Q!NoReview, Reviewing
  <2>5. \A v \in Members : Net(v)' = Net(v) - (IF v = u THEN p ELSE 0)
    <3>1. \A v \in Members : /\ v \in Users /\ ledger[v].gained \in Nat /\ ledger[v].reversed \in Nat
      BY <1>1 DEF SharedOK
    <3> HIDE DEF u, p
    <3> QED BY <2>1, <3>1 DEF Net
  <2> HIDE DEF p, b
  <2>6. Approvals(u)' = Approvals(u) \ {a}
    <3>1. \A o \in Quests : \A j : Row(u, o, j, "approved")' <=>
             Row(u, o, j, "approved") /\ ~(o = q /\ j = i)
      <4>1. \A o \in Quests : \A j, x : Row(u, o, j, x)' <=>
               IF o = q /\ j = i THEN x = "rejected" ELSE Row(u, o, j, x)
        <5> HIDE DEF u, q, i
        <5> QED BY <2>1, <2>3 DEF SetsRow
      <4> HIDE DEF u, q, i
      <4> QED BY <4>1
    <3>2. \A x \in Quests \X Nat : x = a <=> x[1] = q /\ x[2] = i
      OBVIOUS
    <3> HIDE DEF u, q, i, a
    <3> QED BY <2>2, <3>1, <3>2 DEF Approvals
  <2>7. \A v \in Members \ {u} : Approvals(v)' = Approvals(v)
    BY <1>8, <2>3 DEF SetsRow
  <2>8. IsFiniteSet(Approvals(u) \ {a}) /\ Total(Earned, Approvals(u) \ {a}) \in Int
        /\ Total(Earned, Approvals(u)) = p + Total(Earned, Approvals(u) \ {a})
    <3>1. IsFiniteSet(Approvals(u))
      BY <1>2, <2>1
    <3>2. /\ Total(Earned, Approvals(u)) = FirstReward[q] + Total(Earned, Approvals(u) \ {<<q, i>>})
          /\ Total(Earned, Approvals(u) \ {<<q, i>>}) \in Nat
      BY <2>1, <2>2, <3>1, EarnedBy
    <3>3. IsFiniteSet(Approvals(u) \ {a})
      BY <3>1, FS_Difference
    <3> QED BY <2>2, <3>2, <3>3
  <2> HIDE DEF a, u, q, i
  <2>9. ASSUME NEW v \in Members
        PROVE  IsFiniteSet(Approvals(v)') /\ Total(Earned, Approvals(v)') <= Net(v)'
    <3>1. CASE v = u
      <4>0. Approvals(v)' = Approvals(u) \ {a}
        BY <2>6, <3>1
      <4>1. Total(Earned, Approvals(v)') = Total(Earned, Approvals(u) \ {a})
            /\ IsFiniteSet(Approvals(v)')
        BY Zenon, <2>8, <4>0
      <4> QED BY <1>2, <1>5, <2>1, <2>5, <2>8, <3>1, <4>1
    <3>2. CASE v # u
      <4>1. Total(Earned, Approvals(v)') = Total(Earned, Approvals(v))
            /\ IsFiniteSet(Approvals(v)')
        BY Zenon, <1>2, <2>7, <3>2
      <4> QED BY <1>2, <1>5, <2>5, <3>2, <4>1
    <3> QED BY <3>1, <3>2
  <2>10. \A v \in Members : Total(Earned, Approvals(v))' = Total(Earned, Approvals(v)')
    BY DEF Earned
  <2>11. "overwritten" \notin lapses' => "clamped" \notin lapses'
    <3>1. "overwritten" \notin lapses => b >= p
      BY <1>2, <2>1 DEF b, p
    <3> QED BY <1>2, <2>1, <3>1
  <2> QED BY <2>4, <2>9, <2>10, <2>11 DEF Covered
<1>10. ASSUME lapses' = lapses, \A v \in Members : Net(v)' \in Int /\ Net(v)' >= Net(v),
              \A v \in Members : Approvals(v)' = Approvals(v)
       PROVE  Covered'
  <2>1. ASSUME NEW v \in Members
        PROVE  IsFiniteSet(Approvals(v)') /\ Total(Earned, Approvals(v)') <= Net(v)'
    <3>1. Total(Earned, Approvals(v)') = Total(Earned, Approvals(v))
            /\ IsFiniteSet(Approvals(v)')
      BY Zenon, <1>2, <1>10
    <3> QED BY <1>2, <1>5, <1>10, <3>1
  <2> QED BY <1>7, <1>10, <2>1
<1>11. ASSUME NEW r \in Reviewers, Q!Approve(r), reviewer[r].pc = "approve",
              SetsRow(reviewer[r].user, reviewer[r].quest, reviewer[r].row, "approved")
       PROVE  Covered'
  <2>0. PICK c : c = reviewer[r]
    OBVIOUS
  <2> USE <2>0
  <2> DEFINE u == c.user
             q == c.quest
             i == c.row
             p == c.reward
             a == <<q, i>>
  <2>1. /\ u \in Members /\ u \in Users /\ q \in Quests /\ p = FirstReward[q] /\ p \in Nat
        /\ Row(u, q, i, "pending") /\ i \in Nat /\ lapses' = lapses
    <3>1. u \in Members /\ q \in Quests /\ p = FirstReward[q] /\ Row(u, q, i, "pending")
      BY <1>3, <1>4, <1>11
    <3>2. i \in Nat /\ p \in Nat
      BY <1>4 DEF Reviews
    <3> QED BY <1>1, <1>11, <3>1, <3>2 DEF Q!Approve
  <2>2. ledger' = [ledger EXCEPT ![u].gained = @ + p]
    BY <1>11 DEF Q!Approve, Q!Complete, Q!AwardQuestRewards
  <2> HIDE DEF p
  <2>3. \A v \in Members : Net(v)' = Net(v) + (IF v = u THEN p ELSE 0) /\ Net(v)' \in Int
    <3>1. \A v \in Users : /\ ledger'[v].gained = ledger[v].gained + (IF v = u THEN p ELSE 0)
                           /\ ledger'[v].reversed = ledger[v].reversed
      <4> HIDE DEF u
      <4> QED BY <1>1, <2>1, <2>2 DEF SharedOK
    <3>2. \A v \in Members : v \in Users /\ ledger[v].gained \in Nat /\ ledger[v].reversed \in Nat
      BY <1>1 DEF SharedOK
    <3> HIDE DEF u
    <3> QED BY <2>1, <3>1, <3>2 DEF Net
  <2>4. a \notin Approvals(u)
    BY <2>1 DEF Approvals, Row
  <2>5. Approvals(u)' = Approvals(u) \cup {a}
    <3>1. \A o \in Quests : \A j : Row(u, o, j, "approved")' <=>
             Row(u, o, j, "approved") \/ (o = q /\ j = i)
      <4>0. SetsRow(u, q, i, "approved")
        BY <1>11
      <4>1. \A o \in Quests : \A j, x : Row(u, o, j, x)' <=>
               IF o = q /\ j = i THEN x = "approved" ELSE Row(u, o, j, x)
        <5> HIDE DEF u, q, i
        <5> QED BY <2>1, <4>0 DEF SetsRow
      <4> HIDE DEF u, q, i
      <4> QED BY <4>1
    <3>2. \A x \in Quests \X Nat : x = a <=> x[1] = q /\ x[2] = i
      OBVIOUS
    <3>3. a \in Quests \X Nat
      BY <2>1
    <3> HIDE DEF u, q, i, a
    <3> QED BY <2>1, <3>1, <3>2, <3>3 DEF Approvals
  <2>6. \A v \in Members \ {u} : Approvals(v)' = Approvals(v)
    BY <1>8, <1>11 DEF SetsRow
  <2>7. IsFiniteSet(Approvals(u) \cup {a})
        /\ Total(Earned, Approvals(u) \cup {a}) = Total(Earned, Approvals(u)) + p
    <3>1. IsFiniteSet(Approvals(u))
      BY <1>2, <2>1
    <3>2. Earned[a] = p /\ Earned[a] \in Int
      BY <2>1 DEF Earned
    <3>3. \A x \in Approvals(u) : Earned[x] \in Int
      BY EarnedType
    <3> HIDE DEF a
    <3>4. IsFiniteSet(Approvals(u) \cup {a})
      BY <3>1, FS_AddElement
    <3>5. Total(Earned, Approvals(u) \cup {a}) = Total(Earned, Approvals(u)) + Earned[a]
      BY <2>4, <3>1, <3>2, <3>3, TotalWith
    <3> QED BY <3>2, <3>4, <3>5
  <2> HIDE DEF a, u, q, i
  <2>8. ASSUME NEW v \in Members
        PROVE  IsFiniteSet(Approvals(v)') /\ Total(Earned, Approvals(v)') <= Net(v)'
    <3>1. CASE v = u
      <4>0. Approvals(v)' = Approvals(u) \cup {a}
        BY <2>5, <3>1
      <4>1. Total(Earned, Approvals(v)') = Total(Earned, Approvals(u) \cup {a})
            /\ IsFiniteSet(Approvals(v)')
        BY Zenon, <2>7, <4>0
      <4> QED BY <1>2, <1>5, <2>1, <2>3, <2>7, <3>1, <4>1
    <3>2. CASE v # u
      <4>1. Total(Earned, Approvals(v)') = Total(Earned, Approvals(v))
            /\ IsFiniteSet(Approvals(v)')
        BY Zenon, <1>2, <2>6, <3>2
      <4> QED BY <1>2, <1>5, <2>3, <3>2, <4>1
    <3> QED BY <3>1, <3>2
  <2> QED BY <1>7, <2>1, <2>3, <2>8
<1>12. ASSUME ~(\E r \in Reviewers : Q!RevokeCommit(r))
       PROVE  lapses' = lapses /\ \A v \in Members : Net(v)' \in Int /\ Net(v)' >= Net(v)
  <2>1. \A v \in Members : v \in Users /\ ledger[v].gained \in Nat /\ ledger[v].reversed \in Nat
    BY <1>1 DEF SharedOK
  <2>2. CASE UNCHANGED <<ledger, lapses>>
    BY <2>1, <2>2 DEF Net
  <2>3. ASSUME NEW u \in Members, NEW p \in Nat, ledger' = [ledger EXCEPT ![u].gained = @ + p]
        PROVE  \A v \in Members : Net(v)' \in Int /\ Net(v)' >= Net(v)
    <3>0. u \in Users
      BY <1>1
    <3>1. \A v \in Users : /\ ledger'[v].gained = ledger[v].gained + (IF v = u THEN p ELSE 0)
                           /\ ledger'[v].reversed = ledger[v].reversed
      BY <1>1, <2>3, <3>0, LedgerMoves
    <3> QED BY <2>1, <3>1 DEF Net
  <2> QED BY <1>12, <2>2, <2>3, PointsMove DEF PaidBy, Claims, questVars
<1>13. ASSUME SameRows \/ \E u \in Members, q \in Quests : AddsRow(u, q)
       PROVE  \A v \in Members : Approvals(v)' = Approvals(v)
  <2>1. \A v \in Members : \A o \in Quests : \A j :
          Row(v, o, j, "approved")' <=> Row(v, o, j, "approved")
    BY <1>13 DEF SameRows, AddsRow
  <2> QED BY <1>8, <2>1
<1>14. ASSUME NEW r \in Reviewers, reviewer[r].pc = "reject",
              SetsRow(reviewer[r].user, reviewer[r].quest, reviewer[r].row, "rejected")
       PROVE  \A v \in Members : Approvals(v)' = Approvals(v)
  <2>1. ~Row(reviewer[r].user, reviewer[r].quest, reviewer[r].row, "approved")
    BY <1>3, <1>14 DEF Row
  <2>2. \A v \in Members : \A o \in Quests : \A j :
          Row(v, o, j, "approved")' <=> Row(v, o, j, "approved")
    BY <1>14, <2>1 DEF SetsRow
  <2> QED BY <1>8, <2>2
<1>15. CASE ~(\E r \in Reviewers : Q!RevokeCommit(r))
  <2>1. ReviewStep
    BY <1>1, EveryReviewStep
  <2>2. CASE \E r \in Reviewers :
               /\ Q!Approve(r) /\ reviewer[r].pc = "approve"
               /\ SetsRow(reviewer[r].user, reviewer[r].quest, reviewer[r].row, "approved")
    BY <1>11, <2>2
  <2>3. CASE SameRows \/ \E u \in Members, q \in Quests : AddsRow(u, q)
    BY <1>10, <1>12, <1>13, <1>15, <2>3
  <2>4. CASE \E r \in Reviewers :
               /\ reviewer[r].pc = "reject"
               /\ SetsRow(reviewer[r].user, reviewer[r].quest, reviewer[r].row, "rejected")
    BY <1>10, <1>12, <1>14, <1>15, <2>4
  <2> QED BY <1>15, <2>1, <2>2, <2>3, <2>4 DEF ReviewStep, Begins, Resolves
<1> QED BY <1>9, <1>15

\* The types of quests hold in every reachable state, and no profile shows more
\* points than its ledger gained.
LEMMA FundsCorrect == Spec => [](QuestTypes /\ FundsOK)
<1>1. Init => QuestTypes /\ FundsOK
  <2> SUFFICES ASSUME Init PROVE QuestTypes /\ FundsOK
    OBVIOUS
  <2>1. /\ points = [u \in Users |-> 0]
        /\ ledger = [u \in Users |-> [gained |-> 0, reversed |-> 0]]
        /\ status = [u \in Members |-> [q \in Quests |-> "none"]]
        /\ submissions = [u \in Members |-> [q \in Quests |-> <<>>]]
        /\ granted = [u \in Members |-> [q \in Quests |-> 0]]
        /\ lapses = {} /\ reward = FirstReward
        /\ rewardBadge = FirstBadge /\ former = [q \in Quests |-> {}]
        /\ submitter = [s \in Submitters |-> Q!NoSubmit]
        /\ reviewer = [r \in Reviewers |-> Q!NoReview]
    BY DEF Init, Q!QuestsInit
  <2>2. /\ Q!NoSubmit \in Submits /\ Q!NoSubmit.pc = "idle"
        /\ Q!NoReview \in Reviews /\ Q!NoReview.pc = "idle"
    BY DEF Q!NoSubmit, Q!NoReview, Submits, Reviews
  <2>3. <<>> \in Seq(Verdicts) /\ Len(<<>>) = 0 /\ "none" \in Statuses
    BY DEF Statuses
  <2>4. /\ status \in [Members -> [Quests -> Statuses]]
        /\ submissions \in [Members -> [Quests -> Seq(Verdicts)]]
        /\ granted \in [Members -> [Quests -> Int]]
    BY <2>1, <2>3
  <2>5. /\ submitter \in [Submitters -> Submits] /\ \A s \in Submitters : submitter[s].pc = "idle"
        /\ reviewer \in [Reviewers -> Reviews] /\ \A r \in Reviewers : reviewer[r].pc = "idle"
    BY <2>1, <2>2
  <2>6. \A u \in Members, q \in Automatic : Len(submissions[u][q]) = 0
    BY <2>1, <2>3, RewardsAssumption
  <2>7. QuestTypes
    <3>1. OfferTypes
      BY <2>1, RewardsAssumption DEF OfferTypes
    <3> QED BY <2>1, <2>4, <2>5, <2>6, <3>1 DEF QuestTypes
  <2>8. FundsOK
    BY <2>1, <2>5 DEF FundsOK, SharedOK
  <2> QED BY <2>7, <2>8
<1>2. MiningInv /\ QuestTypes /\ FundsOK /\ [Next]_vars => QuestTypes' /\ FundsOK'
  BY QuestTypesStep, FundsStep DEF FundsOK
<1> QED BY <1>1, <1>2, MiningCorrect, PTL DEF Spec

\* The points of every profile are those of its ledger as long as no revocation
\* wrote back a balance it should not have, and one that was not overwritten
\* always covers its reversal while rewards stay as they are and reviews do not
\* overlap: what a quest paid for each approved submission is still there.
THEOREM PointsMatchLedgerCorrect == Spec => []PointsMatchLedger
<1>1. Init => Reviewing /\ Balanced /\ Covered
  <2> SUFFICES ASSUME Init PROVE Reviewing /\ Balanced /\ Covered
    OBVIOUS
  <2>1. /\ points = [u \in Users |-> 0]
        /\ ledger = [u \in Users |-> [gained |-> 0, reversed |-> 0]]
        /\ submissions = [u \in Members |-> [q \in Quests |-> <<>>]]
        /\ lapses = {} /\ reward = FirstReward
        /\ \A r \in Reviewers : reviewer[r].pc = "idle"
    BY DEF Init, Q!QuestsInit, Q!NoReview
  <2>2. ASSUME NEW u \in Members PROVE Approvals(u) = {}
    <3>1. \A q \in Quests : \A i : ~Row(u, q, i, "approved")
      BY <2>1 DEF Row
    <3>2. \A a \in Quests \X Nat : a[1] \in Quests
      OBVIOUS
    <3> QED BY <3>1, <3>2 DEF Approvals
  <2>3. ASSUME NEW u \in Members
        PROVE  IsFiniteSet(Approvals(u)) /\ Total(Earned, Approvals(u)) <= Net(u)
    <3>1. IsFiniteSet(Approvals(u)) /\ Total(Earned, Approvals(u)) = 0
      BY Zenon, <2>2, FS_EmptySet, TotalOfNone
    <3>2. Net(u) = 0
      BY <2>1, RewardsAssumption DEF Net
    <3> QED BY <3>1, <3>2
  <2>4. Reviewing /\ Balanced
    BY <2>1 DEF Reviewing, Balanced
  <2> QED BY <2>1, <2>3, <2>4 DEF Covered
<1>2. QuestTypes /\ FundsOK /\ Reviewing /\ [Next]_vars => Reviewing'
  BY ReviewingStep DEF FundsOK
<1>3. Balanced /\ Covered => PointsMatchLedger
  BY DEF Balanced, Covered, PointsMatchLedger, Without
<1> QED BY <1>1, <1>2, <1>3, BalancedStep, CoveredStep, FundsCorrect, MiningCorrect, PTL DEF Spec

-------------------------------------------------------------------------------
(* One reward for one completion: what a quest, its submissions and the    *)
(* calls at work on them agree on while no two calls overlap.              *)

\* A call is at work on a user's quest.
On(c, u, q) == c.pc # "idle" /\ c.user = u /\ c.quest = q
Waiting(u, q) == \E i : Row(u, q, i, "pending")

QuestOK(u, q) ==
  /\ granted[u][q] = IF status[u][q] = "completed" THEN 1 ELSE 0
  /\ \A i, j :
       /\ Row(u, q, i, "pending") /\ Row(u, q, j, "pending") => i = j
       /\ Row(u, q, i, "approved") /\ Row(u, q, j, "approved") => i = j
  /\ q \notin Automatic =>
       (status[u][q] = "completed" <=> \E i : Row(u, q, i, "approved"))
  /\ Waiting(u, q) =>
       \/ status[u][q] = "pending_verification"
       \/ \E s \in Submitters : On(submitter[s], u, q) /\ submitter[s].pc = "mark"
  /\ \A s \in Submitters : On(submitter[s], u, q) =>
       /\ status[u][q] \notin {"completed", "pending_verification"}
       /\ submitter[s].pc # "open" => status[u][q] = "in_progress"
       /\ submitter[s].pc = "mark" => Waiting(u, q)
  /\ \A r \in Reviewers, i \in Nat : On(reviewer[r], u, q) /\ i = reviewer[r].row =>
       /\ reviewer[r].pc \in {"approve", "reject", "reopen"} =>
            status[u][q] = "pending_verification"
       /\ reviewer[r].pc \in {"approve", "reject"} => Row(u, q, i, "pending")
       /\ reviewer[r].pc = "reopen" => ~Waiting(u, q)
       /\ reviewer[r].pc \in {"revoke", "revoking"} =>
            status[u][q] = "completed" /\ Row(u, q, i, "approved")
  /\ "review_error" \notin scene /\ status[u][q] = "pending_verification" =>
       \/ Waiting(u, q)
       \/ \E r \in Reviewers : On(reviewer[r], u, q) /\ reviewer[r].pc = "reopen"

Alone ==
  /\ \A s, t \in Submitters : submitter[s].pc # "idle" /\ submitter[t].pc # "idle" => s = t
  /\ \A r, o \in Reviewers : reviewer[r].pc # "idle" /\ reviewer[o].pc # "idle" => r = o

QuestsOK ==
  scene \cap Overlaps = {} => Alone /\ \A u \in Members, q \in Quests : QuestOK(u, q)

\* A quest nothing touches stays as it is.
LEMMA QuestKept ==
  ASSUME NEW v \in Members, NEW o \in Quests, QuestOK(v, o), scene' = scene,
         status'[v][o] = status[v][o], granted'[v][o] = granted[v][o],
         \A j, x : Row(v, o, j, x)' <=> Row(v, o, j, x),
         \A s \in Submitters :
           \/ submitter'[s] = submitter[s]
           \/ ~On(submitter[s], v, o) /\ ~On(submitter'[s], v, o),
         \A r \in Reviewers :
           \/ reviewer'[r] = reviewer[r]
           \/ ~On(reviewer[r], v, o) /\ ~On(reviewer'[r], v, o)
  PROVE  QuestOK(v, o)'
<1>1. Waiting(v, o)' <=> Waiting(v, o)
  BY DEF Waiting
<1>2. /\ \A s \in Submitters : On(submitter[s], v, o)' => submitter'[s] = submitter[s]
      /\ \A s \in Submitters : On(submitter[s], v, o) => submitter'[s] = submitter[s]
      /\ \A r \in Reviewers : On(reviewer[r], v, o)' => reviewer'[r] = reviewer[r]
      /\ \A r \in Reviewers : On(reviewer[r], v, o) => reviewer'[r] = reviewer[r]
  OBVIOUS
<1>3. Waiting(v, o)' =>
       \/ status'[v][o] = "pending_verification"
       \/ \E s \in Submitters : On(submitter[s], v, o)' /\ submitter'[s].pc = "mark"
  BY <1>1, <1>2 DEF QuestOK, On
<1>4. \A s \in Submitters : On(submitter[s], v, o)' =>
       /\ status'[v][o] \notin {"completed", "pending_verification"}
       /\ submitter'[s].pc # "open" => status'[v][o] = "in_progress"
       /\ submitter'[s].pc = "mark" => Waiting(v, o)'
  BY <1>1, <1>2 DEF QuestOK, On
<1>5. \A r \in Reviewers, i \in Nat : On(reviewer[r], v, o)' /\ i = reviewer'[r].row =>
       /\ reviewer'[r].pc \in {"approve", "reject", "reopen"} =>
            status'[v][o] = "pending_verification"
       /\ reviewer'[r].pc \in {"approve", "reject"} => Row(v, o, i, "pending")'
       /\ reviewer'[r].pc = "reopen" => ~Waiting(v, o)'
       /\ reviewer'[r].pc \in {"revoke", "revoking"} =>
            status'[v][o] = "completed" /\ Row(v, o, i, "approved")'
  BY <1>1, <1>2 DEF QuestOK, On
<1>6. "review_error" \notin scene' /\ status'[v][o] = "pending_verification" =>
       \/ Waiting(v, o)'
       \/ \E r \in Reviewers : On(reviewer[r], v, o)' /\ reviewer'[r].pc = "reopen"
  BY <1>1, <1>2 DEF QuestOK, On
<1>7. /\ granted'[v][o] = IF status'[v][o] = "completed" THEN 1 ELSE 0
      /\ \A i, j :
           /\ Row(v, o, i, "pending")' /\ Row(v, o, j, "pending")' => i = j
           /\ Row(v, o, i, "approved")' /\ Row(v, o, j, "approved")' => i = j
      /\ o \notin Automatic =>
           (status'[v][o] = "completed" <=> \E i : Row(v, o, i, "approved")')
  BY DEF QuestOK
<1> QED BY <1>3, <1>4, <1>5, <1>6, <1>7 DEF QuestOK

\* A step that moves one user's quest, and calls at work on it, only.
LEMMA OthersKept ==
  ASSUME QuestTypes, scene' = scene, \A v \in Members, o \in Quests : QuestOK(v, o),
         NEW u \in Members, NEW q \in Quests, NEW st, NEW rows, NEW count,
         Moves(u, q, st, rows, count),
         \A s \in Submitters :
           \/ submitter'[s] = submitter[s]
           \/ /\ submitter[s].pc # "idle" => On(submitter[s], u, q)
              /\ submitter'[s].pc # "idle" => On(submitter[s], u, q)',
         \A r \in Reviewers :
           \/ reviewer'[r] = reviewer[r]
           \/ /\ reviewer[r].pc # "idle" => On(reviewer[r], u, q)
              /\ reviewer'[r].pc # "idle" => On(reviewer[r], u, q)',
         QuestOK(u, q)'
  PROVE  \A v \in Members, o \in Quests : QuestOK(v, o)'
<1> SUFFICES ASSUME NEW v \in Members, NEW o \in Quests, ~(v = u /\ o = q)
             PROVE  QuestOK(v, o)'
  OBVIOUS
<1>1. /\ status'[v][o] = status[v][o] /\ granted'[v][o] = granted[v][o]
      /\ submissions'[v][o] = submissions[v][o]
  BY DEF Moves
<1>2. \A j, x : Row(v, o, j, x)' <=> Row(v, o, j, x)
  BY <1>1 DEF Row
<1>3. \A s \in Submitters :
           \/ submitter'[s] = submitter[s]
           \/ ~On(submitter[s], v, o) /\ ~On(submitter'[s], v, o)
  BY DEF On
<1>4. \A r \in Reviewers :
           \/ reviewer'[r] = reviewer[r]
           \/ ~On(reviewer[r], v, o) /\ ~On(reviewer'[r], v, o)
  BY DEF On
<1> QED BY <1>1, <1>2, <1>3, <1>4, QuestKept

\* A submission, from one statement to the next.
LEMMA QuestSubmits ==
  ASSUME QuestTypes, scene' = scene, scene \cap Overlaps = {}, Alone,
         \A v \in Members, o \in Quests : QuestOK(v, o), NEW s \in Submitters,
         Q!OpenUserQuest(s) \/ Q!CreateSubmission(s) \/ Q!MarkPending(s) \/ Q!SubmitError(s)
  PROVE  Alone' /\ \A v \in Members, o \in Quests : QuestOK(v, o)'
<1>0. PICK c : c = submitter[s]
  OBVIOUS
<1> DEFINE u == c.user
           q == c.quest
<1>1. /\ u \in Members /\ q \in Quests \ Automatic /\ reviewer' = reviewer /\ c \in Submits
      /\ \/ /\ c.pc = "open" /\ Moves(u, q, "in_progress", submissions[u][q], granted[u][q])
            /\ SubmitMoves(s, [c EXCEPT !.pc = "create"])
         \/ /\ c.pc = "create"
            /\ Moves(u, q, status[u][q], Append(submissions[u][q], "pending"), granted[u][q])
            /\ SubmitMoves(s, [c EXCEPT !.pc = "mark"])
         \/ /\ c.pc = "mark"
            /\ Moves(u, q, "pending_verification", submissions[u][q], granted[u][q])
            /\ SubmitMoves(s, Q!NoSubmit)
  BY <1>0, SubmitterSteps DEF Overlaps, QuestTypes
<1>2. On(submitter[s], u, q) /\ QuestOK(u, q)
  BY <1>0, <1>1 DEF On
<1>3. \A t \in Submitters : submitter[t].pc # "idle" => t = s
  BY <1>2 DEF Alone, On
<1> HIDE DEF u, q
<1>4. /\ status[u][q] \notin {"completed", "pending_verification"} /\ granted[u][q] = 0
      /\ c.pc # "open" => status[u][q] = "in_progress"
      /\ \A i : ~Row(u, q, i, "approved")
      /\ Waiting(u, q) <=> c.pc = "mark"
  BY <1>0, <1>1, <1>2, <1>3 DEF QuestOK, On
<1>5. \A r \in Reviewers : ~On(reviewer[r], u, q)
  <2>1. \A r \in Reviewers : reviewer[r].row \in Nat /\
          reviewer[r].pc \in {"idle", "approve", "reject", "reopen", "revoke", "revoking"}
    BY DEF QuestTypes, Reviews
  <2> QED BY <1>2, <1>4, <2>1 DEF QuestOK, On
<1>6. \A r \in Reviewers : ~On(reviewer[r], u, q)'
  BY <1>1, <1>5
<1>7. ASSUME NEW st, NEW rows, NEW count, Moves(u, q, st, rows, count),
             \A t \in Submitters : submitter'[t].pc # "idle" => On(submitter[t], u, q)',
             \A t, o \in Submitters : submitter'[t].pc # "idle" /\ submitter'[o].pc # "idle" => t = o,
             QuestOK(u, q)'
      PROVE  Alone' /\ \A v \in Members, o \in Quests : QuestOK(v, o)'
  <2>1. Alone'
    BY <1>1, <1>7 DEF Alone
  <2>2. \A t \in Submitters : submitter[t].pc # "idle" => On(submitter[t], u, q)
    BY <1>2, <1>3
  <2> QED BY <1>1, <1>7, <2>1, <2>2, OthersKept
<1>8. ASSUME NEW state, SubmitMoves(s, state)
      PROVE  \A t \in Submitters : submitter'[t].pc # "idle" => t = s /\ submitter'[t] = state
  BY <1>3, <1>8 DEF SubmitMoves
<1>9. CASE /\ c.pc = "open" /\ Moves(u, q, "in_progress", submissions[u][q], granted[u][q])
           /\ SubmitMoves(s, [c EXCEPT !.pc = "create"])
  <2>0. SameRows
    BY <1>1, <1>9, RowsMove
  <2>1. /\ status'[u][q] = "in_progress" /\ granted'[u][q] = 0
        /\ \A j, x : Row(u, q, j, x)' <=> Row(u, q, j, x)
    BY <1>1, <1>4, <1>9, <2>0 DEF Moves, SameRows
  <2>2. \A t \in Submitters : submitter'[t].pc # "idle" =>
          t = s /\ On(submitter[t], u, q)' /\ submitter'[t].pc = "create"
    BY <1>0, <1>1, <1>2, <1>8, <1>9 DEF On, Submits
  <2>3. ~Waiting(u, q)'
    BY <1>4, <1>9, <2>1 DEF Waiting
  <2>4. QuestOK(u, q)'
    BY <1>1, <1>4, <1>6, <2>1, <2>2, <2>3 DEF QuestOK, On, Waiting
  <2> QED BY <1>7, <1>9, <2>2, <2>4
<1>10. CASE /\ c.pc = "create"
            /\ Moves(u, q, status[u][q], Append(submissions[u][q], "pending"), granted[u][q])
            /\ SubmitMoves(s, [c EXCEPT !.pc = "mark"])
  <2>1. status'[u][q] = "in_progress" /\ granted'[u][q] = 0
    BY <1>1, <1>4, <1>10 DEF Moves
  <2>0. AddsRow(u, q)
    BY <1>1, <1>10, RowsMove
  <2>2. PICK n \in Nat : \A j, x : Row(u, q, j, x)' <=>
                           IF j = n THEN x = "pending" ELSE Row(u, q, j, x)
    BY <1>1, <2>0 DEF AddsRow
  <2>3. \A t \in Submitters : submitter'[t].pc # "idle" =>
          t = s /\ On(submitter[t], u, q)' /\ submitter'[t].pc = "mark"
    BY <1>0, <1>1, <1>2, <1>8, <1>10 DEF On, Submits
  <2>4. /\ \A i : Row(u, q, i, "pending")' <=> i = n
        /\ \A i : ~Row(u, q, i, "approved")'
    BY <1>4, <1>10, <2>2 DEF Waiting
  <2>5. Waiting(u, q)'
    BY <2>4 DEF Waiting
  <2>6. \E t \in Submitters : On(submitter[t], u, q)' /\ submitter'[t].pc = "mark"
    <3>1. submitter'[s].pc = "mark"
      BY <1>1, <1>10 DEF SubmitMoves, Submits
    <3> QED BY <2>3, <3>1
  <2>7. QuestOK(u, q)'
    BY <1>1, <1>6, <2>1, <2>3, <2>4, <2>5, <2>6 DEF QuestOK, On
  <2> QED BY <1>7, <1>10, <2>3, <2>7
<1>11. CASE /\ c.pc = "mark"
            /\ Moves(u, q, "pending_verification", submissions[u][q], granted[u][q])
            /\ SubmitMoves(s, Q!NoSubmit)
  <2>0. SameRows
    BY <1>1, <1>11, RowsMove
  <2>1. /\ status'[u][q] = "pending_verification" /\ granted'[u][q] = 0
        /\ \A j, x : Row(u, q, j, x)' <=> Row(u, q, j, x)
    BY <1>1, <1>4, <1>11, <2>0 DEF Moves, SameRows
  <2>2. \A t \in Submitters : submitter'[t].pc = "idle"
    BY <1>8, <1>11 DEF Q!NoSubmit
  <2>3. Waiting(u, q)'
    BY <1>4, <1>11, <2>1 DEF Waiting
  <2>4. \A i, j : Row(u, q, i, "pending")' /\ Row(u, q, j, "pending")' => i = j
    BY <1>2, <2>1 DEF QuestOK
  <2>5. QuestOK(u, q)'
    BY <1>1, <1>4, <1>6, <2>1, <2>2, <2>3, <2>4 DEF QuestOK, On
  <2> QED BY <1>7, <1>11, <2>2, <2>5
<1> QED BY <1>1, <1>9, <1>10, <1>11

\* How a quest is started, and a submission or a review begun.
LEMMA QuestBegins ==
  ASSUME QuestTypes, scene' = scene, scene \cap Overlaps = {}, Alone,
         \A v \in Members, o \in Quests : QuestOK(v, o), NEW u \in Members, NEW q \in Quests,
         \/ Q!StartQuest(u, q) \/ Q!CompleteAutoQuest(u, q)
         \/ \E s \in Submitters : Q!ReadForSubmit(s, u, q)
         \/ \E r \in Reviewers, i \in 1..MaxSubmissions : Q!BeginReview(r, u, q, i)
  PROVE  Alone' /\ \A v \in Members, o \in Quests : QuestOK(v, o)'
<1>1. QuestOK(u, q)
  OBVIOUS
<1>2. \A r \in Reviewers : reviewer[r].row \in Nat /\
        reviewer[r].pc \in {"idle", "approve", "reject", "reopen", "revoke", "revoking"}
  BY DEF QuestTypes, Reviews
<1>3. ASSUME UNCHANGED <<submitter, reviewer>>, NEW st, NEW count,
             Moves(u, q, st, submissions[u][q], count), QuestOK(u, q)'
      PROVE  Alone' /\ \A v \in Members, o \in Quests : QuestOK(v, o)'
  BY <1>3, OthersKept DEF Alone
<1>4. ASSUME NEW st, NEW count, Moves(u, q, st, submissions[u][q], count)
      PROVE  /\ status'[u][q] = st /\ granted'[u][q] = count
             /\ \A j, x : Row(u, q, j, x)' <=> Row(u, q, j, x)
             /\ Waiting(u, q)' <=> Waiting(u, q)
  <2>1. SameRows
    BY <1>4, RowsMove
  <2>2. status'[u][q] = st /\ granted'[u][q] = count
    BY <1>4 DEF Moves
  <2> QED BY <2>1, <2>2 DEF SameRows, Waiting
<1>5. CASE /\ Q!StartQuest(u, q) /\ UNCHANGED <<submitter, reviewer>>
           /\ Moves(u, q, "in_progress", submissions[u][q], granted[u][q])
  <2>1. status[u][q] = "none"
    BY <1>5 DEF Q!StartQuest
  <2>2. /\ status'[u][q] = "in_progress" /\ granted'[u][q] = granted[u][q]
        /\ \A j, x : Row(u, q, j, x)' <=> Row(u, q, j, x)
        /\ Waiting(u, q)' <=> Waiting(u, q)
    BY <1>4, <1>5
  <2>3. \A r \in Reviewers : ~On(reviewer[r], u, q)
    BY <1>1, <1>2, <2>1 DEF QuestOK, On
  <2>4. \A r \in Reviewers : ~On(reviewer[r], u, q)'
    BY <1>5, <2>3
  <2>5. Waiting(u, q)' =>
          \E s \in Submitters : On(submitter[s], u, q)' /\ submitter'[s].pc = "mark"
    BY <1>1, <1>5, <2>1, <2>2 DEF QuestOK, On
  <2>6. \A s \in Submitters : On(submitter[s], u, q)' /\ submitter'[s].pc = "mark" => Waiting(u, q)'
    BY <1>1, <1>5, <2>2 DEF QuestOK, On
  <2>7. QuestOK(u, q)'
    BY <1>1, <2>1, <2>2, <2>4, <2>5, <2>6 DEF QuestOK
  <2> QED BY <1>3, <1>5, <2>7
<1>6. CASE /\ Q!CompleteAutoQuest(u, q) /\ UNCHANGED <<submitter, reviewer>>
           /\ Moves(u, q, "completed", submissions[u][q], granted[u][q] + 1)
  <2>1. q \in Automatic /\ status[u][q] # "completed"
    BY <1>6 DEF Q!CompleteAutoQuest, Q!NotYet
  <2>2. /\ status'[u][q] = "completed" /\ granted'[u][q] = 1
        /\ \A j, x : Row(u, q, j, x)' <=> Row(u, q, j, x)
    BY <1>1, <1>4, <1>6, <2>1 DEF QuestOK
  <2>3. \A j, x : ~Row(u, q, j, x)
    BY <2>1 DEF QuestTypes, Row
  <2>4. /\ \A r \in Reviewers : ~On(reviewer[r], u, q)
        /\ \A s \in Submitters : ~On(submitter[s], u, q)
    <3>1. ASSUME NEW r \in Reviewers, On(reviewer[r], u, q) PROVE FALSE
      <4>1. reviewer[r].row \in 1..Len(submissions[u][q])
        BY <3>1 DEF QuestTypes, On
      <4>2. Len(submissions[u][q]) = 0
        BY <2>1 DEF QuestTypes
      <4> QED BY <4>1, <4>2
    <3>2. \A s \in Submitters : ~On(submitter[s], u, q)
      BY <2>1 DEF QuestTypes, On
    <3> QED BY <3>1, <3>2
  <2>5. /\ \A r \in Reviewers : ~On(reviewer[r], u, q)'
        /\ \A s \in Submitters : ~On(submitter[s], u, q)'
    BY <1>6, <2>4
  <2>6. ~Waiting(u, q)'
    BY <2>2, <2>3 DEF Waiting
  <2>7. QuestOK(u, q)'
    BY <2>1, <2>2, <2>3, <2>5, <2>6 DEF QuestOK
  <2> QED BY <1>3, <1>6, <2>7
<1>7. ASSUME NEW s \in Submitters, Q!ReadForSubmit(s, u, q), reviewer' = reviewer,
             Moves(u, q, status[u][q], submissions[u][q], granted[u][q]),
             SubmitMoves(s, [pc |-> "open", user |-> u, quest |-> q])
      PROVE  Alone' /\ \A v \in Members, o \in Quests : QuestOK(v, o)'
  <2>1. /\ \A t \in Submitters : submitter[t].pc = "idle"
        /\ status[u][q] \notin {"completed", "pending_verification"}
    BY <1>7 DEF Q!ReadForSubmit, Q!MaySubmit, Overlaps
  <2>2. \A t \in Submitters : submitter'[t].pc # "idle" =>
          t = s /\ On(submitter[t], u, q)' /\ submitter'[t].pc = "open"
    BY <1>7, <2>1 DEF SubmitMoves, On
  <2>3. /\ status'[u][q] = status[u][q] /\ granted'[u][q] = granted[u][q]
        /\ \A j, x : Row(u, q, j, x)' <=> Row(u, q, j, x)
        /\ Waiting(u, q)' <=> Waiting(u, q)
    BY <1>4, <1>7
  <2>4. ~Waiting(u, q)
    BY <1>1, <2>1 DEF QuestOK, On
  <2>5. \A r \in Reviewers : ~On(reviewer[r], u, q)
    BY <1>1, <1>2, <2>1 DEF QuestOK, On
  <2>6. \A r \in Reviewers : ~On(reviewer[r], u, q)'
    BY <1>7, <2>5
  <2>7. QuestOK(u, q)'
    BY <1>1, <2>1, <2>2, <2>3, <2>4, <2>6 DEF QuestOK, On
  <2>8. Alone'
    BY <1>7, <2>2 DEF Alone
  <2>9. \A t \in Submitters :
           \/ submitter'[t] = submitter[t]
           \/ /\ submitter[t].pc # "idle" => On(submitter[t], u, q)
              /\ submitter'[t].pc # "idle" => On(submitter[t], u, q)'
    BY <2>1, <2>2
  <2> QED BY <1>7, <2>7, <2>8, <2>9, OthersKept
<1>8. ASSUME NEW r \in Reviewers, NEW i \in 1..Len(submissions[u][q]),
             NEW decision \in {"approve", "reject", "revoke"}, NEW state \in Reviews,
             Q!BeginReview(r, u, q, i), submitter' = submitter, q \notin Automatic,
             IF decision = "revoke" THEN submissions[u][q][i] = "approved"
             ELSE submissions[u][q][i] = "pending",
             Moves(u, q, status[u][q], submissions[u][q], granted[u][q]),
             ReviewMoves(r, state), state.pc = decision, state.user = u,
             state.quest = q, state.row = i
      PROVE  Alone' /\ \A v \in Members, o \in Quests : QuestOK(v, o)'
  <2>1. \A o \in Reviewers : reviewer[o].pc = "idle"
    BY <1>8 DEF Q!BeginReview, Overlaps
  <2>2. ASSUME NEW s \in Submitters, On(submitter[s], u, q), submitter[s].pc = "mark" PROVE FALSE
    <3>1. submitter[s] = [pc |-> "mark", user |-> u, quest |-> q]
      BY <2>2 DEF QuestTypes, Submits, On
    <3> QED BY <1>8, <3>1 DEF Q!BeginReview, Overlaps
  <2>3. \A o \in Reviewers : reviewer'[o].pc # "idle" => o = r /\ reviewer'[o] = state
    BY <1>8, <2>1 DEF ReviewMoves
  <2>4. /\ status'[u][q] = status[u][q] /\ granted'[u][q] = granted[u][q]
        /\ \A j, x : Row(u, q, j, x)' <=> Row(u, q, j, x)
        /\ Waiting(u, q)' <=> Waiting(u, q)
    BY <1>4, <1>8
  <2>5. Row(u, q, i, IF decision = "revoke" THEN "approved" ELSE "pending")
    BY <1>8 DEF Row
  <2>6. IF decision = "revoke" THEN status[u][q] = "completed"
        ELSE status[u][q] = "pending_verification"
    BY <1>1, <1>8, <2>2, <2>5 DEF QuestOK, Waiting
  <2>7. \A o \in Reviewers, k \in Nat : On(reviewer[o], u, q)' /\ k = reviewer'[o].row =>
       /\ reviewer'[o].pc \in {"approve", "reject", "reopen"} =>
            status'[u][q] = "pending_verification"
       /\ reviewer'[o].pc \in {"approve", "reject"} => Row(u, q, k, "pending")'
       /\ reviewer'[o].pc = "reopen" => ~Waiting(u, q)'
       /\ reviewer'[o].pc \in {"revoke", "revoking"} =>
            status'[u][q] = "completed" /\ Row(u, q, k, "approved")'
    BY <1>8, <2>3, <2>4, <2>5, <2>6 DEF On
  <2>8. \A s \in Submitters : On(submitter[s], u, q)' <=> On(submitter[s], u, q)
    BY <1>8
  <2>9. \A s \in Submitters : submitter'[s] = submitter[s]
    BY <1>8
  <2>10. Waiting(u, q)' =>
        \/ status'[u][q] = "pending_verification"
        \/ \E s \in Submitters : On(submitter[s], u, q)' /\ submitter'[s].pc = "mark"
    BY <1>1, <2>4, <2>8, <2>9 DEF QuestOK
  <2>11. \A s \in Submitters : On(submitter[s], u, q)' =>
       /\ status'[u][q] \notin {"completed", "pending_verification"}
       /\ submitter'[s].pc # "open" => status'[u][q] = "in_progress"
       /\ submitter'[s].pc = "mark" => Waiting(u, q)'
    BY <1>1, <2>4, <2>8, <2>9 DEF QuestOK
  <2>12. "review_error" \notin scene' /\ status'[u][q] = "pending_verification" => Waiting(u, q)'
    BY <1>1, <2>1, <2>4 DEF QuestOK, On
  <2>13. /\ granted'[u][q] = IF status'[u][q] = "completed" THEN 1 ELSE 0
         /\ \A j, k :
              /\ Row(u, q, j, "pending")' /\ Row(u, q, k, "pending")' => j = k
              /\ Row(u, q, j, "approved")' /\ Row(u, q, k, "approved")' => j = k
         /\ q \notin Automatic =>
              (status'[u][q] = "completed" <=> \E j : Row(u, q, j, "approved")')
    BY <1>1, <2>4 DEF QuestOK
  <2>14. QuestOK(u, q)'
    BY <2>7, <2>10, <2>11, <2>12, <2>13 DEF QuestOK
  <2>15. Alone'
    BY <1>8, <2>3 DEF Alone
  <2>16. \A o \in Reviewers :
           \/ reviewer'[o] = reviewer[o]
           \/ /\ reviewer[o].pc # "idle" => On(reviewer[o], u, q)
              /\ reviewer'[o].pc # "idle" => On(reviewer[o], u, q)'
    BY <1>8, <2>1, <2>3 DEF On
  <2> QED BY <1>8, <2>14, <2>15, <2>16, OthersKept
<1>9. \/ /\ Q!StartQuest(u, q) /\ UNCHANGED <<submitter, reviewer>>
         /\ Moves(u, q, "in_progress", submissions[u][q], granted[u][q])
      \/ /\ Q!CompleteAutoQuest(u, q) /\ UNCHANGED <<submitter, reviewer>>
         /\ Moves(u, q, "completed", submissions[u][q], granted[u][q] + 1)
      \/ /\ reviewer' = reviewer
         /\ Moves(u, q, status[u][q], submissions[u][q], granted[u][q])
         /\ \E s \in Submitters :
              /\ Q!ReadForSubmit(s, u, q)
              /\ SubmitMoves(s, [pc |-> "open", user |-> u, quest |-> q])
      \/ /\ submitter' = submitter /\ q \notin Automatic
         /\ Moves(u, q, status[u][q], submissions[u][q], granted[u][q])
         /\ \E r \in Reviewers, i \in 1..Len(submissions[u][q]),
               decision \in {"approve", "reject", "revoke"}, state \in Reviews :
              /\ Q!BeginReview(r, u, q, i)
              /\ IF decision = "revoke" THEN submissions[u][q][i] = "approved"
                 ELSE submissions[u][q][i] = "pending"
              /\ ReviewMoves(r, state) /\ state.pc = decision /\ state.user = u
              /\ state.quest = q /\ state.row = i /\ state.reward = reward[q]
  BY BeginSteps
<1> QED BY <1>5, <1>6, <1>7, <1>8, <1>9

\* A review, from one statement to the next.
LEMMA QuestReviews ==
  ASSUME QuestTypes, SharedOK, scene' = scene, scene \cap Overlaps = {}, Alone,
         \A v \in Members, o \in Quests : QuestOK(v, o), NEW r \in Reviewers,
         \/ Q!Approve(r) \/ Q!RejectSubmission(r) \/ Q!ReopenQuest(r)
         \/ Q!RevokeRead(r) \/ Q!RevokeCommit(r) \/ Q!ReviewError(r)
  PROVE  Alone' /\ \A v \in Members, o \in Quests : QuestOK(v, o)'
<1>0. PICK c : c = reviewer[r]
  OBVIOUS
<1> DEFINE u == c.user
           q == c.quest
           i == c.row
<1>1. /\ u \in Members /\ q \in Quests \ Automatic /\ submitter' = submitter /\ c \in Reviews
      /\ i \in 1..Len(submissions[u][q])
      /\ \/ /\ c.pc = "approve" /\ ReviewMoves(r, Q!NoReview)
            /\ Moves(u, q, "completed", [submissions[u][q] EXCEPT ![i] = "approved"],
                     granted[u][q] + 1)
         \/ /\ c.pc = "reject" /\ ReviewMoves(r, [c EXCEPT !.pc = "reopen"])
            /\ Moves(u, q, status[u][q], [submissions[u][q] EXCEPT ![i] = "rejected"],
                     granted[u][q])
         \/ /\ c.pc = "reopen" /\ ReviewMoves(r, Q!NoReview)
            /\ Moves(u, q, "in_progress", submissions[u][q], granted[u][q])
         \/ /\ c.pc = "revoke"
            /\ ReviewMoves(r, [c EXCEPT !.pc = "revoking", !.balance = points[u]])
            /\ Moves(u, q, status[u][q], submissions[u][q], granted[u][q])
         \/ /\ c.pc = "revoking" /\ ReviewMoves(r, Q!NoReview)
            /\ Moves(u, q, "in_progress", [submissions[u][q] EXCEPT ![i] = "rejected"],
                     granted[u][q] - 1)
         \/ /\ "review_error" \in scene /\ c.pc # "idle" /\ ReviewMoves(r, Q!NoReview)
            /\ Moves(u, q, status[u][q], submissions[u][q], granted[u][q])
  <2>1. Q!ReviewError(r) => reviewer[r].pc # "idle"
    BY DEF Q!ReviewError
  <2>2. c \in Reviews
    BY <1>0 DEF QuestTypes
  <2>3. LET v == reviewer[r].user
             o == reviewer[r].quest
             rows == submissions[v][o]
             j == reviewer[r].row
         IN
         /\ submitter' = submitter
         /\ v \in Members /\ o \in Quests \ Automatic /\ j \in 1..Len(rows)
         /\ \/ /\ reviewer[r].pc = "approve"
               /\ Moves(v, o, "completed", [rows EXCEPT ![j] = "approved"], granted[v][o] + 1)
               /\ ReviewMoves(r, Q!NoReview)
            \/ /\ reviewer[r].pc = "reject"
               /\ Moves(v, o, status[v][o], [rows EXCEPT ![j] = "rejected"], granted[v][o])
               /\ ReviewMoves(r, [reviewer[r] EXCEPT !.pc = "reopen"])
            \/ /\ reviewer[r].pc = "reopen"
               /\ Moves(v, o, "in_progress", rows, granted[v][o])
               /\ ReviewMoves(r, Q!NoReview)
            \/ /\ reviewer[r].pc = "revoke"
               /\ Moves(v, o, status[v][o], rows, granted[v][o])
               /\ ReviewMoves(r, [reviewer[r] EXCEPT !.pc = "revoking", !.balance = points[v]])
            \/ /\ reviewer[r].pc = "revoking"
               /\ Moves(v, o, "in_progress", [rows EXCEPT ![j] = "rejected"], granted[v][o] - 1)
               /\ ReviewMoves(r, Q!NoReview)
            \/ /\ Q!ReviewError(r) /\ "review_error" \in scene
               /\ Moves(v, o, status[v][o], rows, granted[v][o])
               /\ ReviewMoves(r, Q!NoReview)
    BY ReviewerSteps
  <2> QED BY <1>0, <2>1, <2>2, <2>3
<1>2. /\ On(reviewer[r], u, q) /\ QuestOK(u, q) /\ i \in Nat
      /\ c.pc \in {"approve", "reject", "reopen", "revoke", "revoking"}
  BY <1>0, <1>1 DEF On, Reviews
<1>3. \A o \in Reviewers : reviewer[o].pc # "idle" => o = r
  BY <1>2 DEF Alone, On
<1>4. /\ \A st, count : Moves(u, q, st, submissions[u][q], count) => SameRows
      /\ \A st, count, w : /\ w \in Verdicts
                           /\ Moves(u, q, st, [submissions[u][q] EXCEPT ![i] = w], count)
                           => SetsRow(u, q, i, w)
  BY <1>1, RowsMove
<1>5. "approved" \in Verdicts /\ "rejected" \in Verdicts
  BY DEF Verdicts
<1> HIDE DEF u, q, i
<1>6. /\ c.pc \in {"approve", "reject", "reopen"} =>
           status[u][q] = "pending_verification" /\ granted[u][q] = 0
      /\ c.pc \in {"approve", "reject"} => Row(u, q, i, "pending")
      /\ c.pc = "reopen" => ~Waiting(u, q)
      /\ c.pc \in {"revoke", "revoking"} =>
           status[u][q] = "completed" /\ Row(u, q, i, "approved") /\ granted[u][q] = 1
  <2>1. i = c.row
    BY DEF i
  <2> QED BY <1>0, <1>2, <2>1 DEF QuestOK
<1>7. \A s \in Submitters : ~On(submitter[s], u, q)
  BY <1>2, <1>6 DEF QuestOK
<1>8. \A s \in Submitters : ~On(submitter[s], u, q)'
  BY <1>1, <1>7
<1>9. /\ \A j, k : /\ Row(u, q, j, "pending") /\ Row(u, q, k, "pending") => j = k
                   /\ Row(u, q, j, "approved") /\ Row(u, q, k, "approved") => j = k
      /\ status[u][q] = "completed" <=> \E j : Row(u, q, j, "approved")
      /\ Waiting(u, q) => status[u][q] = "pending_verification"
  BY <1>1, <1>2, <1>7 DEF QuestOK
<1>10. \A j : Row(u, q, j, "pending") => ~Row(u, q, j, "approved")
  BY DEF Row
<1>11. ASSUME NEW st, NEW rows, NEW count, Moves(u, q, st, rows, count),
              \A o \in Reviewers : reviewer'[o].pc # "idle" => o = r /\ On(reviewer[o], u, q)',
              QuestOK(u, q)'
       PROVE  Alone' /\ \A v \in Members, o \in Quests : QuestOK(v, o)'
  <2>1. Alone'
    BY <1>1, <1>11 DEF Alone
  <2>2. \A o \in Reviewers : reviewer[o].pc # "idle" => On(reviewer[o], u, q)
    BY <1>2, <1>3
  <2> QED BY <1>1, <1>11, <2>1, <2>2, OthersKept
<1>12. ASSUME NEW state, ReviewMoves(r, state)
       PROVE  \A o \in Reviewers : reviewer'[o].pc # "idle" => o = r /\ reviewer'[o] = state
  BY <1>3, <1>12 DEF ReviewMoves
<1>13. ASSUME ReviewMoves(r, Q!NoReview)
       PROVE  \A o \in Reviewers : reviewer'[o].pc = "idle"
  BY <1>12, <1>13 DEF Q!NoReview
<1>14. ASSUME NEW st, NEW rows, NEW count, Moves(u, q, st, rows, count)
       PROVE  status'[u][q] = st /\ granted'[u][q] = count
  BY <1>1, <1>14 DEF Moves
<1>15. ASSUME NEW w, SetsRow(u, q, i, w)
       PROVE  \A j, x : Row(u, q, j, x)' <=> IF j = i THEN x = w ELSE Row(u, q, j, x)
  BY <1>1, <1>15 DEF SetsRow
<1>16. ASSUME SameRows
       PROVE  \A j, x : Row(u, q, j, x)' <=> Row(u, q, j, x)
  BY <1>1, <1>16 DEF SameRows
<1>17. CASE /\ c.pc = "approve" /\ ReviewMoves(r, Q!NoReview)
            /\ Moves(u, q, "completed", [submissions[u][q] EXCEPT ![i] = "approved"],
                     granted[u][q] + 1)
  <2>1. status'[u][q] = "completed" /\ granted'[u][q] = 1
    BY <1>6, <1>14, <1>17
  <2>2. \A j, x : Row(u, q, j, x)' <=> IF j = i THEN x = "approved" ELSE Row(u, q, j, x)
    BY <1>4, <1>5, <1>15, <1>17
  <2>3. (\A j : ~Row(u, q, j, "pending")') /\ (\A j : Row(u, q, j, "approved")' <=> j = i)
    BY <1>6, <1>9, <1>17, <2>2
  <2>4. ~Waiting(u, q)'
    BY <2>3 DEF Waiting
  <2>5. \A o \in Reviewers : ~On(reviewer[o], u, q)'
    BY <1>13, <1>17 DEF On
  <2>6. QuestOK(u, q)'
    <3>1. /\ \A j, k :
               /\ Row(u, q, j, "pending")' /\ Row(u, q, k, "pending")' => j = k
               /\ Row(u, q, j, "approved")' /\ Row(u, q, k, "approved")' => j = k
          /\ \E j : Row(u, q, j, "approved")'
      BY <2>3
    <3> QED BY <1>8, <2>1, <2>3, <2>4, <2>5, <3>1 DEF QuestOK
  <2> QED BY <1>11, <1>13, <1>17, <2>6
<1>18. CASE /\ c.pc = "reject" /\ ReviewMoves(r, [c EXCEPT !.pc = "reopen"])
            /\ Moves(u, q, status[u][q], [submissions[u][q] EXCEPT ![i] = "rejected"],
                     granted[u][q])
  <2>1. status'[u][q] = "pending_verification" /\ granted'[u][q] = 0
    BY <1>6, <1>14, <1>18
  <2>2. \A j, x : Row(u, q, j, x)' <=> IF j = i THEN x = "rejected" ELSE Row(u, q, j, x)
    BY <1>4, <1>5, <1>15, <1>18
  <2>3. (\A j : ~Row(u, q, j, "pending")') /\ (\A j : ~Row(u, q, j, "approved")')
    BY <1>6, <1>9, <1>18, <2>2
  <2>4. ~Waiting(u, q)'
    BY <2>3 DEF Waiting
  <2>5. \A o \in Reviewers : reviewer'[o].pc # "idle" =>
          o = r /\ On(reviewer[o], u, q)' /\ reviewer'[o].pc = "reopen"
    BY <1>0, <1>1, <1>2, <1>12, <1>18 DEF On, Reviews
  <2>6. \E o \in Reviewers : On(reviewer[o], u, q)' /\ reviewer'[o].pc = "reopen"
    <3>1. reviewer'[r].pc = "reopen"
      BY <1>1, <1>18 DEF ReviewMoves, Reviews
    <3> QED BY <2>5, <3>1
  <2>7. QuestOK(u, q)'
    BY <1>1, <1>8, <2>1, <2>3, <2>4, <2>5, <2>6 DEF QuestOK, On
  <2> QED BY <1>11, <1>18, <2>5, <2>7
<1>19. CASE /\ c.pc = "reopen" /\ ReviewMoves(r, Q!NoReview)
            /\ Moves(u, q, "in_progress", submissions[u][q], granted[u][q])
  <2>1. status'[u][q] = "in_progress" /\ granted'[u][q] = 0
    BY <1>6, <1>14, <1>19
  <2>2. \A j, x : Row(u, q, j, x)' <=> Row(u, q, j, x)
    BY <1>4, <1>16, <1>19
  <2>3. (\A j : ~Row(u, q, j, "pending")') /\ (\A j : ~Row(u, q, j, "approved")')
    BY <1>6, <1>9, <1>19, <2>2 DEF Waiting
  <2>4. ~Waiting(u, q)'
    BY <2>3 DEF Waiting
  <2>5. \A o \in Reviewers : ~On(reviewer[o], u, q)'
    BY <1>13, <1>19 DEF On
  <2>6. QuestOK(u, q)'
    BY <1>1, <1>8, <2>1, <2>3, <2>4, <2>5 DEF QuestOK
  <2> QED BY <1>11, <1>13, <1>19, <2>6
<1>20. CASE /\ c.pc = "revoke"
            /\ ReviewMoves(r, [c EXCEPT !.pc = "revoking", !.balance = points[u]])
            /\ Moves(u, q, status[u][q], submissions[u][q], granted[u][q])
  <2>1. status'[u][q] = "completed" /\ granted'[u][q] = 1
    BY <1>6, <1>14, <1>20
  <2>2. \A j, x : Row(u, q, j, x)' <=> Row(u, q, j, x)
    BY <1>4, <1>16, <1>20
  <2>3. /\ \A j : ~Row(u, q, j, "pending")' /\ (Row(u, q, j, "approved")' <=> j = i)
    BY <1>6, <1>9, <1>20, <2>2 DEF Waiting
  <2>4. ~Waiting(u, q)'
    BY <2>3 DEF Waiting
  <2>5. \A o \in Reviewers : reviewer'[o].pc # "idle" =>
          /\ o = r /\ On(reviewer[o], u, q)' /\ reviewer'[o].pc = "revoking"
          /\ reviewer'[o].row = i
    <3> DEFINE b == points[u]
               state == [c EXCEPT !.pc = "revoking", !.balance = b]
    <3>1. /\ state.pc = "revoking" /\ state.row = c.row /\ state.user = c.user
          /\ state.quest = c.quest
      BY <1>1 DEF Reviews
    <3>2. \A o \in Reviewers : reviewer'[o].pc # "idle" => o = r /\ reviewer'[o] = state
      BY <1>12, <1>20
    <3> HIDE DEF state
    <3> QED BY <3>1, <3>2 DEF On, u, q, i
  <2>6. QuestOK(u, q)'
    <3>1. /\ \A j, k :
               /\ Row(u, q, j, "pending")' /\ Row(u, q, k, "pending")' => j = k
               /\ Row(u, q, j, "approved")' /\ Row(u, q, k, "approved")' => j = k
          /\ \E j : Row(u, q, j, "approved")'
      BY <2>3
    <3> QED BY <1>8, <2>1, <2>3, <2>4, <2>5, <3>1 DEF QuestOK, On
  <2> QED BY <1>11, <1>20, <2>5, <2>6
<1>21. CASE /\ c.pc = "revoking" /\ ReviewMoves(r, Q!NoReview)
            /\ Moves(u, q, "in_progress", [submissions[u][q] EXCEPT ![i] = "rejected"],
                     granted[u][q] - 1)
  <2>1. status'[u][q] = "in_progress" /\ granted'[u][q] = 0
    BY <1>6, <1>14, <1>21
  <2>2. \A j, x : Row(u, q, j, x)' <=> IF j = i THEN x = "rejected" ELSE Row(u, q, j, x)
    BY <1>4, <1>5, <1>15, <1>21
  <2>3. (\A j : ~Row(u, q, j, "pending")') /\ (\A j : ~Row(u, q, j, "approved")')
    BY <1>6, <1>9, <1>21, <2>2 DEF Waiting
  <2>4. ~Waiting(u, q)'
    BY <2>3 DEF Waiting
  <2>5. \A o \in Reviewers : ~On(reviewer[o], u, q)'
    BY <1>13, <1>21 DEF On
  <2>6. QuestOK(u, q)'
    BY <1>1, <1>8, <2>1, <2>3, <2>4, <2>5 DEF QuestOK
  <2> QED BY <1>11, <1>13, <1>21, <2>6
<1>22. CASE /\ "review_error" \in scene /\ ReviewMoves(r, Q!NoReview)
            /\ Moves(u, q, status[u][q], submissions[u][q], granted[u][q])
  <2>1. status'[u][q] = status[u][q] /\ granted'[u][q] = granted[u][q]
    BY <1>14, <1>22
  <2>2. \A j, x : Row(u, q, j, x)' <=> Row(u, q, j, x)
    BY <1>4, <1>16, <1>22
  <2>3. Waiting(u, q)' <=> Waiting(u, q)
    BY <2>2 DEF Waiting
  <2>4. \A o \in Reviewers : ~On(reviewer[o], u, q)'
    BY <1>13, <1>22 DEF On
  <2>5. "review_error" \in scene'
    BY <1>22
  <2>6. granted'[u][q] = IF status'[u][q] = "completed" THEN 1 ELSE 0
    BY <1>2, <2>1 DEF QuestOK
  <2>7. QuestOK(u, q)'
    BY <1>8, <1>9, <2>1, <2>2, <2>3, <2>4, <2>5, <2>6 DEF QuestOK
  <2> QED BY <1>11, <1>13, <1>22, <2>7
<1> QED BY <1>1, <1>17, <1>18, <1>19, <1>20, <1>21, <1>22 DEF u, q, i

LEMMA QuestsStep == QuestTypes /\ FundsOK /\ QuestsOK /\ [Next]_vars => QuestsOK'
<1> SUFFICES ASSUME QuestTypes, FundsOK, QuestsOK, [Next]_vars PROVE QuestsOK'
  OBVIOUS
<1>0. scene' = scene
  BY DEF Next, vars
<1> SUFFICES ASSUME scene \cap Overlaps = {} PROVE QuestsOK'
  BY <1>0 DEF QuestsOK
<1>1. /\ SharedOK /\ Alone
      /\ \A v \in Members, o \in Quests : QuestOK(v, o)
  BY DEF QuestsOK, FundsOK
<1>2. CASE UNCHANGED <<status, submissions, granted, submitter, reviewer>>
  <2>1. ASSUME NEW v \in Members, NEW o \in Quests PROVE QuestOK(v, o)'
    <3>1. \A j, x : Row(v, o, j, x)' <=> Row(v, o, j, x)
      BY <1>2 DEF Row
    <3> QED BY <1>0, <1>1, <1>2, <3>1, QuestKept
  <2> QED BY <1>1, <1>2, <2>1 DEF QuestsOK, Alone
<1>3. ASSUME NEW q \in Quests, NEW gain \in RewardPoints,
             NEW badge \in Badges \cup {NoBadge}, Q!EditReward(q, gain, badge)
      PROVE  QuestsOK'
  BY <1>2, <1>3 DEF Q!EditReward, Q!progress
<1>4. ASSUME Alone' /\ \A v \in Members, o \in Quests : QuestOK(v, o)' PROVE QuestsOK'
  BY <1>4 DEF QuestsOK
<1>5. CASE Q!QuestStep
  <2>1. ASSUME NEW u \in Members, NEW q \in Quests,
               \/ Q!StartQuest(u, q) \/ Q!CompleteAutoQuest(u, q)
               \/ \E s \in Submitters : Q!ReadForSubmit(s, u, q)
               \/ \E r \in Reviewers, i \in 1..MaxSubmissions : Q!BeginReview(r, u, q, i)
        PROVE  QuestsOK'
    BY <1>0, <1>1, <1>4, <2>1, QuestBegins
  <2>2. ASSUME NEW s \in Submitters,
               Q!OpenUserQuest(s) \/ Q!CreateSubmission(s) \/ Q!MarkPending(s) \/ Q!SubmitError(s)
        PROVE  QuestsOK'
    BY <1>0, <1>1, <1>4, <2>2, QuestSubmits
  <2>3. ASSUME NEW r \in Reviewers,
               \/ Q!Approve(r) \/ Q!RejectSubmission(r) \/ Q!ReopenQuest(r)
               \/ Q!RevokeRead(r) \/ Q!RevokeCommit(r) \/ Q!ReviewError(r)
        PROVE  QuestsOK'
    BY <1>0, <1>1, <1>4, <2>3, QuestReviews
  <2> QED BY <1>3, <1>5, <2>1, <2>2, <2>3 DEF Q!QuestStep
<1>6. CASE Q!BadgeStep
  BY <1>2, <1>6 DEF Q!BadgeStep, Q!progress
<1> QED BY <1>2, <1>5, <1>6 DEF Next, vars, questVars

LEMMA QuestsCorrect == Spec => []QuestsOK
<1>1. Init => QuestsOK
  <2> SUFFICES ASSUME Init PROVE QuestsOK
    OBVIOUS
  <2>1. /\ status = [u \in Members |-> [q \in Quests |-> "none"]]
        /\ submissions = [u \in Members |-> [q \in Quests |-> <<>>]]
        /\ granted = [u \in Members |-> [q \in Quests |-> 0]]
        /\ \A s \in Submitters : submitter[s].pc = "idle"
        /\ \A r \in Reviewers : reviewer[r].pc = "idle"
    BY DEF Init, Q!QuestsInit, Q!NoSubmit, Q!NoReview
  <2>2. ASSUME NEW u \in Members, NEW q \in Quests PROVE QuestOK(u, q)
    <3>1. \A i, x : ~Row(u, q, i, x)
      BY <2>1 DEF Row
    <3>2. ~Waiting(u, q)
      BY <3>1 DEF Waiting
    <3> QED BY <2>1, <3>1, <3>2 DEF QuestOK, On
  <2> QED BY <2>1, <2>2 DEF QuestsOK, Alone
<1> QED BY <1>1, QuestsStep, FundsCorrect, PTL DEF Spec

\* Through any number of submissions, rejections and revocations, and reviews
\* that failed half way, a user was granted a quest's reward once if he has
\* completed it, and not at all if he has not.
THEOREM RewardedOnceCorrect == Spec => []RewardedOnce
<1>1. QuestsOK => RewardedOnce
  BY DEF QuestsOK, QuestOK, RewardedOnce, Without
<1> QED BY <1>1, QuestsCorrect, PTL

\* Between calls a quest is waiting for its verification exactly when one of
\* its submissions is pending, and completed exactly when one is approved.
THEOREM SubmissionsAgreeCorrect == Spec => []SubmissionsAgree
<1>1. QuestTypes /\ QuestsOK => SubmissionsAgree
  <2> SUFFICES ASSUME QuestTypes, QuestsOK, Without(Overlaps \cup {"review_error"}),
                      NEW u \in Members, NEW q \in Quests \ Automatic, ~Touched(u, q)
               PROVE  /\ Cardinality(WithVerdict(u, q, "pending")) =
                           (IF status[u][q] = "pending_verification" THEN 1 ELSE 0)
                      /\ Cardinality(WithVerdict(u, q, "approved")) =
                           (IF status[u][q] = "completed" THEN 1 ELSE 0)
    BY DEF SubmissionsAgree
  <2>1. scene \cap Overlaps = {} /\ "review_error" \notin scene
    BY DEF Without
  <2>2. QuestOK(u, q)
    BY <2>1 DEF QuestsOK
  <2>3. /\ \A s \in Submitters : ~On(submitter[s], u, q)
        /\ \A r \in Reviewers : ~On(reviewer[r], u, q)
    BY DEF Touched, On
  <2>4. /\ Waiting(u, q) <=> status[u][q] = "pending_verification"
        /\ status[u][q] = "completed" <=> \E i : Row(u, q, i, "approved")
        /\ \A i, j : /\ Row(u, q, i, "pending") /\ Row(u, q, j, "pending") => i = j
                     /\ Row(u, q, i, "approved") /\ Row(u, q, j, "approved") => i = j
    BY <2>1, <2>2, <2>3 DEF QuestOK
  <2>5. ASSUME NEW x, \A i, j : Row(u, q, i, x) /\ Row(u, q, j, x) => i = j
        PROVE  Cardinality(WithVerdict(u, q, x)) = IF \E i : Row(u, q, i, x) THEN 1 ELSE 0
    <3> DEFINE W == WithVerdict(u, q, x)
    <3>1. \A i : i \in W <=> Row(u, q, i, x)
      BY DEF WithVerdict, Row
    <3> HIDE DEF W
    <3>2. CASE \E i : Row(u, q, i, x)
      <4>1. PICK i : Row(u, q, i, x)
        BY <3>2
      <4>2. W = {i}
        BY <2>5, <3>1, <4>1
      <4>3. Cardinality({i}) = 1
        BY FS_Singleton
      <4>4. Cardinality(W) = 1
        BY Zenon, <4>2, <4>3
      <4> QED BY <3>2, <4>4 DEF W
    <3>3. CASE ~(\E i : Row(u, q, i, x))
      <4>1. W = {}
        BY <3>1, <3>3
      <4>2. Cardinality(W) = 0
        BY Zenon, <4>1, FS_EmptySet
      <4> QED BY <3>3, <4>2 DEF W
    <3> QED BY <3>2, <3>3
  <2> QED BY <2>4, <2>5 DEF Waiting
<1> QED BY <1>1, QuestsCorrect, FundsCorrect, PTL

-------------------------------------------------------------------------------
(* Badges: the rows a user holds, one of a badge, and the badge his        *)
(* profile shows.                                                          *)

BadgeRows == [badge : Badges, by : Quests \cup {Given}]
Stews == [pc : {"idle", "rank", "delete", "choose"}, user : Members \cup {NoUser},
          badge : Badges \cup {NoBadge}]

BadgeTypes ==
  /\ held \in [Members -> Seq(BadgeRows)]
  /\ primary \in [Members -> Badges \cup {NoBadge}]
  /\ steward \in [Stewards -> Stews]
  /\ \A k \in Stewards : steward[k].pc # "idle" =>
       steward[k].user \in Members /\ steward[k].badge \in Badges

\* The user has a row of the badge, of that origin.
Has(u, b, o) == \E i \in 1..Len(held[u]) : held[u][i].badge = b /\ held[u][i].by = o
HeldOnce ==
  \A u \in Members : \A i, j \in 1..Len(held[u]) : held[u][i].badge = held[u][j].badge => i = j

LEMMA HasRows ==
  ASSUME BadgeTypes, NEW u \in Members, NEW b
  PROVE  /\ Q!Holds(u, b) <=> \E o : Has(u, b, o)
         /\ Q!Holds(u, b) => b \in Badges
         /\ \A o : Q!GivenBy(u, b, o) <=> Has(u, b, o)
<1>1. \A i \in 1..Len(held[u]) : held[u][i] \in BadgeRows
  BY ElementOfSeq DEF BadgeTypes
<1>2. ASSUME NEW i \in 1..Len(held[u]), NEW o
      PROVE  held[u][i] = [badge |-> b, by |-> o] <=> held[u][i].badge = b /\ held[u][i].by = o
  BY <1>1 DEF BadgeRows
<1> QED BY <1>1, <1>2 DEF Has, Q!Holds, Q!GivenBy, BadgeRows

\* What is left of a list without one of its elements.
LEMMA RestOf ==
  ASSUME NEW R, NEW rows \in Seq(R), NEW k \in 1..Len(rows)
  PROVE  /\ Q!RemoveAt(rows, k) \in Seq(R)
         /\ Len(Q!RemoveAt(rows, k)) = Len(rows) - 1
         /\ \A i \in 1..Len(rows) - 1 :
              Q!RemoveAt(rows, k)[i] = IF i < k THEN rows[i] ELSE rows[i + 1]
<1> DEFINE n == Len(rows)
           a == SubSeq(rows, 1, k - 1)
           b == SubSeq(rows, k + 1, n)
<1>1. n \in Nat /\ k \in 1..n /\ \A i \in 1..n : rows[i] \in R
  BY LenProperties, ElementOfSeq
<1> HIDE DEF n
<1>2. a \in Seq(R) /\ Len(a) = k - 1 /\ \A i \in 1..k - 1 : a[i] = rows[i]
  <2>1. \A i \in 1..k - 1 : rows[i] \in R
    BY <1>1
  <2>2. k - 1 \in Int /\ 1 \in Int
    BY <1>1
  <2>3. /\ a \in Seq(R) /\ Len(a) = IF 1 <= k - 1 THEN k - 1 - 1 + 1 ELSE 0
        /\ \A i \in 1..k - 1 - 1 + 1 : a[i] = rows[1 + i - 1]
    BY <2>1, <2>2, SubSeqProperties
  <2> HIDE DEF a
  <2> QED BY <1>1, <2>3
<1>3. b \in Seq(R) /\ Len(b) = n - k /\ \A i \in 1..n - k : b[i] = rows[k + i]
  <2>1. \A i \in k + 1..n : rows[i] \in R
    BY <1>1
  <2>2. k + 1 \in Int /\ n \in Int
    BY <1>1
  <2>3. /\ b \in Seq(R) /\ Len(b) = IF k + 1 <= n THEN n - (k + 1) + 1 ELSE 0
        /\ \A i \in 1..n - (k + 1) + 1 : b[i] = rows[k + 1 + i - 1]
    BY <2>1, <2>2, SubSeqProperties
  <2> HIDE DEF b
  <2>4. n - (k + 1) + 1 = n - k
    BY <1>1
  <2>5. \A i \in 1..n - k : b[i] = rows[k + i]
    <3> SUFFICES ASSUME NEW i \in 1..n - k PROVE b[i] = rows[k + i]
      OBVIOUS
    <3>1. k + 1 + i - 1 = k + i
      BY <1>1
    <3> QED BY <2>3, <2>4, <3>1
  <2> QED BY <1>1, <2>3, <2>4, <2>5
<1>4. Q!RemoveAt(rows, k) = a \o b
  BY DEF Q!RemoveAt, n
<1> HIDE DEF a, b
<1>5. /\ a \o b \in Seq(R) /\ Len(a \o b) = n - 1
      /\ \A i \in 1..n - 1 : (a \o b)[i] = IF i <= k - 1 THEN a[i] ELSE b[i - (k - 1)]
  <2>1. /\ a \o b \in Seq(R) /\ Len(a \o b) = Len(a) + Len(b)
        /\ \A i \in 1..Len(a) + Len(b) : (a \o b)[i] = IF i <= Len(a) THEN a[i] ELSE b[i - Len(a)]
    BY <1>2, <1>3, ConcatProperties
  <2>2. Len(a) + Len(b) = n - 1
    BY <1>1, <1>2, <1>3
  <2> QED BY <1>2, <2>1, <2>2
<1>6. ASSUME NEW i \in 1..n - 1
      PROVE  (a \o b)[i] = IF i < k THEN rows[i] ELSE rows[i + 1]
  <2>1. CASE i < k
    BY <1>1, <1>2, <1>5, <2>1
  <2>2. CASE ~(i < k)
    <3>1. i - (k - 1) \in 1..n - k /\ k + (i - (k - 1)) = i + 1 /\ ~(i <= k - 1)
      BY <1>1, <2>2
    <3> QED BY <1>3, <1>5, <2>2, <3>1
  <2> QED BY <2>1, <2>2
<1> QED BY <1>4, <1>5, <1>6 DEF n

HeldOK == held \in [Members -> Seq(BadgeRows)] /\ HeldOnce
Gains(u, b, o) ==
  \A v \in Members : \A x, y : Has(v, x, y)' <=> Has(v, x, y) \/ (v = u /\ x = b /\ y = o)
Loses(u, b) ==
  \A v \in Members : \A x, y : Has(v, x, y)' <=> Has(v, x, y) /\ ~(v = u /\ x = b)

LEMMA RowGained ==
  ASSUME HeldOK, NEW u \in Members, NEW b \in Badges, NEW o \in Quests \cup {Given},
         ~Q!Holds(u, b), held' = [held EXCEPT ![u] = Append(@, [badge |-> b, by |-> o])]
  PROVE  HeldOK' /\ Gains(u, b, o)
<1> DEFINE row == [badge |-> b, by |-> o]
           rows == held[u]
           list == Append(rows, row)
           n == Len(rows)
<1>1. rows \in Seq(BadgeRows) /\ n \in Nat /\ row \in BadgeRows
  BY LenProperties DEF HeldOK, BadgeRows
<1>2. /\ list \in Seq(BadgeRows) /\ Len(list) = n + 1 /\ list[n + 1] = row
      /\ \A i \in 1..n : list[i] = rows[i]
  BY <1>1, AppendProperties
<1>3. row.badge = b /\ row.by = o
  OBVIOUS
<1>4. \A i \in 1..n : rows[i].badge # b
  BY DEF Q!Holds
<1>5. held' = [held EXCEPT ![u] = list]
  OBVIOUS
<1>6. \A i, j \in 1..n : rows[i].badge = rows[j].badge => i = j
  BY DEF HeldOK, HeldOnce
<1> HIDE DEF list, row
<1>7. /\ held' \in [Members -> Seq(BadgeRows)] /\ held'[u] = list
      /\ \A v \in Members \ {u} : held'[v] = held[v]
  BY <1>2, <1>5 DEF HeldOK
<1>8. HeldOnce'
  <2>1. \A i, j \in 1..n + 1 : list[i].badge = list[j].badge => i = j
    <3>1. \A i \in 1..n + 1 : i \in 1..n \/ i = n + 1
      BY <1>1
    <3>2. list[n + 1].badge = b /\ \A i \in 1..n : list[i].badge = rows[i].badge /\ list[i].badge # b
      BY <1>2, <1>3, <1>4
    <3> QED BY <1>6, <3>1, <3>2
  <2>2. ASSUME NEW v \in Members, NEW i \in 1..Len(held'[v]), NEW j \in 1..Len(held'[v]),
               held'[v][i].badge = held'[v][j].badge
        PROVE  i = j
    <3>1. CASE v = u
      BY <1>2, <1>7, <2>1, <2>2, <3>1
    <3>2. CASE v # u
      BY <1>7, <2>2, <3>2 DEF HeldOK, HeldOnce
    <3> QED BY <3>1, <3>2
  <2> QED BY <2>2 DEF HeldOnce
<1>9. ASSUME NEW v \in Members, NEW x, NEW y
      PROVE  Has(v, x, y)' <=> Has(v, x, y) \/ (v = u /\ x = b /\ y = o)
  <2>1. CASE v # u
    BY <1>7, <2>1 DEF Has
  <2>2. CASE v = u
    <3>1. Has(u, x, y)' <=> \E i \in 1..n + 1 : list[i].badge = x /\ list[i].by = y
      BY <1>2, <1>7 DEF Has
    <3>2. (\E i \in 1..n + 1 : list[i].badge = x /\ list[i].by = y)
          <=> (\E i \in 1..n : rows[i].badge = x /\ rows[i].by = y) \/ (x = b /\ y = o)
      <4>1. 1..n + 1 = (1..n) \cup {n + 1}
        BY <1>1
      <4> QED BY <1>1, <1>2, <1>3, <4>1
    <3> QED BY <2>2, <3>1, <3>2 DEF Has
  <2> QED BY <2>1, <2>2
<1> QED BY <1>7, <1>8, <1>9 DEF HeldOK, Gains

LEMMA RowLost ==
  ASSUME HeldOK, NEW u \in Members, NEW b, held' = [held EXCEPT ![u] = Q!Without(@, b)]
  PROVE  /\ HeldOK' /\ Loses(u, b)
         /\ Q!Without(held[u], b) # <<>> =>
              \E x, y : x = Q!Last(Q!Without(held[u], b)).badge /\ Has(u, x, y)'
<1> DEFINE rows == held[u]
           rest == Q!Without(rows, b)
           n == Len(rows)
<1>1. rows \in Seq(BadgeRows) /\ n \in Nat /\ DOMAIN rows = 1..n
      /\ \A i, j \in 1..n : rows[i].badge = rows[j].badge => i = j
  BY LenProperties DEF HeldOK, HeldOnce
<1>2. /\ rest \in Seq(BadgeRows) /\ Len(rest) \in Nat
      /\ \A i, j \in 1..Len(rest) : rest[i].badge = rest[j].badge => i = j
      /\ \A x, y : (\E i \in 1..Len(rest) : rest[i].badge = x /\ rest[i].by = y)
                   <=> (\E i \in 1..n : rows[i].badge = x /\ rows[i].by = y) /\ x # b
  <2>1. CASE ~(\E i \in 1..n : rows[i].badge = b)
    <3>1. rest = rows
      BY <1>1, <2>1 DEF Q!Without
    <3> HIDE DEF rest
    <3> QED BY <1>1, <2>1, <3>1
  <2>2. CASE \E i \in 1..n : rows[i].badge = b
    <3> DEFINE k == CHOOSE i \in 1..n : rows[i].badge = b
    <3>1. k \in 1..n /\ rows[k].badge = b
      BY <2>2
    <3>2. rest = Q!RemoveAt(rows, k)
      BY <1>1, <2>2 DEF Q!Without
    <3> HIDE DEF k, rest
    <3>3. /\ rest \in Seq(BadgeRows) /\ Len(rest) = n - 1
          /\ \A i \in 1..n - 1 : rest[i] = IF i < k THEN rows[i] ELSE rows[i + 1]
      BY <1>1, <3>1, <3>2, RestOf
    <3> HIDE DEF rows, n
    <3>4. \A i, j \in 1..n - 1 : rest[i].badge = rest[j].badge => i = j
      <4> SUFFICES ASSUME NEW i \in 1..n - 1, NEW j \in 1..n - 1, rest[i].badge = rest[j].badge
                   PROVE  i = j
        OBVIOUS
      <4>1. PICK p \in 1..n : rest[i] = rows[p] /\ (IF i < k THEN p = i ELSE p = i + 1)
        BY <1>1, <3>3
      <4>2. PICK s \in 1..n : rest[j] = rows[s] /\ (IF j < k THEN s = j ELSE s = j + 1)
        BY <1>1, <3>3
      <4>3. p = s
        BY <1>1, <4>1, <4>2
      <4> QED BY <1>1, <3>1, <4>1, <4>2, <4>3
    <3>5. ASSUME NEW i \in 1..n - 1 PROVE \E j \in 1..n : j # k /\ rest[i] = rows[j]
      BY <1>1, <3>1, <3>3
    <3>6. ASSUME NEW j \in 1..n, j # k PROVE \E i \in 1..n - 1 : rest[i] = rows[j]
      <4>1. CASE j < k
        <5>1. j \in 1..n - 1
          BY <1>1, <3>1, <4>1
        <5> QED BY <3>3, <4>1, <5>1
      <4>2. CASE ~(j < k)
        <5>1. j - 1 \in 1..n - 1 /\ ~(j - 1 < k) /\ (j - 1) + 1 = j
          BY <1>1, <3>1, <3>6, <4>2
        <5> QED BY <3>3, <5>1
      <4> QED BY <4>1, <4>2
    <3>7. \A j \in 1..n : j # k => rows[j].badge # b
      BY <1>1, <3>1
    <3>8. ASSUME NEW x, NEW y
          PROVE  (\E i \in 1..n - 1 : rest[i].badge = x /\ rest[i].by = y)
                   <=> (\E i \in 1..n : rows[i].badge = x /\ rows[i].by = y) /\ x # b
      BY <3>1, <3>5, <3>6, <3>7
    <3> QED BY <1>1, <3>3, <3>4, <3>8
  <2> QED BY <2>1, <2>2
<1>3. held' = [held EXCEPT ![u] = rest]
  OBVIOUS
<1> HIDE DEF rest
<1>4. /\ held' \in [Members -> Seq(BadgeRows)] /\ held'[u] = rest
      /\ \A v \in Members \ {u} : held'[v] = held[v]
  BY <1>2, <1>3 DEF HeldOK
<1>5. HeldOnce'
  <2>1. ASSUME NEW v \in Members, NEW i \in 1..Len(held'[v]), NEW j \in 1..Len(held'[v]),
               held'[v][i].badge = held'[v][j].badge
        PROVE  i = j
    <3>1. CASE v = u
      BY <1>2, <1>4, <2>1, <3>1
    <3>2. CASE v # u
      BY <1>4, <2>1, <3>2 DEF HeldOK, HeldOnce
    <3> QED BY <3>1, <3>2
  <2> QED BY <2>1 DEF HeldOnce
<1>6. ASSUME NEW v \in Members, NEW x, NEW y
      PROVE  Has(v, x, y)' <=> Has(v, x, y) /\ ~(v = u /\ x = b)
  <2>1. CASE v # u
    BY <1>4, <2>1 DEF Has
  <2>2. CASE v = u
    <3>1. Has(u, x, y)' <=> \E i \in 1..Len(rest) : rest[i].badge = x /\ rest[i].by = y
      BY <1>4 DEF Has
    <3>2. Has(u, x, y) <=> \E i \in 1..n : rows[i].badge = x /\ rows[i].by = y
      BY DEF Has
    <3>3. Has(u, x, y)' <=> Has(u, x, y) /\ x # b
      BY <1>2, <3>1, <3>2
    <3> QED BY <2>2, <3>3
  <2> QED BY <2>1, <2>2
<1>7. ASSUME rest # <<>> PROVE \E x, y : x = Q!Last(rest).badge /\ Has(u, x, y)'
  <2>1. Len(rest) \in 1..Len(rest)
    BY <1>2, <1>7, EmptySeq
  <2>2. PICK l : l = rest[Len(rest)]
    OBVIOUS
  <2>3. \E i \in 1..Len(held'[u]) : held'[u][i].badge = l.badge /\ held'[u][i].by = l.by
    BY <1>4, <2>1, <2>2
  <2>4. PICK x, y : x = l.badge /\ y = l.by
    OBVIOUS
  <2>5. Has(u, x, y)'
    BY <2>3, <2>4 DEF Has
  <2>6. Q!Last(rest).badge = x
    BY <2>2, <2>4 DEF Q!Last
  <2> QED BY <2>5, <2>6
<1> QED BY <1>4, <1>5, <1>6, <1>7 DEF HeldOK, Loses, rest

Completed(u, q) == status[u][q] = "completed"
Shown(u, b) == \E o : Has(u, b, o)

\* The badge a profile shows is held, also by the user an operation is at work
\* on, and the badge about to be deleted is not the one shown.
PrimaryOK ==
  /\ \A k, l \in Stewards : steward[k].pc # "idle" /\ steward[l].pc # "idle" => k = l
  /\ \A u \in Members : \A b : b = primary[u] /\ b # NoBadge => Shown(u, b)
  /\ \A k \in Stewards : \A u, b :
       steward[k].pc # "idle" /\ u = steward[k].user /\ b = steward[k].badge =>
         Shown(u, b) /\ (steward[k].pc = "delete" => primary[u] # b)

\* The badges a quest has or had, and a review that revokes.
Offered(q) == {rewardBadge[q]} \cup former[q]
Revokes(r, u, q) ==
  /\ reviewer[r].pc \in {"revoke", "revoking"}
  /\ reviewer[r].user = u /\ reviewer[r].quest = q

\* A review works with a badge its quest had when it was read.
OfferRead ==
  \A r \in Reviewers : \A q :
    reviewer[r].pc # "idle" /\ q = reviewer[r].quest => reviewer[r].badge \in Offered(q)

\* A row a quest gave is of a badge the quest had before, or of its badge and
\* the quest is completed; a revocation takes away the latter.
GivenOK ==
  \A u \in Members, q \in Quests :
    /\ \A b : Has(u, b, q) => b \in former[q] \/ (b = rewardBadge[q] /\ Completed(u, q))
    /\ \A b :
         /\ "badges" \notin scene /\ Completed(u, q)
         /\ b = rewardBadge[q] /\ b # NoBadge /\ former[q] = {}
         /\ \A o \in Quests \ {q} : b \notin Offered(o)
         => Shown(u, b)
    /\ \A r \in Reviewers : Revokes(r, u, q) =>
         \A b : Has(u, b, q) => b \in former[q] \/ b = reviewer[r].badge

AloneWith == scene \cap {"overlap_badges", "badge_error"} = {}
             /\ ~({"badges", "quests"} \subseteq scene)
AtRest ==
  /\ "badges" \notin scene => \A k \in Stewards : steward[k].pc = "idle"
  /\ "quests" \notin scene => \A r \in Reviewers : reviewer[r].pc = "idle"
BadgesOK ==
  /\ BadgeTypes /\ HeldOnce /\ AtRest /\ OfferRead
  /\ AloneWith => PrimaryOK
  /\ scene \cap Overlaps = {} => GivenOK

\* What a step makes of completed quests, and with which badges.
RevokesKept ==
  \A r \in Reviewers : \A v, o :
    Revokes(r, v, o)' => Revokes(r, v, o) /\ reviewer'[r].badge = reviewer[r].badge
OffersKept == UNCHANGED <<rewardBadge, former>>
NothingMoves ==
  /\ UNCHANGED <<held, primary, steward>> /\ OffersKept
  /\ scene \cap Overlaps = {} =>
       \A v \in Members, o \in Quests : Completed(v, o)' <=> Completed(v, o)
  /\ \A r \in Reviewers : \A v, o :
       Revokes(r, v, o)' => \/ Revokes(r, v, o) /\ reviewer'[r].badge = reviewer[r].badge
                           \/ reviewer'[r].badge = rewardBadge[o]
Awards(u, q, b) ==
  /\ b \in Offered(q) /\ Q!Award(u, b, q) /\ steward' = steward /\ OffersKept /\ RevokesKept
  /\ scene \cap Overlaps = {} => \A r \in Reviewers : ~Revokes(r, u, q)
  /\ \A v \in Members, o \in Quests :
       Completed(v, o)' <=> Completed(v, o) \/ (v = u /\ o = q)
TakesBack(u, q, b) ==
  /\ \E r \in Reviewers : Revokes(r, u, q) /\ reviewer[r].badge = b
  /\ b \in Offered(q) /\ Q!TakeBack(u, b, q) /\ steward' = steward /\ OffersKept /\ RevokesKept
  /\ \A v \in Members, o \in Quests :
       Completed(v, o)' <=> Completed(v, o) /\ ~(v = u /\ o = q)
Edits ==
  /\ UNCHANGED <<held, primary, steward, status, reviewer>>
  /\ \E q \in Quests, b \in Badges \cup {NoBadge} :
       /\ rewardBadge' = [rewardBadge EXCEPT ![q] = b]
       /\ former' = [former EXCEPT ![q] = @ \cup ({rewardBadge[q]} \ {b})]
BadgesMove ==
  \/ NothingMoves
  \/ \E u \in Members, q \in Quests, b \in Badges \cup {NoBadge} :
       Awards(u, q, b) \/ TakesBack(u, q, b)
  \/ Q!Step /\ UNCHANGED <<status, points, reviewer>> /\ OffersKept
  \/ Edits

\* A review comes to revoke a quest with the badge the quest has.
LEMMA RevokesMove ==
  ASSUME QuestTypes, SharedOK, [Next]_vars, NEW r \in Reviewers, NEW v, NEW o, Revokes(r, v, o)'
  PROVE  \/ Revokes(r, v, o) /\ reviewer'[r].badge = reviewer[r].badge
         \/ reviewer'[r].badge = rewardBadge[o]
<1>1. ReviewStep
  BY EveryReviewStep
<1>2. CASE UNCHANGED reviewer
  BY <1>2 DEF Revokes
<1>3. CASE Begins
  <2>1. PICK u \in Members, q \in Quests, s \in Reviewers, state \in Reviews :
          /\ state.quest = q /\ state.badge = rewardBadge[q] /\ ReviewMoves(s, state)
    BY <1>3, Zenon DEF Begins
  <2>2. reviewer'[r] = IF r = s THEN state ELSE reviewer[r]
    BY <2>1 DEF ReviewMoves
  <2> QED BY <2>1, <2>2 DEF Revokes
<1>4. ASSUME NEW s \in Reviewers, Resolves(s)
      PROVE  Revokes(r, v, o) /\ reviewer'[r].badge = reviewer[r].badge
  <2>1. reviewer[s] \in Reviews
    BY DEF QuestTypes
  <2>2. PICK state :
          /\ ReviewMoves(s, state)
          /\ \/ state.pc \in {"idle", "reopen"}
             \/ /\ reviewer[s].pc = "revoke" /\ state.user = reviewer[s].user
                /\ state.quest = reviewer[s].quest /\ state.badge = reviewer[s].badge
    <3>1. PICK state : ReviewMoves(s, state) /\ Leads(reviewer[s], state)
      BY <1>4, LeadsOn
    <3> QED BY <3>1 DEF Leads
  <2>3. reviewer'[r] = IF r = s THEN state ELSE reviewer[r]
    BY <2>2 DEF ReviewMoves
  <2> QED BY <2>2, <2>3 DEF Revokes
<1> QED BY <1>1, <1>2, <1>3, <1>4 DEF ReviewStep

LEMMA EveryBadgesMove ==
  ASSUME QuestTypes, SharedOK, QuestsOK, OfferRead, [Next]_vars
  PROVE  BadgesMove
<1>0. /\ \A r \in Reviewers : \A v, o :
           Revokes(r, v, o)' => \/ Revokes(r, v, o) /\ reviewer'[r].badge = reviewer[r].badge
                               \/ reviewer'[r].badge = rewardBadge[o]
      /\ OfferTypes
  BY RevokesMove DEF QuestTypes
<1> DEFINE same == scene \cap Overlaps = {} =>
                     \A v \in Members, o \in Quests : Completed(v, o)' <=> Completed(v, o)
<1>1. CASE UNCHANGED <<held, primary, steward>> /\ OffersKept /\ same
  BY <1>0, <1>1 DEF BadgesMove, NothingMoves
<1>9. CASE UNCHANGED <<held, primary, steward, status>> /\ OffersKept
  BY <1>1, <1>9 DEF Completed
<1>10. ASSUME NEW r \in Reviewers, reviewer' = [reviewer EXCEPT ![r] = Q!NoReview]
       PROVE  RevokesKept
  <2>1. \A o \in Reviewers : reviewer'[o] = IF o = r THEN Q!NoReview ELSE reviewer[o]
    BY <1>10 DEF QuestTypes
  <2> QED BY <2>1 DEF RevokesKept, Revokes, Q!NoReview
<1>11. ASSUME NEW u \in Members, NEW q \in Quests, status[u][q] # "completed",
              scene \cap Overlaps = {}, NEW r \in Reviewers
       PROVE  ~Revokes(r, u, q)
  <2>1. reviewer[r] \in Reviews
    BY DEF QuestTypes
  <2> QED BY <1>11, <2>1 DEF QuestsOK, QuestOK, On, Revokes, Reviews
<1> HIDE DEF same
<1>2. CASE Q!QuestStep
  <2>0. steward' = steward
    BY <1>2 DEF Q!QuestStep
  <2>1. ASSUME NEW u \in Members, NEW q \in Quests, Q!StartQuest(u, q)
        PROVE  BadgesMove
    <3>1. status' = [status EXCEPT ![u][q] = "in_progress"] /\ status[u][q] = "none"
          /\ UNCHANGED <<held, primary>> /\ OffersKept
      BY <2>1 DEF Q!StartQuest, Q!wealth, Q!offer, OffersKept
    <3>2. \A v \in Members, o \in Quests : Completed(v, o)' <=> Completed(v, o)
      BY <3>1 DEF Completed, QuestTypes
    <3> QED BY <1>1, <2>0, <3>1, <3>2 DEF same
  <2>2. ASSUME NEW u \in Members, NEW q \in Quests, Q!CompleteAutoQuest(u, q)
        PROVE  BadgesMove
    <3>1. /\ status' = [status EXCEPT ![u][q] = "completed"]
          /\ Q!Award(u, rewardBadge[q], q) /\ OffersKept /\ reviewer' = reviewer
          /\ status[u][q] # "completed"
      BY <2>2 DEF Q!CompleteAutoQuest, Q!Complete, Q!AwardQuestRewards, Q!offer, OffersKept, Q!NotYet
    <3>2. \A v \in Members, o \in Quests :
            Completed(v, o)' <=> Completed(v, o) \/ (v = u /\ o = q)
      BY <3>1 DEF Completed, QuestTypes
    <3>3. RevokesKept
      BY <3>1 DEF RevokesKept, Revokes
    <3>4. rewardBadge[q] \in Badges \cup {NoBadge} /\ rewardBadge[q] \in Offered(q)
      BY <1>0 DEF OfferTypes, Offered
    <3>5. Awards(u, q, rewardBadge[q])
      BY <1>11, <2>0, <3>1, <3>2, <3>3, <3>4 DEF Awards
    <3> QED BY <3>4, <3>5 DEF BadgesMove
  <2>3. ASSUME NEW u \in Members, NEW q \in Quests,
               \/ \E s \in Submitters : Q!ReadForSubmit(s, u, q)
               \/ \E r \in Reviewers, i \in 1..MaxSubmissions : Q!BeginReview(r, u, q, i)
        PROVE  BadgesMove
    BY <1>9, <2>0, <2>3
       DEF Q!ReadForSubmit, Q!BeginReview, Q!progress, Q!wealth, Q!offer, OffersKept
  <2>4. ASSUME NEW s \in Submitters,
               Q!OpenUserQuest(s) \/ Q!CreateSubmission(s) \/ Q!MarkPending(s) \/ Q!SubmitError(s)
        PROVE  BadgesMove
    <3>1. CASE Q!CreateSubmission(s) \/ Q!SubmitError(s)
      BY <1>9, <2>0, <3>1
         DEF Q!CreateSubmission, Q!SubmitError, Q!progress, Q!wealth, Q!offer, OffersKept
    <3>2. CASE Q!OpenUserQuest(s) \/ Q!MarkPending(s)
      <4> PICK c : c = submitter[s]
        OBVIOUS
      <4>1. /\ c.pc \in {"open", "mark"} /\ UNCHANGED <<held, primary>> /\ OffersKept
            /\ c.user \in Members /\ c.quest \in Quests
            /\ \E st \in {"in_progress", "pending_verification"} :
                 status' = [status EXCEPT ![c.user][c.quest] = st]
        BY <3>2 DEF Q!OpenUserQuest, Q!MarkPending, Q!wealth, QuestTypes, Q!offer, OffersKept
      <4>2. scene \cap Overlaps = {} => ~Completed(c.user, c.quest)
        BY <4>1 DEF QuestsOK, QuestOK, On, Completed
      <4>3. scene \cap Overlaps = {} =>
              \A v \in Members, o \in Quests : Completed(v, o)' <=> Completed(v, o)
        BY <4>1, <4>2 DEF Completed, QuestTypes
      <4> QED BY <1>1, <2>0, <4>1, <4>3 DEF same
    <3> QED BY <2>4, <3>1, <3>2
  <2>5. ASSUME NEW q \in Quests, NEW gain \in RewardPoints,
             NEW badge \in Badges \cup {NoBadge}, Q!EditReward(q, gain, badge)
        PROVE  BadgesMove
    BY <2>0, <2>5 DEF Q!EditReward, Q!progress, Q!wealth, Edits, BadgesMove
  <2>6. ASSUME NEW r \in Reviewers,
               \/ Q!Approve(r) \/ Q!RejectSubmission(r) \/ Q!ReopenQuest(r)
               \/ Q!RevokeRead(r) \/ Q!RevokeCommit(r) \/ Q!ReviewError(r)
        PROVE  BadgesMove
    <3> PICK c : c = reviewer[r]
      OBVIOUS
    <3> DEFINE u == c.user
               q == c.quest
    <3>0. /\ c \in Reviews
          /\ c.pc # "idle" => u \in Members /\ q \in Quests /\ c.badge \in Offered(q)
      BY DEF QuestTypes, OfferRead
    <3>1. CASE Q!RejectSubmission(r) \/ Q!RevokeRead(r) \/ Q!ReviewError(r)
      BY <1>9, <2>0, <3>1 DEF Q!RejectSubmission, Q!RevokeRead, Q!ReviewError, Q!progress,
                              Q!wealth, Q!offer, OffersKept
    <3>2. CASE Q!Approve(r)
      <4>1. /\ u \in Members /\ q \in Quests
            /\ status' = [status EXCEPT ![u][q] = "completed"]
            /\ Q!Award(u, c.badge, q) /\ OffersKept
            /\ reviewer' = [reviewer EXCEPT ![r] = Q!NoReview] /\ c.pc = "approve"
        BY <3>0, <3>2 DEF Q!Approve, Q!Complete, Q!AwardQuestRewards, Q!offer, OffersKept,
                          Q!EndReview, Q!Put
      <4>2. \A v \in Members, o \in Quests :
              Completed(v, o)' <=> Completed(v, o) \/ (v = u /\ o = q)
        BY <4>1 DEF Completed, QuestTypes
      <4>3. scene \cap Overlaps = {} => status[u][q] # "completed"
        <5>1. On(reviewer[r], u, q) /\ c.row \in Nat
          BY <3>0, <4>1 DEF On, Reviews
        <5> QED BY <4>1, <5>1 DEF QuestsOK, QuestOK
      <4>4. c.badge \in Badges \cup {NoBadge} /\ c.badge \in Offered(q)
        BY <3>0, <4>1 DEF Reviews
      <4>5. RevokesKept
        BY <1>10, <4>1
      <4>6. Awards(u, q, c.badge)
        BY <1>11, <2>0, <4>1, <4>2, <4>3, <4>4, <4>5 DEF Awards
      <4> QED BY <4>1, <4>4, <4>6 DEF BadgesMove
    <3>3. CASE Q!RevokeCommit(r)
      <4>1. /\ u \in Members /\ q \in Quests /\ c.pc = "revoking"
            /\ status' = [status EXCEPT ![u][q] = "in_progress"]
            /\ Q!TakeBack(u, c.badge, q) /\ OffersKept
            /\ reviewer' = [reviewer EXCEPT ![r] = Q!NoReview]
        BY <3>0, <3>3 DEF Q!RevokeCommit, Q!offer, OffersKept, Q!EndReview, Q!Put
      <4>2. \A v \in Members, o \in Quests :
              Completed(v, o)' <=> Completed(v, o) /\ ~(v = u /\ o = q)
        BY <4>1 DEF Completed, QuestTypes
      <4>3. Revokes(r, u, q) /\ c.badge \in Badges \cup {NoBadge} /\ c.badge \in Offered(q)
        BY <3>0, <4>1 DEF Revokes, Reviews
      <4>4. RevokesKept
        BY <1>10, <4>1
      <4>5. TakesBack(u, q, c.badge)
        BY <2>0, <4>1, <4>2, <4>3, <4>4 DEF TakesBack
      <4> QED BY <4>1, <4>3, <4>5 DEF BadgesMove
    <3>4. CASE Q!ReopenQuest(r)
      <4>1. /\ u \in Members /\ q \in Quests /\ c.pc = "reopen"
            /\ status' = [status EXCEPT ![u][q] = "in_progress"]
            /\ UNCHANGED <<held, primary>> /\ OffersKept
        BY <3>0, <3>4 DEF Q!ReopenQuest, Q!wealth, Q!offer, OffersKept
      <4>2. scene \cap Overlaps = {} => ~Completed(u, q)
        <5>1. On(reviewer[r], u, q) /\ c.row \in Nat
          BY <3>0, <4>1 DEF On, Reviews
        <5> QED BY <4>1, <5>1 DEF QuestsOK, QuestOK, Completed
      <4>3. scene \cap Overlaps = {} =>
              \A v \in Members, o \in Quests : Completed(v, o)' <=> Completed(v, o)
        BY <4>1, <4>2 DEF Completed, QuestTypes
      <4> QED BY <1>1, <2>0, <4>1, <4>3 DEF same
    <3> QED BY <2>6, <3>1, <3>2, <3>3, <3>4
  <2> QED BY <1>2, <2>1, <2>2, <2>3, <2>4, <2>5, <2>6 DEF Q!QuestStep
<1>3. CASE Q!BadgeStep
  BY <1>3 DEF Q!BadgeStep, Q!progress, Q!offer, OffersKept, BadgesMove
<1>4. CASE UNCHANGED questVars
  BY <1>4, <1>9 DEF questVars, OffersKept
<1> QED BY <1>2, <1>3, <1>4 DEF Next, vars

\* The badges a quest has or had stay so, and so the badge of a review.
LEMMA OffersMove ==
  ASSUME QuestTypes, BadgesMove
  PROVE  \A q \in Quests : Offered(q) \subseteq Offered(q)'
<1>1. CASE OffersKept
  BY <1>1 DEF OffersKept, Offered
<1>2. CASE Edits
  BY <1>2 DEF Edits, Offered, QuestTypes, OfferTypes
<1> QED BY <1>1, <1>2 DEF BadgesMove, NothingMoves, Awards, TakesBack

LEMMA OfferReadStep ==
  ASSUME QuestTypes, SharedOK, OfferRead, [Next]_vars, BadgesMove
  PROVE  OfferRead'
<1>1. ReviewStep
  BY EveryReviewStep
<1>2. \A q \in Quests : Offered(q) \subseteq Offered(q)'
  BY OffersMove
<1> SUFFICES ASSUME NEW r \in Reviewers, reviewer'[r].pc # "idle", NEW q, q = reviewer'[r].quest
             PROVE  reviewer'[r].badge \in Offered(q)'
  BY DEF OfferRead
<1>3. ASSUME reviewer[r].pc # "idle", reviewer'[r].quest = reviewer[r].quest,
             reviewer'[r].badge = reviewer[r].badge
      PROVE  reviewer'[r].badge \in Offered(q)'
  <2>1. q \in Quests /\ reviewer[r].badge \in Offered(q)
    BY <1>3 DEF OfferRead, QuestTypes
  <2> QED BY <1>2, <1>3, <2>1
<1>4. CASE UNCHANGED reviewer
  BY <1>3, <1>4
<1>5. CASE Begins
  <2>1. PICK u \in Members, p \in Quests, s \in Reviewers, state \in Reviews :
          /\ state.quest = p /\ state.badge = rewardBadge[p] /\ ReviewMoves(s, state)
    BY <1>5, Zenon DEF Begins
  <2>2. reviewer'[r] = IF r = s THEN state ELSE reviewer[r]
    BY <2>1 DEF ReviewMoves
  <2>3. CASE r = s
    <3>1. q = p /\ reviewer'[r].badge \in Offered(p)
      BY <2>1, <2>2, <2>3 DEF Offered
    <3> QED BY <1>2, <3>1
  <2>4. CASE r # s
    BY <1>3, <2>2, <2>4
  <2> QED BY <2>3, <2>4
<1>6. ASSUME NEW s \in Reviewers, Resolves(s) PROVE reviewer'[r].badge \in Offered(q)'
  <2>1. reviewer[s] \in Reviews
    BY DEF QuestTypes
  <2>2. PICK state :
          /\ ReviewMoves(s, state)
          /\ \/ state.pc = "idle"
             \/ /\ reviewer[s].pc # "idle"
                /\ state.quest = reviewer[s].quest /\ state.badge = reviewer[s].badge
    <3>1. PICK state : ReviewMoves(s, state) /\ Leads(reviewer[s], state)
      BY <1>6, LeadsOn
    <3> QED BY <3>1 DEF Leads
  <2>3. reviewer'[r] = IF r = s THEN state ELSE reviewer[r]
    BY <2>2 DEF ReviewMoves
  <2> QED BY <1>3, <2>2, <2>3
<1> QED BY <1>1, <1>4, <1>5, <1>6 DEF ReviewStep

\* Who is not at work in a scene stays at rest.
LEMMA AtRestStep == AtRest /\ [Next]_vars => AtRest'
<1> SUFFICES ASSUME AtRest, [Next]_vars PROVE AtRest'
  OBVIOUS
<1>0. scene' = scene
  BY DEF Next, vars
<1>1. CASE UNCHANGED <<steward, reviewer>>
  BY <1>0, <1>1 DEF AtRest
<1>2. ASSUME "quests" \notin scene, Q!QuestStep PROVE reviewer' = reviewer
  <2>1. \A r \in Reviewers : reviewer[r].pc = "idle"
    BY <1>2 DEF AtRest
  <2>2. ASSUME NEW u, NEW q, Q!StartQuest(u, q) \/ Q!CompleteAutoQuest(u, q) PROVE reviewer' = reviewer
    BY <2>2 DEF Q!StartQuest, Q!CompleteAutoQuest
  <2>3. ASSUME NEW s, NEW u, NEW q, Q!ReadForSubmit(s, u, q) PROVE reviewer' = reviewer
    BY <2>3 DEF Q!ReadForSubmit
  <2>4. ASSUME NEW r, NEW u, NEW q, NEW i, Q!BeginReview(r, u, q, i) PROVE reviewer' = reviewer
    BY <1>2, <2>4 DEF Q!BeginReview
  <2>5. ASSUME NEW s, Q!OpenUserQuest(s) \/ Q!CreateSubmission(s) \/ Q!MarkPending(s) \/ Q!SubmitError(s)
        PROVE  reviewer' = reviewer
    BY <2>5 DEF Q!OpenUserQuest, Q!CreateSubmission, Q!MarkPending, Q!SubmitError
  <2>6. ASSUME NEW q, NEW gain, NEW badge, Q!EditReward(q, gain, badge) PROVE reviewer' = reviewer
    BY <2>6 DEF Q!EditReward
  <2>7. ASSUME NEW r \in Reviewers,
               Q!Approve(r) \/ Q!RejectSubmission(r) \/ Q!ReopenQuest(r) \/ Q!RevokeRead(r)
               \/ Q!RevokeCommit(r) \/ Q!ReviewError(r)
        PROVE  FALSE
    <3>1. reviewer[r].pc = "idle"
      BY <2>1
    <3> QED BY <2>7, <3>1 DEF Q!Approve, Q!RejectSubmission, Q!ReopenQuest, Q!RevokeRead,
                              Q!RevokeCommit, Q!ReviewError
  <2> QED BY <1>2, <2>2, <2>3, <2>4, <2>5, <2>6, <2>7, Zenon DEF Q!QuestStep
<1>3. ASSUME "badges" \notin scene, Q!Step PROVE steward' = steward
  <2>1. \A k \in Stewards : steward[k].pc = "idle"
    BY <1>3 DEF AtRest
  <2>2. ASSUME NEW k, NEW u, NEW b,
               \/ Q!GrantBadge(k, u, b) \/ Q!CheckMilestone(k, u, b) \/ Q!UnsetPrimary(k, u, b)
               \/ Q!ChoosePrimary(k, u, b)
        PROVE  steward' = steward
    BY <1>3, <2>2 DEF Q!GrantBadge, Q!CheckMilestone, Q!UnsetPrimary, Q!ChoosePrimary, Q!MayStart
  <2>3. ASSUME NEW k \in Stewards, Q!RankBadge(k) \/ Q!DeleteBadge(k) \/ Q!WritePrimary(k) \/ Q!StewardError(k)
        PROVE  FALSE
    <3>1. steward[k].pc = "idle"
      BY <2>1
    <3> QED BY <2>3, <3>1 DEF Q!RankBadge, Q!DeleteBadge, Q!WritePrimary, Q!StewardError, Q!At
  <2> QED BY <1>3, <2>2, <2>3, Zenon DEF Q!Step
<1>4. CASE Q!QuestStep
  <2>1. steward' = steward
    BY <1>4 DEF Q!QuestStep
  <2> QED BY <1>0, <1>2, <1>4, <2>1 DEF AtRest
<1>5. CASE Q!BadgeStep
  <2>1. reviewer' = reviewer /\ Q!Step
    BY <1>5 DEF Q!BadgeStep
  <2> QED BY <1>0, <1>3, <2>1 DEF AtRest
<1> QED BY <1>1, <1>4, <1>5 DEF Next, vars, questVars

\* Rows that stay give the same view of a user's badges.
LEMMA ViewKept ==
  ASSUME held' = held
  PROVE  \A v, x : /\ \A y : Has(v, x, y)' <=> Has(v, x, y)
                   /\ Shown(v, x)' <=> Shown(v, x)
BY DEF Has, Shown

\* A reward adds its badge.
LEMMA AwardKeeps ==
  ASSUME BadgesOK, scene' = scene, AtRest', OfferRead', NEW u \in Members, NEW q \in Quests,
         NEW b \in Badges \cup {NoBadge}, Awards(u, q, b)
  PROVE  BadgesOK'
<1>0. /\ Q!Award(u, b, q) /\ steward' = steward /\ b \in Offered(q)
      /\ UNCHANGED <<rewardBadge, former>>
      /\ \A r \in Reviewers : \A v, o :
           Revokes(r, v, o)' => Revokes(r, v, o) /\ reviewer'[r].badge = reviewer[r].badge
      /\ scene \cap Overlaps = {} => \A r \in Reviewers : ~Revokes(r, u, q)
      /\ \A v \in Members, o \in Quests :
           Completed(v, o)' <=> Completed(v, o) \/ (v = u /\ o = q)
  BY DEF Awards, OffersKept, RevokesKept
<1>1. /\ b \in Badges \cup {NoBadge} /\ NoBadge \notin Badges
      /\ \A o : Offered(o)' = Offered(o)
  BY <1>0, RewardsAssumption DEF Offered
<1>2. /\ BadgeTypes /\ HeldOnce /\ HeldOK
  BY DEF BadgesOK, HeldOK, BadgeTypes
<1>3. AloneWith => PrimaryOK
  BY DEF BadgesOK
<1>4. scene \cap Overlaps = {} => GivenOK
  BY DEF BadgesOK
<1>5. CASE b = NoBadge \/ Q!Holds(u, b)
  <2>1. UNCHANGED <<held, primary>>
    BY <1>0, <1>5 DEF Q!Award
  <2>2. \A v, x : /\ \A y : Has(v, x, y)' <=> Has(v, x, y)
                  /\ Shown(v, x)' <=> Shown(v, x)
    BY <2>1, ViewKept
  <2>3. PrimaryOK => PrimaryOK'
    BY <1>0, <2>1, <2>2 DEF PrimaryOK
  <2>4. b # NoBadge => Shown(u, b)
    BY <1>2, <1>5, HasRows DEF Shown
  <2>5. ASSUME GivenOK, scene \cap Overlaps = {} PROVE GivenOK'
    <3>1. ASSUME NEW v \in Members, NEW o \in Quests, NEW x, Has(v, x, o)'
          PROVE  x \in former[o] \/ (x = rewardBadge[o] /\ Completed(v, o)')
      BY <1>0, <2>2, <2>5, <3>1 DEF GivenOK
    <3>2. ASSUME NEW v \in Members, NEW o \in Quests, "badges" \notin scene, Completed(v, o)',
                 NEW x, x = rewardBadge[o], x # NoBadge, former[o] = {},
                 \A a \in Quests \ {o} : x \notin Offered(a)
          PROVE  Shown(v, x)'
      <4>1. CASE Completed(v, o)
        BY <2>2, <2>5, <3>2, <4>1 DEF GivenOK
      <4>2. CASE ~Completed(v, o)
        <5>1. v = u /\ o = q /\ b = x
          BY <1>0, <3>2, <4>2 DEF Offered
        <5> QED BY <2>2, <2>4, <3>2, <5>1
      <4> QED BY <4>1, <4>2
    <3>3. ASSUME NEW v \in Members, NEW o \in Quests, NEW r \in Reviewers, Revokes(r, v, o)',
                 NEW x, Has(v, x, o)'
          PROVE  x \in former[o] \/ x = reviewer'[r].badge
      BY <1>0, <2>2, <2>5, <3>3 DEF GivenOK
    <3> QED BY <1>0, <1>1, <3>1, <3>2, <3>3 DEF GivenOK
  <2> QED BY <1>0, <1>2, <1>3, <1>4, <2>1, <2>3, <2>5 DEF BadgesOK, BadgeTypes, HeldOnce, AloneWith
<1>6. CASE ~(b = NoBadge \/ Q!Holds(u, b))
  <2> DEFINE p == Q!Ranked(u, b)
  <2>1. /\ held' = [held EXCEPT ![u] = Append(@, [badge |-> b, by |-> q])]
        /\ primary' = [primary EXCEPT ![u] = p]
    BY <1>0, <1>6 DEF Q!Award
  <2>2. p \in {b, primary[u]} /\ b \in Badges
    BY <1>1, <1>6 DEF Q!Ranked
  <2> HIDE DEF p
  <2>3. HeldOK' /\ Gains(u, b, q)
    BY <1>2, <1>6, <2>1, <2>2, RowGained
  <2>4. \A v \in Members : \A x :
          /\ Shown(v, x)' <=> Shown(v, x) \/ (v = u /\ x = b)
          /\ \A y : Has(v, x, y)' <=> Has(v, x, y) \/ (v = u /\ x = b /\ y = q)
    BY <2>3 DEF Gains, Shown
  <2>5. BadgeTypes'
    BY <1>0, <1>2, <2>1, <2>2, <2>3 DEF BadgeTypes, HeldOK
  <2>6. \A v \in Members : primary'[v] = IF v = u THEN p ELSE primary[v]
    BY <1>2, <2>1 DEF BadgeTypes
  <2>7. ASSUME PrimaryOK PROVE PrimaryOK'
    <3>1. \A v \in Members : \A x : x = primary'[v] /\ x # NoBadge => Shown(v, x)'
      BY <2>2, <2>4, <2>6, <2>7 DEF PrimaryOK
    <3>2. ~Shown(u, b)
      BY <1>2, <1>6, HasRows DEF Shown
    <3>3. \A k \in Stewards : \A v, x :
            steward'[k].pc # "idle" /\ v = steward'[k].user /\ x = steward'[k].badge =>
              Shown(v, x)' /\ (steward'[k].pc = "delete" => primary'[v] # x)
      <4>0. steward' = steward
        BY <1>0
      <4> SUFFICES ASSUME NEW k \in Stewards, NEW v, NEW x, steward[k].pc # "idle",
                          v = steward[k].user, x = steward[k].badge
                   PROVE  Shown(v, x)' /\ (steward[k].pc = "delete" => primary'[v] # x)
        BY <4>0
      <4>1. v \in Members /\ Shown(v, x) /\ (steward[k].pc = "delete" => primary[v] # x)
        BY <1>2, <2>7 DEF PrimaryOK, BadgeTypes
      <4>2. v = u => x # b
        BY <3>2, <4>1
      <4> QED BY <2>2, <2>4, <2>6, <4>1, <4>2
    <3>4. steward' = steward
      BY <1>0
    <3> QED BY <2>7, <3>1, <3>3, <3>4 DEF PrimaryOK
  <2>8. ASSUME GivenOK, scene \cap Overlaps = {} PROVE GivenOK'
    <3>1. ASSUME NEW v \in Members, NEW o \in Quests, NEW x, Has(v, x, o)'
          PROVE  x \in former[o] \/ (x = rewardBadge[o] /\ Completed(v, o)')
      <4>1. CASE Has(v, x, o)
        <5>1. x \in former[o] \/ (x = rewardBadge[o] /\ Completed(v, o))
          BY <2>8, <4>1 DEF GivenOK
        <5> QED BY <1>0, <5>1
      <4>2. CASE ~Has(v, x, o)
        <5>1. v = u /\ x = b /\ o = q
          BY <2>4, <3>1, <4>2
        <5> QED BY <1>0, <5>1 DEF Offered
      <4> QED BY <4>1, <4>2
    <3>2. ASSUME NEW v \in Members, NEW o \in Quests, "badges" \notin scene, Completed(v, o)',
                 NEW x, x = rewardBadge[o], x # NoBadge, former[o] = {},
                 \A a \in Quests \ {o} : x \notin Offered(a)
          PROVE  Shown(v, x)'
      BY <1>0, <2>4, <2>8, <3>2 DEF GivenOK, Offered
    <3>3. ASSUME NEW v \in Members, NEW o \in Quests, NEW r \in Reviewers, Revokes(r, v, o)',
                 NEW x, Has(v, x, o)'
          PROVE  x \in former[o] \/ x = reviewer'[r].badge
      <4>1. Revokes(r, v, o) /\ reviewer'[r].badge = reviewer[r].badge /\ ~(v = u /\ o = q)
        BY <1>0, <2>8, <3>3
      <4> QED BY <2>4, <2>8, <3>3, <4>1 DEF GivenOK
    <3> QED BY <1>0, <1>1, <3>1, <3>2, <3>3 DEF GivenOK
  <2> QED BY <1>0, <1>3, <1>4, <2>3, <2>5, <2>7, <2>8 DEF BadgesOK, HeldOK, AloneWith
<1> QED BY <1>5, <1>6

\* A revocation takes a badge back; no badge operation is then at work.
LEMMA TakeBackKeeps ==
  ASSUME BadgesOK, scene' = scene, AtRest', OfferRead', NEW u \in Members, NEW q \in Quests,
         NEW b \in Badges \cup {NoBadge}, TakesBack(u, q, b)
  PROVE  BadgesOK'
<1>0. /\ \E r \in Reviewers : Revokes(r, u, q) /\ reviewer[r].badge = b
      /\ Q!TakeBack(u, b, q) /\ steward' = steward /\ b \in Offered(q)
      /\ UNCHANGED <<rewardBadge, former>>
      /\ \A r \in Reviewers : \A v, o :
           Revokes(r, v, o)' => Revokes(r, v, o) /\ reviewer'[r].badge = reviewer[r].badge
      /\ \A v \in Members, o \in Quests :
           Completed(v, o)' <=> Completed(v, o) /\ ~(v = u /\ o = q)
  BY DEF TakesBack, OffersKept, RevokesKept
<1>1. /\ b \in Badges \cup {NoBadge} /\ NoBadge \notin Badges
      /\ \A o : Offered(o)' = Offered(o)
  BY <1>0, RewardsAssumption DEF Offered
<1>2. /\ BadgeTypes /\ HeldOnce /\ HeldOK
  BY DEF BadgesOK, HeldOK, BadgeTypes
<1>3. AloneWith => PrimaryOK /\ \A k \in Stewards : steward[k].pc = "idle"
  BY <1>0 DEF BadgesOK, AtRest, AloneWith, Revokes
<1>4. /\ scene \cap Overlaps = {} => GivenOK
      /\ GivenOK => \A x : Has(u, x, q) => x \in former[q] \/ x = b
  BY <1>0 DEF BadgesOK, GivenOK
<1>5. CASE b = NoBadge \/ ~Q!GivenBy(u, b, q)
  <2>1. UNCHANGED <<held, primary>>
    BY <1>0, <1>5 DEF Q!TakeBack
  <2>2. \A v, x : /\ \A y : Has(v, x, y)' <=> Has(v, x, y)
                  /\ Shown(v, x)' <=> Shown(v, x)
    BY <2>1, ViewKept
  <2>3. PrimaryOK => PrimaryOK'
    BY <1>0, <2>1, <2>2 DEF PrimaryOK
  <2>4. ~Has(u, b, q)
    <3>1. Has(u, b, q) => b \in Badges
      BY <1>2, HasRows
    <3> QED BY <1>1, <1>2, <1>5, <3>1, HasRows
  <2>5. ASSUME GivenOK PROVE GivenOK'
    <3>1. ASSUME NEW v \in Members, NEW o \in Quests, NEW x, Has(v, x, o)'
          PROVE  x \in former[o] \/ (x = rewardBadge[o] /\ Completed(v, o)')
      <4>1. Has(v, x, o) /\ (x \in former[o] \/ (x = rewardBadge[o] /\ Completed(v, o)))
        BY <2>2, <2>4, <2>5, <3>1 DEF GivenOK
      <4>2. v = u /\ o = q => x \in former[o]
        BY <1>4, <2>2, <2>4, <2>5, <3>1, <4>1
      <4> QED BY <1>0, <4>1, <4>2
    <3>2. ASSUME NEW v \in Members, NEW o \in Quests, "badges" \notin scene, Completed(v, o)',
                 NEW x, x = rewardBadge[o], x # NoBadge, former[o] = {},
                 \A a \in Quests \ {o} : x \notin Offered(a)
          PROVE  Shown(v, x)'
      BY <1>0, <2>2, <2>5, <3>2 DEF GivenOK
    <3>3. ASSUME NEW v \in Members, NEW o \in Quests, NEW r \in Reviewers, Revokes(r, v, o)',
                 NEW x, Has(v, x, o)'
          PROVE  x \in former[o] \/ x = reviewer'[r].badge
      BY <1>0, <2>2, <2>4, <2>5, <3>3 DEF GivenOK
    <3> QED BY <1>0, <1>1, <3>1, <3>2, <3>3 DEF GivenOK
  <2> QED BY <1>0, <1>2, <1>3, <1>4, <2>1, <2>3, <2>5 DEF BadgesOK, BadgeTypes, HeldOnce, AloneWith
<1>6. CASE ~(b = NoBadge \/ ~Q!GivenBy(u, b, q))
  <2> DEFINE rest == Q!Without(held[u], b)
             p == Q!Fallback(rest, b, primary[u])
  <2>1. /\ held' = [held EXCEPT ![u] = Q!Without(@, b)]
        /\ primary' = [primary EXCEPT ![u] = p]
    BY <1>0, <1>6 DEF Q!TakeBack
  <2>2. /\ HeldOK' /\ Loses(u, b)
        /\ rest # <<>> => \E x, y : x = Q!Last(rest).badge /\ Has(u, x, y)'
    BY <1>2, <2>1, RowLost
  <2>3. \A v \in Members : \A x :
          /\ Shown(v, x)' <=> Shown(v, x) /\ ~(v = u /\ x = b)
          /\ \A y : Has(v, x, y)' <=> Has(v, x, y) /\ ~(v = u /\ x = b)
    BY <2>2 DEF Loses, Shown
  <2>4. PICK c : c = p
    OBVIOUS
  <2>5. \/ c = primary[u] /\ c # b
        \/ c = NoBadge
        \/ \E y : Has(u, c, y)'
    BY <2>2, <2>4 DEF Q!Fallback
  <2> HIDE DEF p, rest
  <2>6. ASSUME NEW y, Has(u, c, y)' PROVE c \in Badges
    <3>1. Has(u, c, y)
      BY <2>3, <2>6
    <3> QED BY <1>2, <3>1, HasRows
  <2>7. c \in Badges \cup {NoBadge}
    BY <1>2, <2>5, <2>6 DEF BadgeTypes
  <2>8. primary' \in [Members -> Badges \cup {NoBadge}]
        /\ \A v \in Members : primary'[v] = IF v = u THEN c ELSE primary[v]
    BY <1>2, <2>1, <2>4, <2>7 DEF BadgeTypes
  <2>9. BadgeTypes'
    BY <1>0, <1>2, <2>2, <2>8 DEF BadgeTypes, HeldOK
  <2>10. ASSUME PrimaryOK, \A k \in Stewards : steward[k].pc = "idle" PROVE PrimaryOK'
    <3>1. ASSUME NEW v \in Members, NEW x, x = primary'[v], x # NoBadge PROVE Shown(v, x)'
      <4>1. CASE v # u
        BY <2>3, <2>8, <2>10, <3>1, <4>1 DEF PrimaryOK
      <4>2. CASE v = u /\ \E y : Has(u, c, y)'
        <5>1. Shown(u, c)'
          BY <4>2 DEF Shown
        <5> QED BY <2>8, <3>1, <4>2, <5>1
      <4>3. CASE v = u /\ c = primary[u] /\ c # b
        BY <2>3, <2>8, <2>10, <3>1, <4>3 DEF PrimaryOK
      <4> QED BY <2>5, <2>8, <3>1, <4>1, <4>2, <4>3
    <3> QED BY <1>0, <2>10, <3>1 DEF PrimaryOK
  <2>11. ASSUME GivenOK PROVE GivenOK'
    <3>1. ASSUME NEW v \in Members, NEW o \in Quests, NEW x, Has(v, x, o)'
          PROVE  x \in former[o] \/ (x = rewardBadge[o] /\ Completed(v, o)')
      <4>1. Has(v, x, o) /\ (x \in former[o] \/ (x = rewardBadge[o] /\ Completed(v, o)))
        BY <2>3, <2>11, <3>1 DEF GivenOK
      <4>2. v = u /\ o = q => x \in former[o]
        BY <1>4, <2>3, <2>11, <3>1, <4>1
      <4> QED BY <1>0, <4>1, <4>2
    <3>2. ASSUME NEW v \in Members, NEW o \in Quests, "badges" \notin scene, Completed(v, o)',
                 NEW x, x = rewardBadge[o], x # NoBadge, former[o] = {},
                 \A a \in Quests \ {o} : x \notin Offered(a)
          PROVE  Shown(v, x)'
      <4>1. Shown(v, x) /\ ~(v = u /\ o = q)
        BY <1>0, <2>11, <3>2 DEF GivenOK
      <4>2. ~(v = u /\ x = b)
        BY <1>0, <3>2, <4>1
      <4> QED BY <2>3, <4>1, <4>2
    <3>3. ASSUME NEW v \in Members, NEW o \in Quests, NEW r \in Reviewers, Revokes(r, v, o)',
                 NEW x, Has(v, x, o)'
          PROVE  x \in former[o] \/ x = reviewer'[r].badge
      BY <1>0, <2>3, <2>11, <3>3 DEF GivenOK
    <3> QED BY <1>0, <1>1, <3>1, <3>2, <3>3 DEF GivenOK
  <2> QED BY <1>0, <1>3, <1>4, <2>2, <2>9, <2>10, <2>11 DEF BadgesOK, HeldOK, AloneWith
<1> QED BY <1>5, <1>6

\* An operation on badges, from one statement to the next.
LEMMA StewardKeeps ==
  ASSUME BadgesOK, scene' = scene, AtRest', OfferRead',
         UNCHANGED <<status, rewardBadge, former, reviewer>>, Q!Step
  PROVE  BadgesOK'
<1>1. PICK k \in Stewards :
        \/ \E u \in Members, b \in Badges :
             Q!GrantBadge(k, u, b) \/ Q!UnsetPrimary(k, u, b) \/ Q!ChoosePrimary(k, u, b)
        \/ Q!RankBadge(k) \/ Q!DeleteBadge(k) \/ Q!WritePrimary(k) \/ Q!StewardError(k)
  BY DEF Q!Step, Q!CheckMilestone
<1>2. PICK c : c = steward[k]
  OBVIOUS
<1>3. /\ BadgeTypes /\ HeldOnce /\ HeldOK /\ c \in Stews
      /\ NoBadge \notin Badges /\ Given \notin Quests
      /\ c.pc # "idle" => c.user \in Members /\ c.badge \in Badges
  BY <1>2, RewardsAssumption DEF BadgesOK, HeldOK, BadgeTypes
<1>4. "badges" \in scene
  <2>1. CASE c.pc = "idle"
    BY <1>1, <1>2, <2>1 DEF Q!GrantBadge, Q!UnsetPrimary, Q!ChoosePrimary, Q!MayStart,
       Q!RankBadge, Q!DeleteBadge, Q!WritePrimary, Q!StewardError, Q!At
  <2>2. CASE c.pc # "idle"
    BY <1>2, <2>2 DEF BadgesOK, AtRest
  <2> QED BY <2>1, <2>2
<1>5. /\ AloneWith => PrimaryOK
      /\ scene \cap Overlaps = {} => GivenOK
  BY DEF BadgesOK
\* What an operation says of the state after it.
<1>6. ASSUME HeldOK', primary' \in [Members -> Badges \cup {NoBadge}],
             NEW state \in Stews, steward' = [steward EXCEPT ![k] = state],
             state.pc # "idle" => state.user \in Members /\ state.badge \in Badges,
             \A u \in Members, q \in Quests : \A b : Has(u, b, q)' => Has(u, b, q),
             AloneWith => PrimaryOK'
      PROVE  BadgesOK'
  <2>1. BadgeTypes'
    BY <1>3, <1>6 DEF BadgeTypes, HeldOK
  <2>2. GivenOK => GivenOK'
    BY <1>4, <1>6 DEF GivenOK, Completed, Revokes
  <2> QED BY <1>5, <1>6, <2>1, <2>2 DEF BadgesOK, HeldOK, AloneWith
<1>7. /\ Q!NoStep \in Stews /\ Q!NoStep.pc = "idle"
      /\ \A pc \in {"rank", "delete", "choose"}, u \in Members, b \in Badges :
           [pc |-> pc, user |-> u, badge |-> b] \in Stews
  BY DEF Q!NoStep, Stews
<1>8. ASSUME NEW state, steward' = [steward EXCEPT ![k] = state]
      PROVE  \A l \in Stewards : steward'[l] = IF l = k THEN state ELSE steward[l]
  BY <1>3, <1>8 DEF BadgeTypes
<1>9. ASSUME NEW u \in Members, NEW b \in Badges, AloneWith,
             Q!GrantBadge(k, u, b) \/ Q!UnsetPrimary(k, u, b) \/ Q!ChoosePrimary(k, u, b)
      PROVE  \A l \in Stewards : steward[l].pc = "idle"
  BY <1>9 DEF Q!GrantBadge, Q!UnsetPrimary, Q!ChoosePrimary, Q!MayStart, Q!Busy, AloneWith
<1>10. ASSUME AloneWith, c.pc # "idle"
       PROVE  \A l \in Stewards : steward[l].pc # "idle" => l = k
  BY <1>2, <1>5, <1>10 DEF PrimaryOK
<1>11. ASSUME NEW u \in Members, NEW b \in Badges, Q!GrantBadge(k, u, b) PROVE BadgesOK'
  <2> DEFINE state == [pc |-> "rank", user |-> u, badge |-> b]
  <2>1. /\ ~Q!Holds(u, b) /\ primary' = primary
        /\ held' = [held EXCEPT ![u] = Append(@, [badge |-> b, by |-> Given])]
        /\ steward' = [steward EXCEPT ![k] = state]
    BY <1>11 DEF Q!GrantBadge, Q!Take
  <2>2. HeldOK' /\ Gains(u, b, Given)
    BY <1>3, <2>1, RowGained
  <2>3. \A v \in Members : \A x :
          /\ Shown(v, x)' <=> Shown(v, x) \/ (v = u /\ x = b)
          /\ \A q \in Quests : Has(v, x, q)' => Has(v, x, q)
    BY <1>3, <2>2 DEF Gains, Shown
  <2>4. state \in Stews /\ state.user = u /\ state.badge = b /\ state.pc = "rank"
    BY <1>7
  <2> HIDE DEF state
  <2>5. ASSUME AloneWith PROVE PrimaryOK'
    <3>1. \A l \in Stewards : steward'[l].pc # "idle" => l = k /\ steward'[l] = state
      BY <1>8, <1>9, <1>11, <2>1, <2>5
    <3>2. \A v \in Members : \A x : x = primary'[v] /\ x # NoBadge => Shown(v, x)'
      BY <1>5, <2>1, <2>3, <2>5 DEF PrimaryOK
    <3> QED BY <2>3, <2>4, <3>1, <3>2 DEF PrimaryOK
  <2> QED BY <1>3, <1>6, <2>1, <2>2, <2>3, <2>4, <2>5 DEF BadgeTypes
<1>12. ASSUME NEW u \in Members, NEW b \in Badges,
              Q!UnsetPrimary(k, u, b) \/ Q!ChoosePrimary(k, u, b)
       PROVE  BadgesOK'
  <2>1. PICK pc \in {"delete", "choose"} :
          /\ Q!Holds(u, b) /\ held' = held
          /\ steward' = [steward EXCEPT ![k] = [pc |-> pc, user |-> u, badge |-> b]]
          /\ \/ primary' = primary /\ (pc = "delete" => primary[u] # b)
             \/ primary' = [primary EXCEPT ![u] = NoBadge] /\ pc = "delete"
    BY <1>12 DEF Q!UnsetPrimary, Q!ChoosePrimary, Q!Take
  <2> DEFINE state == [pc |-> pc, user |-> u, badge |-> b]
  <2>2. state \in Stews /\ state.user = u /\ state.badge = b /\ state.pc = pc
    BY <1>7
  <2>3. steward' = [steward EXCEPT ![k] = state]
    BY <2>1
  <2> HIDE DEF state
  <2>4. \A v, x : /\ \A y : Has(v, x, y)' <=> Has(v, x, y)
                  /\ Shown(v, x)' <=> Shown(v, x)
    BY <2>1, ViewKept
  <2>5. /\ primary' \in [Members -> Badges \cup {NoBadge}]
        /\ \A v \in Members : primary'[v] \in {primary[v], NoBadge}
        /\ pc = "delete" => primary'[u] # b
    BY <1>3, <2>1 DEF BadgeTypes
  <2>6. ASSUME AloneWith PROVE PrimaryOK'
    <3>1. \A l \in Stewards : steward'[l].pc # "idle" => l = k /\ steward'[l] = state
      BY <1>8, <1>9, <1>12, <2>3, <2>6
    <3>2. \A v \in Members : \A x : x = primary'[v] /\ x # NoBadge => Shown(v, x)'
      BY <1>5, <2>4, <2>5, <2>6 DEF PrimaryOK
    <3>3. Shown(u, b)'
      BY <1>3, <2>1, <2>4, HasRows DEF Shown
    <3> QED BY <2>2, <2>5, <3>1, <3>2, <3>3 DEF PrimaryOK
  <2>7. HeldOK'
    BY <1>3, <2>1 DEF HeldOK, HeldOnce
  <2> QED BY <1>3, <1>6, <2>2, <2>3, <2>4, <2>5, <2>6, <2>7
<1>13. ASSUME Q!RankBadge(k) \/ Q!WritePrimary(k) PROVE BadgesOK'
  <2> DEFINE u == c.user
             b == c.badge
  <2>1. PICK p : /\ p \in {b, primary[u]} /\ primary' = [primary EXCEPT ![u] = p]
                 /\ held' = held /\ c.pc # "idle" /\ steward' = [steward EXCEPT ![k] = Q!NoStep]
    BY <1>2, <1>13 DEF Q!RankBadge, Q!WritePrimary, Q!Ranked, Q!Rest, Q!At
  <2>2. \A v, x : /\ \A y : Has(v, x, y)' <=> Has(v, x, y)
                  /\ Shown(v, x)' <=> Shown(v, x)
    BY <2>1, ViewKept
  <2>3. /\ primary' \in [Members -> Badges \cup {NoBadge}]
        /\ \A v \in Members : primary'[v] = IF v = u THEN p ELSE primary[v]
    BY <1>3, <2>1 DEF BadgeTypes
  <2>4. ASSUME AloneWith PROVE PrimaryOK'
    <3>0. \A l \in Stewards : steward'[l] = IF l = k THEN Q!NoStep ELSE steward[l]
      BY <1>8, <2>1
    <3>1. \A l \in Stewards : steward'[l].pc = "idle"
      BY <1>7, <1>10, <2>1, <2>4, <3>0
    <3>2. Shown(u, b)
      BY <1>2, <1>5, <2>1, <2>4 DEF PrimaryOK
    <3>3. \A v \in Members : \A x : x = primary'[v] /\ x # NoBadge => Shown(v, x)'
      <4> HIDE DEF u, b
      <4> QED BY <1>5, <2>1, <2>2, <2>3, <2>4, <3>2 DEF PrimaryOK
    <3> QED BY <3>1, <3>3 DEF PrimaryOK
  <2>5. HeldOK'
    BY <1>3, <2>1 DEF HeldOK, HeldOnce
  <2> QED BY <1>6, <1>7, <2>1, <2>2, <2>3, <2>4, <2>5
<1>14. ASSUME Q!DeleteBadge(k) PROVE BadgesOK'
  <2> DEFINE u == c.user
             b == c.badge
  <2>1. /\ held' = [held EXCEPT ![u] = Q!Without(@, b)] /\ primary' = primary
        /\ c.pc = "delete" /\ steward' = [steward EXCEPT ![k] = Q!NoStep]
    BY <1>2, <1>14 DEF Q!DeleteBadge, Q!Rest, Q!At
  <2>2. u \in Members
    BY <1>3, <2>1
  <2> HIDE DEF u, b
  <2>3. HeldOK' /\ Loses(u, b)
    BY <1>3, <2>1, <2>2, RowLost
  <2>4. \A v \in Members : \A x :
          /\ Shown(v, x)' <=> Shown(v, x) /\ ~(v = u /\ x = b)
          /\ \A q \in Quests : Has(v, x, q)' => Has(v, x, q)
    BY <2>3 DEF Loses, Shown
  <2>5. ASSUME AloneWith PROVE PrimaryOK'
    <3>1. \A l \in Stewards : steward'[l].pc = "idle"
      BY <1>7, <1>8, <1>10, <2>1, <2>5
    <3>2. primary[u] # b
      BY <1>2, <1>5, <2>1, <2>5 DEF PrimaryOK, u, b
    <3>3. \A v \in Members : \A x : x = primary'[v] /\ x # NoBadge => Shown(v, x)'
      BY <1>5, <2>1, <2>4, <2>5, <3>2 DEF PrimaryOK
    <3> QED BY <3>1, <3>3 DEF PrimaryOK
  <2> QED BY <1>3, <1>6, <1>7, <2>1, <2>3, <2>4, <2>5 DEF BadgeTypes
<1>15. ASSUME Q!StewardError(k) PROVE BadgesOK'
  <2>1. /\ UNCHANGED <<held, primary>> /\ steward' = [steward EXCEPT ![k] = Q!NoStep]
        /\ ~AloneWith
    BY <1>15 DEF Q!StewardError, Q!Rest, AloneWith
  <2>2. \A v, x : \A y : Has(v, x, y)' <=> Has(v, x, y)
    BY <2>1, ViewKept
  <2>3. HeldOK'
    BY <1>3, <2>1 DEF HeldOK, HeldOnce
  <2> QED BY <1>3, <1>6, <1>7, <2>1, <2>2, <2>3 DEF BadgeTypes
<1> QED BY <1>1, <1>11, <1>12, <1>13, <1>14, <1>15

\* Edited quests put the badges they had among the former ones.
LEMMA EditKeeps ==
  ASSUME QuestTypes, BadgesOK, scene' = scene, AtRest', OfferRead', Edits
  PROVE  BadgesOK'
<1>1. /\ UNCHANGED <<held, primary, steward, status, reviewer>>
      /\ \A o \in Quests : Offered(o) \subseteq Offered(o)' /\ former[o] \subseteq former'[o]
      /\ \A o \in Quests : rewardBadge'[o] = rewardBadge[o] \/ rewardBadge[o] \in former'[o]
  BY DEF Edits, Offered, QuestTypes, OfferTypes
<1>2. \A v, x : /\ \A y : Has(v, x, y)' <=> Has(v, x, y)
                /\ Shown(v, x)' <=> Shown(v, x)
  BY <1>1, ViewKept
<1>3. PrimaryOK => PrimaryOK'
  BY <1>1, <1>2 DEF PrimaryOK
<1>4. ASSUME GivenOK PROVE GivenOK'
  <2>1. ASSUME NEW v \in Members, NEW o \in Quests
        PROVE  /\ Completed(v, o)' <=> Completed(v, o)
               /\ \A r \in Reviewers : Revokes(r, v, o)' <=> Revokes(r, v, o)
    BY <1>1 DEF Completed, Revokes
  <2>2. ASSUME NEW v \in Members, NEW o \in Quests, NEW x, Has(v, x, o)'
        PROVE  x \in former'[o] \/ (x = rewardBadge'[o] /\ Completed(v, o)')
    <3>1. x \in former[o] \/ (x = rewardBadge[o] /\ Completed(v, o))
      BY <1>2, <1>4, <2>2 DEF GivenOK
    <3> QED BY <1>1, <2>1, <3>1
  <2>3. ASSUME NEW v \in Members, NEW o \in Quests, "badges" \notin scene, Completed(v, o)',
               NEW x, x = rewardBadge'[o], x # NoBadge, former'[o] = {},
               \A a \in Quests \ {o} : x \notin Offered(a)'
        PROVE  Shown(v, x)'
    <3>1. x = rewardBadge[o] /\ former[o] = {}
      BY <1>1, <2>3
    <3>2. \A a \in Quests \ {o} : x \notin Offered(a)
      BY <1>1, <2>3
    <3> QED BY <1>2, <1>4, <2>1, <2>3, <3>1, <3>2 DEF GivenOK
  <2>4. ASSUME NEW v \in Members, NEW o \in Quests, NEW r \in Reviewers, Revokes(r, v, o)',
               NEW x, Has(v, x, o)'
        PROVE  x \in former'[o] \/ x = reviewer'[r].badge
    BY <1>1, <1>2, <1>4, <2>1, <2>4 DEF GivenOK
  <2> QED BY <2>2, <2>3, <2>4 DEF GivenOK
<1> QED BY <1>1, <1>3, <1>4 DEF BadgesOK, BadgeTypes, HeldOnce, AloneWith

LEMMA BadgesStep ==
  QuestTypes /\ FundsOK /\ QuestsOK /\ BadgesOK /\ [Next]_vars => BadgesOK'
<1> SUFFICES ASSUME QuestTypes, FundsOK, QuestsOK, BadgesOK, [Next]_vars PROVE BadgesOK'
  OBVIOUS
<1>1. /\ scene' = scene /\ BadgesMove /\ AtRest' /\ OfferRead'
  BY AtRestStep, EveryBadgesMove, OfferReadStep DEF Next, vars, FundsOK, BadgesOK
<1>2. CASE NothingMoves
  <2>1. \A v, x : /\ \A y : Has(v, x, y)' <=> Has(v, x, y)
                  /\ Shown(v, x)' <=> Shown(v, x)
    BY <1>2, ViewKept DEF NothingMoves
  <2>2. PrimaryOK => PrimaryOK'
    BY <1>2, <2>1 DEF PrimaryOK, NothingMoves
  <2>3. ASSUME GivenOK, scene \cap Overlaps = {} PROVE GivenOK'
    <3>1. /\ UNCHANGED <<rewardBadge, former>> /\ \A o : Offered(o)' = Offered(o)
          /\ \A v \in Members, o \in Quests : Completed(v, o)' <=> Completed(v, o)
          /\ \A r \in Reviewers : \A v, o :
               Revokes(r, v, o)' => \/ Revokes(r, v, o) /\ reviewer'[r].badge = reviewer[r].badge
                                   \/ reviewer'[r].badge = rewardBadge[o]
      BY <1>2, <2>3 DEF NothingMoves, OffersKept, Offered
    <3>2. ASSUME NEW v \in Members, NEW o \in Quests, NEW r \in Reviewers, Revokes(r, v, o)',
                 NEW x, Has(v, x, o)'
          PROVE  x \in former[o] \/ x = reviewer'[r].badge
      <4>1. /\ Has(v, x, o)
            /\ \/ Revokes(r, v, o) /\ reviewer'[r].badge = reviewer[r].badge
               \/ reviewer'[r].badge = rewardBadge[o]
        BY <2>1, <3>1, <3>2
      <4> QED BY <2>3, <3>2, <4>1 DEF GivenOK
    <3> QED BY <1>1, <2>1, <2>3, <3>1, <3>2 DEF GivenOK
  <2> QED BY <1>1, <1>2, <2>2, <2>3
          DEF BadgesOK, BadgeTypes, HeldOnce, AloneWith, NothingMoves
<1>3. ASSUME NEW u \in Members, NEW q \in Quests, NEW b \in Badges \cup {NoBadge},
             Awards(u, q, b) \/ TakesBack(u, q, b)
      PROVE  BadgesOK'
  BY <1>1, <1>3, AwardKeeps, TakeBackKeeps
<1>4. CASE Q!Step /\ UNCHANGED <<status, points, reviewer>> /\ OffersKept
  BY <1>1, <1>4, StewardKeeps DEF OffersKept
<1>5. CASE Edits
  BY <1>1, <1>5, EditKeeps
<1> QED BY <1>1, <1>2, <1>3, <1>4, <1>5 DEF BadgesMove

LEMMA BadgesCorrect == Spec => []BadgesOK
<1>1. Init => BadgesOK
  <2> SUFFICES ASSUME Init PROVE BadgesOK
    OBVIOUS
  <2>1. /\ held = [u \in Members |-> <<>>]
        /\ primary = [u \in Members |-> NoBadge]
        /\ steward = [k \in Stewards |-> Q!NoStep]
        /\ \A r \in Reviewers : reviewer[r].pc = "idle"
    BY DEF Init, Q!QuestsInit, Q!Init, Q!NoReview
  <2>2. Q!NoStep \in Stews /\ Q!NoStep.pc = "idle"
    BY DEF Q!NoStep, Stews
  <2>3. \A u \in Members : \A x, y : ~Has(u, x, y)
    BY <2>1 DEF Has
  <2>4. BadgeTypes /\ HeldOnce
    <3>1. <<>> \in Seq(BadgeRows)
      OBVIOUS
    <3> QED BY <2>1, <2>2, <3>1 DEF BadgeTypes, HeldOnce
  <2>5. AtRest
    BY <2>1, <2>2 DEF AtRest
  <2>6. PrimaryOK
    BY <2>1, <2>2 DEF PrimaryOK
  <2>7. OfferRead
    BY <2>1 DEF OfferRead
  <2>8. GivenOK
    <3>1. \A u \in Members, q \in Quests : ~Completed(u, q)
      BY DEF Init, Q!QuestsInit, Completed
    <3> QED BY <2>3, <3>1 DEF GivenOK
  <2> QED BY <2>4, <2>5, <2>6, <2>7, <2>8 DEF BadgesOK
<1> QED BY <1>1, BadgesStep, QuestsCorrect, FundsCorrect, PTL DEF Spec

\* Every profile shows a badge its user holds, where no operation on badges meets
\* another one, a failure or a review; and, where no two calls overlap and
\* however quests are edited meanwhile, a badge a quest gave is held only while
\* that quest is completed or if the quest has had another badge since, and who
\* completed a quest that kept its badge holds it.
THEOREM BadgesAgreeCorrect == Spec => []BadgesAgree
<1>1. BadgesOK => BadgesAgree
  <2> SUFFICES ASSUME BadgesOK PROVE BadgesAgree
    OBVIOUS
  <2>1. BadgeTypes
    BY DEF BadgesOK
  <2>2. ASSUME AloneWith, NEW u \in Members, primary[u] # NoBadge PROVE Q!Holds(u, primary[u])
    <3>1. Shown(u, primary[u])
      BY <2>2 DEF BadgesOK, PrimaryOK
    <3> QED BY <2>1, <3>1, HasRows DEF Shown
  <2>3. ASSUME scene \cap Overlaps = {}, NEW u \in Members, NEW q \in Quests, NEW b \in Badges
        PROVE  /\ Q!GivenBy(u, b, q) => status[u][q] = "completed" \/ b \in former[q]
               /\ /\ status[u][q] = "completed" /\ rewardBadge[q] = b /\ former[q] = {}
                  /\ "badges" \notin scene
                  /\ \A o \in Quests \ {q} : b \notin {rewardBadge[o]} \cup former[o]
                  => Q!Holds(u, b)
    <3>1. GivenOK /\ NoBadge \notin Badges
      BY <2>3, RewardsAssumption DEF BadgesOK
    <3>2. Q!GivenBy(u, b, q) => Completed(u, q) \/ b \in former[q]
      BY <2>1, <3>1, HasRows DEF GivenOK
    <3>3. ASSUME Completed(u, q), rewardBadge[q] = b, former[q] = {}, "badges" \notin scene,
                 \A o \in Quests \ {q} : b \notin {rewardBadge[o]} \cup former[o]
          PROVE  Q!Holds(u, b)
      <4>1. Shown(u, b)
        BY <3>1, <3>3 DEF GivenOK, Offered
      <4> QED BY <2>1, <4>1, HasRows DEF Shown
    <3> QED BY <3>2, <3>3 DEF Completed
  <2> QED BY <2>2, <2>3 DEF BadgesAgree, Without, AloneWith
<1> QED BY <1>1, BadgesCorrect, PTL

-------------------------------------------------------------------------------
(* Tips: the types, what is being asked for, and the tipping currency.     *)

Asks == [pc : {"idle", "open", "send"}, to : Users \cup {NoUser}, key : Keys,
         amount : Nat, fee : Nat, senderPays : BOOLEAN, seen : Nat]
Switches == [pc : {"idle", "switch"}, target : {Points, Token}, found : SUBSET {Points, Token}]
TipTypes == T!TipsTypeOK /\ IsFiniteSet(tips)

\* A call that is about to open an account saw no more points than were gained;
\* one that is about to send a tip passed the checks.
AskOK ==
  \A u \in Users :
    /\ asking[u].pc = "open" => asking[u].seen <= ledger[u].gained
    /\ asking[u].pc = "send" =>
         /\ asking[u].to \in Hunters \ {u}
         /\ asking[u].amount > 0
         /\ asking[u].senderPays \/ asking[u].amount > asking[u].fee

\* Switches that do not clash leave one currency active.
SwitchOK ==
  "clashing_switches" \notin scene =>
    /\ \E c \in {Points, Token} : active = {c}
    /\ \A a, b \in Switchers :
         switching[a].pc = "switch" /\ switching[b].pc = "switch" =>
           switching[a].target = switching[b].target
    /\ \A a \in Switchers : switching[a].pc = "switch" =>
         active \ switching[a].found \subseteq {switching[a].target}

LEMMA SwitchSteps ==
  ASSUME TipTypes, SwitchOK, scene' = scene, NEW w \in Switchers,
         T!SwitchCommit(w) \/ \E target \in {Points, Token} : T!SwitchScan(w, target)
  PROVE  /\ SwitchOK' /\ UNCHANGED <<opened, tipBalance, funded, vault, tips, asking, policy>>
         /\ active' \subseteq {Points, Token} /\ switching' \in [Switchers -> Switches]
<1>0. active \subseteq {Points, Token} /\ switching \in [Switchers -> Switches]
  BY DEF TipTypes, T!TipsTypeOK, Switches
<1>1. CASE T!SwitchCommit(w)
  <2> PICK c : c = switching[w]
    OBVIOUS
  <2>1. /\ c.pc = "switch" /\ active' = (active \ c.found) \cup {c.target}
        /\ switching' = [switching EXCEPT ![w] = T!NoSwitch]
        /\ UNCHANGED <<opened, tipBalance, funded, vault, tips, asking, policy>>
    BY <1>1 DEF T!SwitchCommit, T!Switched, T!tipRows
  <2>2. T!NoSwitch \in Switches /\ T!NoSwitch.pc = "idle"
    BY DEF T!NoSwitch, Switches
  <2>3. c \in Switches /\ c.target \in {Points, Token}
    BY <1>0 DEF Switches
  <2>4. \A a \in Switchers : switching'[a].pc = "switch" => a # w /\ switching'[a] = switching[a]
    BY <1>0, <2>1, <2>2
  <2>5. ASSUME "clashing_switches" \notin scene
        PROVE  active' = {c.target} /\ \A a \in Switchers :
                 switching[a].pc = "switch" => switching[a].target = c.target
    BY <2>1, <2>5 DEF SwitchOK
  <2>6. SwitchOK'
    BY <2>3, <2>4, <2>5 DEF SwitchOK
  <2> QED BY <1>0, <2>1, <2>2, <2>3, <2>6
<1>2. ASSUME NEW target \in {Points, Token}, T!SwitchScan(w, target)
      PROVE  /\ SwitchOK' /\ UNCHANGED <<opened, tipBalance, funded, vault, tips, asking, policy>>
             /\ active' \subseteq {Points, Token} /\ switching' \in [Switchers -> Switches]
  <2> DEFINE state == [pc |-> "switch", target |-> target, found |-> active]
  <2>1. /\ active' = active /\ switching' = [switching EXCEPT ![w] = state]
        /\ UNCHANGED <<opened, tipBalance, funded, vault, tips, asking, policy>>
        /\ "clashing_switches" \in scene \/
             \A o \in Switchers : switching[o].pc = "idle" \/ switching[o].target = target
    BY <1>2 DEF T!SwitchScan, T!tipRows
  <2>2. state \in Switches /\ state.target = target /\ state.found = active
    BY <1>0 DEF Switches
  <2> HIDE DEF state
  <2>3. \A a \in Switchers : switching'[a] = IF a = w THEN state ELSE switching[a]
    BY <1>0, <2>1
  <2>4. ASSUME "clashing_switches" \notin scene
        PROVE  /\ \A a \in Switchers : switching'[a].pc = "switch" => switching'[a].target = target
               /\ \A a \in Switchers : switching'[a].pc = "switch" =>
                    active' \ switching'[a].found \subseteq {switching'[a].target}
    <3>1. \A a \in Switchers : switching[a].pc = "switch" => switching[a].target = target
      BY <2>1, <2>4
    <3>2. \A a \in Switchers : switching[a].pc = "switch" =>
                    active \ switching[a].found \subseteq {switching[a].target}
      BY <2>4 DEF SwitchOK
    <3> QED BY <2>1, <2>2, <2>3, <3>1, <3>2
  <2>5. SwitchOK'
    BY <2>1, <2>4 DEF SwitchOK
  <2> QED BY <1>0, <2>1, <2>2, <2>5
<1> QED BY <1>1, <1>2

\* The fee of a policy is a number.
LEMMA FeeType ==
  ASSUME NEW p \in Policies, NEW amount \in Nat
  PROVE  T!Fee(amount, p) \in Nat
<1>1. p.bps \in Nat /\ p.minFee \in Nat /\ p.maxFee \in Nat
  BY RewardsAssumption
<1>2. amount * p.bps \in Nat
  BY <1>1
<1>3. T!CeilDiv(amount * p.bps, 10000) \in Nat
  <2> DEFINE n == amount * p.bps
  <2>1. n \in Nat
    BY <1>2
  <2> HIDE DEF n
  <2>2. (n + 10000 - 1) \div 10000 \in Nat
    BY <2>1
  <2> QED BY <2>2 DEF T!CeilDiv, n
<1> QED BY <1>1, <1>3 DEF T!Fee, T!Smaller, T!Larger

\* What the calls of users ask for.
LEMMA AskMoves ==
  ASSUME TipTypes, AskOK, SharedOK, ledger' = ledger, NEW u \in Users, NEW state \in Asks,
         asking' = [asking EXCEPT ![u] = state],
         state.pc = "open" => state.seen <= ledger[u].gained,
         state.pc = "send" => /\ state.to \in Hunters \ {u} /\ state.amount > 0
                              /\ state.senderPays \/ state.amount > state.fee
  PROVE  AskOK' /\ asking' \in [Users -> Asks]
BY DEF TipTypes, T!TipsTypeOK, AskOK, Asks

LEMMA AskSteps ==
  ASSUME TipTypes, AskOK, FundsOK, ledger' = ledger, NEW u \in Users,
         \/ T!ReadPoints(u) \/ T!TipError(u)
         \/ \E to \in Users, key \in Keys, amount \in Amounts : T!AskTip(u, to, key, amount)
  PROVE  /\ AskOK' /\ asking' \in [Users -> Asks]
         /\ UNCHANGED <<opened, tipBalance, funded, vault, tips, policy, active, switching>>
<1>0. asking \in [Users -> Asks] /\ SharedOK /\ asking[u] \in Asks /\ policy \in Policies
  BY DEF TipTypes, T!TipsTypeOK, FundsOK, Asks
<1>1. T!NoAsk \in Asks /\ T!NoAsk.pc = "idle"
  BY RewardsAssumption DEF T!NoAsk, Asks
<1>2. CASE T!ReadPoints(u)
  <2> DEFINE n == points[u]
             state == [asking[u] EXCEPT !.pc = "open", !.seen = n]
  <2>1. n \in Nat /\ n <= ledger[u].gained
    BY <1>0 DEF FundsOK, SharedOK
  <2>2. asking' = [asking EXCEPT ![u] = state]
    BY <1>0, <1>2 DEF T!ReadPoints
  <2> HIDE DEF n
  <2>3. state \in Asks /\ state.pc = "open" /\ state.seen = n
    BY <1>0, <2>1 DEF Asks
  <2> HIDE DEF state
  <2> QED BY <1>0, <1>2, <2>1, <2>2, <2>3, AskMoves DEF T!ReadPoints, T!tipRows
<1>3. CASE T!TipError(u)
  BY <1>0, <1>1, <1>3, AskMoves DEF T!TipError, T!Answer, T!tipRows
<1>4. ASSUME NEW to \in Users, NEW key \in Keys, NEW amount \in Amounts, T!AskTip(u, to, key, amount)
      PROVE  /\ AskOK' /\ asking' \in [Users -> Asks]
             /\ UNCHANGED <<opened, tipBalance, funded, vault, tips, policy, active, switching>>
  <2> DEFINE fee == T!Fee(amount, policy)
             pays == policy.senderPays
             state == [pc |-> "send", to |-> to, key |-> key, amount |-> amount,
                       fee |-> fee, senderPays |-> pays, seen |-> 0]
  <2>1. amount \in Nat /\ pays \in BOOLEAN
    BY <1>0, RewardsAssumption
  <2>2. fee \in Nat
    BY <1>0, <2>1, FeeType
  <2>3. asking' = [asking EXCEPT ![u] = state]
    BY <1>4 DEF T!AskTip
  <2>4. to \in Hunters \ {u} /\ T!Credit(amount, fee, pays) > 0
    BY <1>4 DEF T!AskTip, T!Allowed
  <2> HIDE DEF fee, pays
  <2>5. amount > 0 /\ (pays \/ amount > fee)
    BY <2>1, <2>2, <2>4 DEF T!Credit
  <2>6. /\ state \in Asks /\ state.to = to /\ state.amount = amount /\ state.fee = fee
        /\ state.senderPays = pays /\ state.pc = "send"
    BY <2>1, <2>2 DEF Asks
  <2> HIDE DEF state
  <2>7. AskOK' /\ asking' \in [Users -> Asks]
    BY <1>0, <2>3, <2>4, <2>5, <2>6, AskMoves
  <2> QED BY <1>4, <2>7 DEF T!AskTip, T!tipRows
<1> QED BY <1>2, <1>3, <1>4

-------------------------------------------------------------------------------
(* Tips: the books of the accounts and of the vault.                       *)

Nets == [t \in T!Tip |-> t.debit - t.fee]
Debits == [t \in T!Tip |-> t.debit]
Fees == [t \in T!Tip |-> t.fee]
To(u) == {t \in T!Tip : t.to = u}
From(u) == {t \in T!Tip : t.from = u}

\* An account that is not open was paid nothing; no account was paid more than
\* its user gained; and it holds what its tips make of that.
AccountsOK ==
  \A u \in Users :
    /\ u \notin opened => funded[u] = 0 /\ tipBalance[u] = 0
    /\ funded[u] <= Atomic * ledger[u].gained
    /\ tipBalance[u] = funded[u] + Total(Nets, tips \cap To(u)) - Total(Debits, tips \cap From(u))

RowOK(t) == /\ t.to \in Hunters \ {t.from} /\ t.debit > t.fee
            /\ t.amount = IF t.senderPays THEN t.debit - t.fee ELSE t.debit
RowsOK ==
  /\ vault = Total(Fees, tips)
  /\ \A t, o \in tips : t.key = o.key => t = o
  /\ \A t \in tips : RowOK(t)

TipInv == TipTypes /\ AskOK /\ SwitchOK /\ AccountsOK /\ RowsOK

LEMMA Products ==
  ASSUME NEW m \in Nat, NEW n \in Nat
  PROVE  /\ Atomic * m \in Nat /\ Atomic * 0 = 0
         /\ Atomic * (m + n) = Atomic * m + Atomic * n
         /\ m <= n => Atomic * m <= Atomic * n
<1>0. Atomic \in Nat
  BY RewardsAssumption
<1>1. /\ Atomic * m \in Nat /\ Atomic * n \in Nat /\ Atomic * 0 = 0
      /\ Atomic * (m + n) = Atomic * m + Atomic * n
  BY <1>0
<1>2. ASSUME m <= n PROVE Atomic * m <= Atomic * n
  <2>1. n - m \in Nat /\ n = m + (n - m)
    BY <1>2
  <2> DEFINE d == n - m
  <2>2. d \in Nat /\ n = m + d
    BY <2>1
  <2> HIDE DEF d
  <2>3. Atomic * (m + d) = Atomic * m + Atomic * d /\ Atomic * d \in Nat
    BY <1>0, <2>2
  <2> QED BY <1>1, <2>2, <2>3
<1> QED BY <1>1, <1>2

\* Where no tip is sent, only what an account was paid, and is, matters.
LEMMA SameTips ==
  ASSUME TipInv, SharedOK, tips' = tips, vault' = vault,
         ledger' \in [Users -> [gained : Nat, reversed : Nat]],
         \A v \in Users : ledger[v].gained <= ledger'[v].gained,
         NEW gift \in [Users -> Nat], opened \subseteq opened', opened' \subseteq Users,
         \A v \in Users : /\ funded'[v] = funded[v] + gift[v]
                          /\ tipBalance'[v] = tipBalance[v] + gift[v]
                          /\ funded[v] + gift[v] <= Atomic * ledger'[v].gained
                          /\ v \notin opened' => gift[v] = 0
  PROVE  AccountsOK' /\ RowsOK'
<1>1. funded \in [Users -> Nat] /\ tipBalance \in [Users -> Nat]
  BY DEF TipInv, TipTypes, T!TipsTypeOK
<1>2. ASSUME NEW u \in Users
      PROVE  Total(Nets, tips \cap To(u)) \in Int /\ Total(Debits, tips \cap From(u)) \in Int
  <2>1. IsFiniteSet(tips \cap To(u)) /\ IsFiniteSet(tips \cap From(u))
    BY FS_Subset DEF TipInv, TipTypes
  <2>2. \A t \in T!Tip : Nets[t] \in Int /\ Debits[t] \in Int
    BY DEF Nets, Debits, T!Tip
  <2>3. \A t \in tips : t \in T!Tip
    BY DEF TipInv, TipTypes, T!TipsTypeOK
  <2> QED BY <2>1, <2>2, <2>3, TotalType
<1>3. RowsOK'
  BY DEF TipInv, RowsOK
<1>4. ASSUME NEW u \in Users
      PROVE  /\ u \notin opened' => funded'[u] = 0 /\ tipBalance'[u] = 0
             /\ tipBalance'[u] = funded'[u] + Total(Nets, tips \cap To(u))
                                            - Total(Debits, tips \cap From(u))
  <2>1. gift[u] \in Nat /\ funded[u] \in Nat /\ tipBalance[u] \in Nat
    BY <1>1
  <2>2. /\ u \notin opened => funded[u] = 0 /\ tipBalance[u] = 0
        /\ tipBalance[u] = funded[u] + Total(Nets, tips \cap To(u))
                                     - Total(Debits, tips \cap From(u))
    BY DEF TipInv, AccountsOK
  <2>3. /\ funded'[u] = funded[u] + gift[u] /\ tipBalance'[u] = tipBalance[u] + gift[u]
        /\ u \notin opened' => gift[u] = 0 /\ u \notin opened
    OBVIOUS
  <2>4. PICK x \in Int, y \in Int :
          x = Total(Nets, tips \cap To(u)) /\ y = Total(Debits, tips \cap From(u))
    BY <1>2
  <2> QED BY <2>1, <2>2, <2>3, <2>4
<1> QED BY <1>3, <1>4 DEF AccountsOK

LEMMA OpenStep ==
  ASSUME TipInv, FundsOK, scene' = scene, ledger' = ledger, NEW u \in Users, T!OpenAccount(u)
  PROVE  TipInv'
<1> PICK c : c = asking[u]
  OBVIOUS
<1>1. /\ c \in Asks /\ c.pc = "open" /\ asking' = [asking EXCEPT ![u] = T!NoAsk]
      /\ opened' = opened \cup {u}
      /\ UNCHANGED <<vault, tips, policy, active, switching>>
  BY DEF TipInv, TipTypes, T!TipsTypeOK, Asks, T!OpenAccount, T!Answer
<1>2. /\ funded \in [Users -> Nat] /\ tipBalance \in [Users -> Nat] /\ opened \subseteq Users
      /\ SharedOK /\ ledger \in [Users -> [gained : Nat, reversed : Nat]]
      /\ ledger[u].gained \in Nat
  BY DEF TipInv, TipTypes, T!TipsTypeOK, FundsOK, SharedOK
<1> DEFINE paid == IF u \in opened THEN 0 ELSE Atomic * c.seen
           gift == [v \in Users |-> IF v = u THEN paid ELSE 0]
<1>3. c.seen \in Nat /\ c.seen <= ledger[u].gained
  BY <1>1 DEF TipInv, AskOK, Asks
<1>4. paid \in Nat /\ funded[u] + paid <= Atomic * ledger[u].gained
  <2>1. Atomic * c.seen \in Nat /\ Atomic * c.seen <= Atomic * ledger[u].gained
    BY <1>2, <1>3, Products
  <2>2. /\ u \notin opened => funded[u] = 0
        /\ funded[u] <= Atomic * ledger[u].gained /\ funded[u] \in Nat
    BY <1>2 DEF TipInv, AccountsOK
  <2>3. CASE u \in opened
    BY <2>2, <2>3
  <2>4. CASE u \notin opened
    BY <2>1, <2>2, <2>4
  <2> QED BY <2>3, <2>4
<1>5. /\ funded' = [funded EXCEPT ![u] = @ + paid]
      /\ tipBalance' = [tipBalance EXCEPT ![u] = @ + paid]
  BY DEF T!OpenAccount, T!Opening
<1> HIDE DEF paid
<1>6. /\ gift \in [Users -> Nat]
      /\ \A v \in Users : /\ funded'[v] = funded[v] + gift[v]
                          /\ tipBalance'[v] = tipBalance[v] + gift[v]
                          /\ funded[v] + gift[v] <= Atomic * ledger'[v].gained
                          /\ v \notin opened' => gift[v] = 0
  <2>1. gift \in [Users -> Nat] /\ \A v \in Users : v \notin opened' => gift[v] = 0
    BY <1>1, <1>4
  <2>2. ASSUME NEW v \in Users
        PROVE  /\ funded'[v] = funded[v] + gift[v]
               /\ tipBalance'[v] = tipBalance[v] + gift[v]
    BY <1>2, <1>4, <1>5
  <2>3. ASSUME NEW v \in Users PROVE funded[v] + gift[v] <= Atomic * ledger'[v].gained
    <3>1. CASE v = u
      BY <1>4, <3>1
    <3>2. CASE v # u
      <4>1. gift[v] = 0 /\ funded[v] \in Nat /\ funded[v] <= Atomic * ledger[v].gained
        BY <1>2, <3>2 DEF TipInv, AccountsOK
      <4> QED BY <4>1
    <3> QED BY <3>1, <3>2
  <2> QED BY <2>1, <2>2, <2>3
<1> HIDE DEF gift
<1>7. AccountsOK' /\ RowsOK'
  <2>1. \A v \in Users : ledger[v].gained <= ledger'[v].gained
    BY <1>2
  <2> QED BY <1>1, <1>2, <1>6, <2>1, SameTips
<1>8. AskOK' /\ asking' \in [Users -> Asks]
  <2>1. T!NoAsk \in Asks /\ T!NoAsk.pc = "idle"
    BY RewardsAssumption DEF T!NoAsk, Asks
  <2> QED BY <1>1, <1>2, <2>1, AskMoves DEF TipInv
<1>9. TipTypes'
  <2>1. funded' \in [Users -> Nat] /\ tipBalance' \in [Users -> Nat]
    BY <1>2, <1>4, <1>5
  <2> QED BY <1>1, <1>2, <1>8, <2>1 DEF TipInv, TipTypes, T!TipsTypeOK, Asks
<1> QED BY <1>1, <1>7, <1>8, <1>9 DEF TipInv, SwitchOK

\* A tip that is sent is one more row, and is in the books of both and the vault.
LEMMA SendStep ==
  ASSUME TipInv, FundsOK, scene' = scene, ledger' = ledger, NEW u \in Users, T!SendTip(u)
  PROVE  TipInv'
<1> PICK c : c = asking[u]
  OBVIOUS
<1> DEFINE to == c.to
           fee == c.fee
           debit == T!Debit(c.amount, fee, c.senderPays)
           credit == T!Credit(c.amount, fee, c.senderPays)
           opening == [v \in Users |-> IF v \in opened THEN 0 ELSE Atomic * points[v]]
           gift == [v \in Users |-> IF v \in {u, to} THEN opening[v] ELSE 0]
           row == [key |-> c.key, from |-> u, to |-> to, amount |-> c.amount, fee |-> fee,
                   debit |-> debit, senderPays |-> c.senderPays]
<1>1. /\ c \in Asks /\ c.pc = "send" /\ asking' = [asking EXCEPT ![u] = T!NoAsk]
      /\ UNCHANGED <<policy, active, switching>>
  BY DEF TipInv, TipTypes, T!TipsTypeOK, Asks, T!SendTip, T!Answer
<1>2. /\ funded \in [Users -> Nat] /\ tipBalance \in [Users -> Nat] /\ opened \subseteq Users
      /\ SharedOK /\ ledger \in [Users -> [gained : Nat, reversed : Nat]]
      /\ points \in [Users -> Nat] /\ tips \subseteq T!Tip /\ IsFiniteSet(tips) /\ vault \in Nat
  BY DEF TipInv, TipTypes, T!TipsTypeOK, FundsOK, SharedOK
<1>3. AskOK' /\ asking' \in [Users -> Asks]
  <2>1. T!NoAsk \in Asks /\ T!NoAsk.pc = "idle"
    BY RewardsAssumption DEF T!NoAsk, Asks
  <2> QED BY <1>1, <1>2, <2>1, AskMoves DEF TipInv
<1>4. CASE UNCHANGED <<opened, tipBalance, funded, vault, tips>>
  <2>1. TipTypes'
    BY <1>1, <1>3, <1>4 DEF TipInv, TipTypes, T!TipsTypeOK, Asks
  <2>2. AccountsOK' /\ RowsOK'
    BY <1>4 DEF TipInv, AccountsOK, RowsOK
  <2> QED BY <1>1, <1>3, <2>1, <2>2 DEF TipInv, SwitchOK
<1>5. CASE /\ opened' = opened \cup {u, to}
           /\ funded' = [v \in Users |-> funded[v] + gift[v]]
           /\ tipBalance' = [v \in Users |-> tipBalance[v] + gift[v]
                              - (IF v = u THEN debit ELSE 0) + (IF v = to THEN credit ELSE 0)]
           /\ vault' = vault + fee
           /\ tips' = tips \cup {row}
           /\ tipBalance[u] + gift[u] >= debit
           /\ ~(\E t \in tips : t.key = c.key)
  <2>1. /\ to \in Hunters /\ to # u /\ to \in Users /\ c.key \in Keys /\ c.amount \in Nat
        /\ fee \in Nat /\ c.senderPays \in BOOLEAN /\ c.amount > 0
        /\ c.senderPays \/ c.amount > fee
    BY <1>1, RewardsAssumption DEF TipInv, AskOK, Asks
  <2>2. /\ debit \in Nat /\ debit > fee /\ credit = debit - fee
        /\ c.amount = IF c.senderPays THEN debit - fee ELSE debit
    BY <2>1 DEF T!Debit, T!Credit
  <2> HIDE DEF debit, credit
  <2>3. /\ row \in T!Tip /\ row.key = c.key /\ row.from = u /\ row.to = to /\ row.fee = fee
        /\ row.debit = debit /\ RowOK(row)
    BY <2>1, <2>2 DEF T!Tip, RowOK
  <2> HIDE DEF row
  <2>4. row \notin tips
    BY <1>5, <2>3
  <2>5. /\ \A t \in tips : Nets[t] \in Int /\ Debits[t] \in Int /\ Fees[t] \in Int
        /\ Nets[row] = credit /\ Debits[row] = debit /\ Fees[row] = fee
    BY <1>2, <2>2, <2>3 DEF Nets, Debits, Fees, T!Tip
  <2>6. ASSUME NEW v \in Users
        PROVE  /\ gift[v] \in Nat
               /\ funded[v] + gift[v] <= Atomic * ledger[v].gained
               /\ v \notin opened' => gift[v] = 0
    <3>1. /\ points[v] \in Nat /\ ledger[v].gained \in Nat /\ points[v] <= ledger[v].gained
      BY <1>2 DEF FundsOK
    <3>2. Atomic * points[v] \in Nat /\ Atomic * points[v] <= Atomic * ledger[v].gained
      BY <3>1, Products
    <3>3. /\ v \notin opened => funded[v] = 0
          /\ funded[v] <= Atomic * ledger[v].gained /\ funded[v] \in Nat
      BY <1>2 DEF TipInv, AccountsOK
    <3>4. CASE v \in opened \/ v \notin {u, to}
      <4>1. gift[v] = 0
        BY <3>4
      <4> QED BY <3>3, <4>1
    <3>5. CASE v \notin opened /\ v \in {u, to}
      <4>1. gift[v] = Atomic * points[v] /\ v \in opened'
        BY <1>5, <3>5
      <4> QED BY <3>2, <3>3, <3>5, <4>1
    <3> QED BY <3>4, <3>5
  <2> HIDE DEF gift
  <2>7. \A v \in Users :
          /\ funded'[v] = funded[v] + gift[v]
          /\ tipBalance'[v] = tipBalance[v] + gift[v]
                - (IF v = u THEN debit ELSE 0) + (IF v = to THEN credit ELSE 0)
    BY <1>5
  <2>8. ASSUME NEW v \in Users
        PROVE  /\ Total(Nets, tips \cap To(v)) \in Int /\ Total(Debits, tips \cap From(v)) \in Int
               /\ Total(Nets, tips' \cap To(v)) =
                    Total(Nets, tips \cap To(v)) + (IF v = to THEN credit ELSE 0)
               /\ Total(Debits, tips' \cap From(v)) =
                    Total(Debits, tips \cap From(v)) + (IF v = u THEN debit ELSE 0)
    <3>0. /\ IsFiniteSet(tips) /\ row \notin tips
          /\ Nets[row] \in Int /\ Nets[row] = credit /\ \A t \in tips : Nets[t] \in Int
          /\ Debits[row] \in Int /\ Debits[row] = debit /\ \A t \in tips : Debits[t] \in Int
      BY <1>2, <2>1, <2>2, <2>4, <2>5
    <3>1. /\ Total(Nets, tips \cap To(v)) \in Int
          /\ Total(Nets, (tips \cup {row}) \cap To(v)) =
               Total(Nets, tips \cap To(v)) + (IF row \in To(v) THEN credit ELSE 0)
      <4>1. /\ Total(Nets, tips \cap To(v)) \in Int
            /\ Total(Nets, (tips \cup {row}) \cap To(v)) =
                 Total(Nets, tips \cap To(v)) + (IF row \in To(v) THEN Nets[row] ELSE 0)
        BY <3>0, TotalOfSelected
      <4> QED BY <3>0, <4>1, Zenon
    <3>2. /\ Total(Debits, tips \cap From(v)) \in Int
          /\ Total(Debits, (tips \cup {row}) \cap From(v)) =
               Total(Debits, tips \cap From(v)) + (IF row \in From(v) THEN debit ELSE 0)
      <4>1. /\ Total(Debits, tips \cap From(v)) \in Int
            /\ Total(Debits, (tips \cup {row}) \cap From(v)) =
                 Total(Debits, tips \cap From(v)) + (IF row \in From(v) THEN Debits[row] ELSE 0)
        BY <3>0, TotalOfSelected
      <4> QED BY <3>0, <4>1, Zenon
    <3>3. (row \in To(v) <=> v = to) /\ (row \in From(v) <=> v = u)
      BY <2>3 DEF To, From
    <3> QED BY <1>5, <3>1, <3>2, <3>3
  <2>9. ASSUME NEW v \in Users
        PROVE  /\ v \notin opened' => funded'[v] = 0 /\ tipBalance'[v] = 0
               /\ funded'[v] <= Atomic * ledger'[v].gained
               /\ tipBalance'[v] = funded'[v] + Total(Nets, tips' \cap To(v))
                                              - Total(Debits, tips' \cap From(v))
               /\ funded'[v] \in Nat /\ tipBalance'[v] \in Nat
    <3>1. /\ v \notin opened => funded[v] = 0 /\ tipBalance[v] = 0
          /\ tipBalance[v] = funded[v] + Total(Nets, tips \cap To(v))
                                       - Total(Debits, tips \cap From(v))
          /\ funded[v] \in Nat /\ tipBalance[v] \in Nat
      BY <1>2 DEF TipInv, AccountsOK
    <3>2. v \notin opened' => v # u /\ v # to /\ v \notin opened
      BY <1>5
    <3>3. credit \in Nat /\ debit \in Nat
      BY <2>1, <2>2
    <3>4. PICK x \in Nat : x = IF v = to THEN credit ELSE 0
      BY <3>3
    <3>5. PICK y \in Nat : y = IF v = u THEN debit ELSE 0
      BY <3>3
    <3>6. /\ tipBalance'[v] = tipBalance[v] + gift[v] - y + x
          /\ Total(Nets, tips' \cap To(v)) = Total(Nets, tips \cap To(v)) + x
          /\ Total(Debits, tips' \cap From(v)) = Total(Debits, tips \cap From(v)) + y
      BY <2>7, <2>8, <3>4, <3>5
    <3>7. /\ tipBalance[v] + gift[v] >= y
          /\ v \notin opened' => y = 0 /\ x = 0
      BY <1>5, <2>6, <3>1, <3>2, <3>4, <3>5
    <3>8. /\ gift[v] \in Nat /\ funded'[v] = funded[v] + gift[v]
          /\ funded[v] + gift[v] <= Atomic * ledger'[v].gained
          /\ v \notin opened' => gift[v] = 0
      BY <2>6, <2>7
    <3>9. Total(Nets, tips \cap To(v)) \in Int /\ Total(Debits, tips \cap From(v)) \in Int
      BY <2>8
    <3>10. tipBalance'[v] \in Nat /\ funded'[v] \in Nat
      BY <3>1, <3>6, <3>7, <3>8
    <3>11. tipBalance'[v] = funded'[v] + Total(Nets, tips' \cap To(v))
                                       - Total(Debits, tips' \cap From(v))
      <4> DEFINE n == Total(Nets, tips \cap To(v))
                 d == Total(Debits, tips \cap From(v))
      <4>1. /\ tipBalance[v] = funded[v] + n - d /\ n \in Int /\ d \in Int
            /\ funded[v] \in Nat /\ gift[v] \in Nat
        BY <3>1, <3>8, <3>9
      <4> HIDE DEF n, d
      <4>2. tipBalance[v] + gift[v] - y + x = (funded[v] + gift[v]) + (n + x) - (d + y)
        BY <4>1
      <4> QED BY <3>6, <3>8, <4>2 DEF n, d
    <3>12. v \notin opened' => funded'[v] = 0 /\ tipBalance'[v] = 0
      BY <3>1, <3>2, <3>6, <3>7, <3>8
    <3> QED BY <3>8, <3>10, <3>11, <3>12
  <2>10. AccountsOK'
    BY <2>9 DEF AccountsOK
  <2>11. RowsOK'
    <3>1. vault' = Total(Fees, tips')
      <4>1. Total(Fees, tips \cup {row}) = Total(Fees, tips) + fee
        <5>1. Fees[row] \in Int /\ IsFiniteSet(tips) /\ row \notin tips
          BY <1>2, <2>1, <2>4, <2>5
        <5>2. \A t \in tips : Fees[t] \in Int
          BY <2>5
        <5>3. Total(Fees, tips \cup {row}) = Total(Fees, tips) + Fees[row]
          BY <5>1, <5>2, TotalWith
        <5> QED BY <2>5, <5>3
      <4>2. vault = Total(Fees, tips)
        BY DEF TipInv, RowsOK
      <4> QED BY <1>5, <4>1, <4>2
    <3>2. \A t, o \in tips' : t.key = o.key => t = o
      BY <1>5, <2>3 DEF TipInv, RowsOK
    <3>3. \A t \in tips' : RowOK(t)
      BY <1>5, <2>3 DEF TipInv, RowsOK
    <3> QED BY <3>1, <3>2, <3>3 DEF RowsOK
  <2>12. TipTypes'
    <3>1. IsFiniteSet(tips')
      BY <1>2, <1>5, FS_AddElement
    <3>2. tips' \subseteq T!Tip /\ vault' \in Nat /\ opened' \subseteq Users
      BY <1>2, <1>5, <2>1, <2>3
    <3>3. funded' \in [Users -> Nat] /\ tipBalance' \in [Users -> Nat]
      BY <1>5, <2>9
    <3> QED BY <1>1, <1>3, <3>1, <3>2, <3>3 DEF TipInv, TipTypes, T!TipsTypeOK, Asks
  <2> QED BY <1>1, <1>3, <2>10, <2>11, <2>12 DEF TipInv, SwitchOK
<1>6. \/ UNCHANGED <<opened, tipBalance, funded, vault, tips>>
      \/ /\ opened' = opened \cup {u, to}
         /\ funded' = [v \in Users |-> funded[v] + gift[v]]
         /\ tipBalance' = [v \in Users |-> tipBalance[v] + gift[v]
                            - (IF v = u THEN debit ELSE 0) + (IF v = to THEN credit ELSE 0)]
         /\ vault' = vault + fee
         /\ tips' = tips \cup {row}
         /\ tipBalance[u] + gift[u] >= debit
         /\ ~(\E t \in tips : t.key = c.key)
  <2> HIDE DEF debit, credit
  <2>1. gift = [v \in Users |-> IF v \in {u, to} THEN T!Opening(v, points[v]) ELSE 0]
    BY DEF T!Opening
  <2> HIDE DEF gift
  <2> QED BY <2>1 DEF T!SendTip, T!tipRows, T!Covers, debit, credit
<1> QED BY <1>4, <1>5, <1>6

\* What pays a user, and leaves the tips alone, keeps the books.
LEMMA PayStep ==
  ASSUME TipInv, FundsOK, UNCHANGED <<scene, tipVars>>,
         ledger' \in [Users -> [gained : Nat, reversed : Nat]],
         \A v \in Users : ledger[v].gained <= ledger'[v].gained,
         \/ UNCHANGED <<opened, tipBalance, funded>>
         \/ \E u \in Members, p \in Nat : Claims(u, p)
  PROVE  TipInv'
<1>1. /\ funded \in [Users -> Nat] /\ tipBalance \in [Users -> Nat] /\ opened \subseteq Users
      /\ SharedOK /\ ledger \in [Users -> [gained : Nat, reversed : Nat]]
      /\ Members \subseteq Users
  BY RewardsAssumption DEF TipInv, TipTypes, T!TipsTypeOK, FundsOK, SharedOK
<1>2. SwitchOK' /\ AskOK'
  <2>1. \A u \in Users : asking[u] \in Asks /\ ledger[u].gained \in Nat /\ ledger'[u].gained \in Nat
    BY <1>1 DEF TipInv, TipTypes, T!TipsTypeOK, Asks
  <2>2. \A u \in Users : asking[u].seen \in Nat
    BY <2>1 DEF Asks
  <2>3. \A u \in Users : asking[u].pc = "open" => asking[u].seen <= ledger'[u].gained
    BY <2>1, <2>2 DEF TipInv, AskOK
  <2> QED BY <2>3 DEF TipInv, SwitchOK, AskOK, tipVars
<1>3. CASE UNCHANGED <<opened, tipBalance, funded>>
  <2> DEFINE gift == [v \in Users |-> 0]
  <2>1. \A v \in Users : funded[v] + gift[v] <= Atomic * ledger'[v].gained
    <3> TAKE v \in Users
    <3>1. ledger[v].gained \in Nat /\ ledger'[v].gained \in Nat
      BY <1>1
    <3>2. /\ Atomic * ledger[v].gained \in Nat /\ Atomic * ledger'[v].gained \in Nat
          /\ Atomic * ledger[v].gained <= Atomic * ledger'[v].gained
      BY <3>1, Products
    <3>3. funded[v] \in Nat /\ funded[v] <= Atomic * ledger[v].gained
      BY <1>1 DEF TipInv, AccountsOK
    <3> QED BY <3>2, <3>3
  <2>2. /\ gift \in [Users -> Nat]
        /\ \A v \in Users : /\ funded'[v] = funded[v] + gift[v]
                            /\ tipBalance'[v] = tipBalance[v] + gift[v]
                            /\ v \notin opened' => gift[v] = 0
    BY <1>1, <1>3
  <2> HIDE DEF gift
  <2>3. opened \subseteq opened' /\ opened' \subseteq Users /\ tips' = tips /\ vault' = vault
    BY <1>1, <1>3 DEF tipVars
  <2>4. AccountsOK' /\ RowsOK'
    BY <1>1, <2>1, <2>2, <2>3, SameTips
  <2>5. TipTypes'
    BY <1>3 DEF TipInv, TipTypes, T!TipsTypeOK, tipVars
  <2> QED BY <1>2, <2>4, <2>5 DEF TipInv
<1>4. ASSUME NEW u \in Members, NEW p \in Nat, Claims(u, p) PROVE TipInv'
  <2> DEFINE gift == [v \in Users |-> IF v = u THEN Atomic * p ELSE 0]
  <2>1. Atomic * p \in Nat /\ Atomic * 0 = 0 /\ u \in Users
    BY <1>1, Products
  <2>2. /\ gift \in [Users -> Nat]
        /\ \A v \in Users : /\ funded'[v] = funded[v] + gift[v]
                            /\ tipBalance'[v] = tipBalance[v] + gift[v]
                            /\ v \notin opened' => gift[v] = 0
    <3>1. gift \in [Users -> Nat]
      BY <2>1
    <3>2. \A v \in Users : /\ funded'[v] = funded[v] + gift[v]
                           /\ tipBalance'[v] = tipBalance[v] + gift[v]
      BY <1>1, <1>4, <2>1 DEF Claims
    <3>3. \A v \in Users : v \notin opened' => gift[v] = 0
      BY <1>4, <2>1 DEF Claims
    <3> QED BY <3>1, <3>2, <3>3
  <2>3. \A v \in Users : funded[v] + gift[v] <= Atomic * ledger'[v].gained
    <3> TAKE v \in Users
    <3>1. /\ ledger[v].gained \in Nat
          /\ ledger'[v].gained = ledger[v].gained + (IF v = u THEN p ELSE 0)
      <4>1. ledger' = [ledger EXCEPT ![u].gained = @ + p]
        BY <1>4 DEF Claims
      <4>2. ledger'[v].gained = ledger[v].gained + (IF v = u THEN p ELSE 0)
        BY <1>1, <2>1, <4>1, LedgerMoves, Zenon
      <4> QED BY <1>1, <4>2
    <3>2. /\ Atomic * ledger[v].gained \in Nat
          /\ Atomic * (ledger[v].gained + p) = Atomic * ledger[v].gained + Atomic * p
      BY <3>1, Products
    <3>3. funded[v] \in Nat /\ funded[v] <= Atomic * ledger[v].gained
      BY <1>1 DEF TipInv, AccountsOK
    <3>4. CASE v = u
      BY <2>1, <3>1, <3>2, <3>3, <3>4
    <3>5. CASE v # u
      <4>1. ledger'[v].gained = ledger[v].gained
        BY <3>1, <3>5
      <4> QED BY <3>2, <3>3, <3>5, <4>1
    <3> QED BY <3>4, <3>5
  <2> HIDE DEF gift
  <2>4. opened \subseteq opened' /\ opened' \subseteq Users /\ tips' = tips /\ vault' = vault
    BY <1>1, <1>4, <2>1 DEF Claims, tipVars
  <2>5. AccountsOK' /\ RowsOK'
    BY <1>1, <2>2, <2>3, <2>4, SameTips
  <2>6. TipTypes'
    <3>1. funded' \in [Users -> Nat] /\ tipBalance' \in [Users -> Nat]
      BY <1>1, <1>4, <2>1 DEF Claims
    <3> QED BY <2>4, <3>1 DEF TipInv, TipTypes, T!TipsTypeOK, tipVars
  <2> QED BY <1>2, <2>5, <2>6 DEF TipInv
<1> QED BY <1>3, <1>4

LEMMA TipStep ==
  MiningInv /\ QuestTypes /\ FundsOK /\ TipInv /\ [Next]_vars => TipInv'
<1> SUFFICES ASSUME MiningInv, QuestTypes, FundsOK, TipInv, [Next]_vars PROVE TipInv'
  OBVIOUS
<1>1. /\ scene' = scene /\ SharedOK /\ SharedOK'
      /\ PaidBy
  BY PointsMove, FundsStep DEF FundsOK, Next, vars
<1>2. CASE T!Step /\ UNCHANGED <<points, ledger>>
  <2>1. ASSUME NEW u \in Users, T!ReadPoints(u) \/ T!TipError(u)
                 \/ \E to \in Users, key \in Keys, amount \in Amounts : T!AskTip(u, to, key, amount)
        PROVE  TipInv'
    <3>1. /\ AskOK' /\ asking' \in [Users -> Asks]
          /\ UNCHANGED <<opened, tipBalance, funded, vault, tips, policy, active, switching>>
      BY <1>2, <2>1, AskSteps DEF TipInv
    <3>2. TipTypes'
      BY <3>1 DEF TipInv, TipTypes, T!TipsTypeOK, Asks
    <3>3. AccountsOK' /\ RowsOK' /\ SwitchOK'
      BY <1>1, <1>2, <3>1 DEF TipInv, AccountsOK, RowsOK, SwitchOK
    <3> QED BY <3>1, <3>2, <3>3 DEF TipInv
  <2>2. ASSUME NEW u \in Users, T!OpenAccount(u) PROVE TipInv'
    BY <1>1, <1>2, <2>2, OpenStep
  <2>3. ASSUME NEW u \in Users, T!SendTip(u) PROVE TipInv'
    BY <1>1, <1>2, <2>3, SendStep
  <2>4. ASSUME NEW p \in Policies, T!SetPolicy(p) PROVE TipInv'
    <3>1. /\ policy' = p
          /\ UNCHANGED <<opened, tipBalance, funded, vault, tips, asking, active, switching>>
      BY <2>4 DEF T!SetPolicy, T!tipRows
    <3>2. TipTypes'
      BY <3>1 DEF TipInv, TipTypes, T!TipsTypeOK
    <3>3. AccountsOK' /\ RowsOK' /\ SwitchOK' /\ AskOK'
      BY <1>1, <1>2, <3>1 DEF TipInv, AccountsOK, RowsOK, SwitchOK, AskOK
    <3> QED BY <3>2, <3>3 DEF TipInv
  <2>5. ASSUME NEW w \in Switchers,
               T!SwitchCommit(w) \/ \E target \in {Points, Token} : T!SwitchScan(w, target)
        PROVE  TipInv'
    <3>1. /\ SwitchOK' /\ UNCHANGED <<opened, tipBalance, funded, vault, tips, asking, policy>>
          /\ active' \subseteq {Points, Token} /\ switching' \in [Switchers -> Switches]
      BY <1>1, <2>5, SwitchSteps DEF TipInv
    <3>2. TipTypes'
      BY <3>1 DEF TipInv, TipTypes, T!TipsTypeOK, Switches
    <3>3. AccountsOK' /\ RowsOK' /\ AskOK'
      BY <1>2, <3>1 DEF TipInv, AccountsOK, RowsOK, AskOK
    <3> QED BY <3>1, <3>2, <3>3 DEF TipInv
  <2> QED BY <1>2, <2>1, <2>2, <2>3, <2>4, <2>5 DEF T!Step
<1>3. CASE UNCHANGED tipVars
  <2>1. ledger' \in [Users -> [gained : Nat, reversed : Nat]]
    BY <1>1 DEF SharedOK
  <2>2. \A v \in Users : ledger[v].gained \in Nat
    BY <1>1 DEF SharedOK
  <2>3. CASE UNCHANGED <<ledger, opened, tipBalance, funded>>
    <3>1. \A v \in Users : ledger[v].gained <= ledger'[v].gained
      BY <2>2, <2>3
    <3> QED BY <1>1, <1>3, <2>1, <2>3, <3>1, PayStep
  <2>4. ASSUME NEW u \in Members, NEW p \in Nat, ledger' = [ledger EXCEPT ![u].gained = @ + p],
               UNCHANGED <<opened, tipBalance, funded>> \/ Claims(u, p)
        PROVE  TipInv'
    <3>1. \A v \in Users : ledger[v].gained <= ledger'[v].gained
      <4>1. u \in Users
        BY RewardsAssumption
      <4>2. \A v \in Users : ledger'[v].gained = ledger[v].gained + (IF v = u THEN p ELSE 0)
        BY <1>1, <2>4, <4>1, LedgerMoves
      <4> QED BY <2>2, <4>2
    <3> QED BY <1>1, <1>3, <2>1, <2>4, <3>1, PayStep
  <2>5. ASSUME NEW r \in Reviewers, Q!RevokeCommit(r), UNCHANGED <<opened, tipBalance, funded>>
        PROVE  TipInv'
    <3>1. \A v \in Users : ledger'[v].gained = ledger[v].gained
      BY <1>1, <2>5, RevocationPays
    <3>2. \A v \in Users : ledger[v].gained <= ledger'[v].gained
      BY <2>2, <3>1
    <3> QED BY <1>1, <1>3, <2>1, <2>5, <3>2, PayStep
  <2>6. CASE UNCHANGED <<points, ledger, opened, tipBalance, funded>>
    BY <2>3, <2>6
  <2>7. ASSUME NEW u \in Members, NEW p \in Nat, Claims(u, p) PROVE TipInv'
    BY <2>4, <2>7 DEF Claims
  <2> QED BY <1>1, <1>2, <2>4, <2>5, <2>6, <2>7 DEF PaidBy
<1> QED BY <1>2, <1>3 DEF Next, vars

LEMMA TipsCorrect == Spec => []TipInv
<1>1. Init => TipInv
  <2> SUFFICES ASSUME Init PROVE TipInv
    OBVIOUS
  <2>1. /\ opened = {} /\ vault = 0 /\ tips = {} /\ active = {Points} /\ policy = DefaultPolicy
        /\ funded = [u \in Users |-> 0] /\ tipBalance = [u \in Users |-> 0]
        /\ ledger = [u \in Users |-> [gained |-> 0, reversed |-> 0]]
        /\ asking = [u \in Users |-> T!NoAsk]
        /\ switching = [w \in Switchers |-> T!NoSwitch]
    BY DEF Init, T!Init
  <2>2. T!NoAsk \in Asks /\ T!NoAsk.pc = "idle"
    BY RewardsAssumption DEF T!NoAsk, Asks
  <2>3. T!NoSwitch \in Switches /\ T!NoSwitch.pc = "idle"
    BY DEF T!NoSwitch, Switches
  <2>4. TipTypes
    BY <2>1, <2>2, <2>3, FS_EmptySet, RewardsAssumption
       DEF TipTypes, T!TipsTypeOK, Asks, Switches
  <2>5. AskOK /\ SwitchOK
    BY <2>1, <2>2, <2>3 DEF AskOK, SwitchOK
  <2>6. \A P : Total(Nets, tips \cap P) = 0 /\ Total(Debits, tips \cap P) = 0
    <3> TAKE P
    <3>1. tips \cap P = {}
      BY <2>1
    <3> QED BY Zenon, <3>1, TotalOfNone
  <2>7. AccountsOK
    <3>1. Atomic * 0 = 0
      BY Products
    <3> QED BY <2>1, <2>6, <3>1 DEF AccountsOK
  <2>8. RowsOK
    BY <2>1, TotalOfNone DEF RowsOK
  <2> QED BY <2>4, <2>5, <2>7, <2>8 DEF TipInv
<1> QED BY <1>1, TipStep, MiningCorrect, FundsCorrect, PTL DEF Spec

\* An account holds what was paid into it and the tips it received less their
\* fees, less what it sent; the vault holds every fee; nobody was paid more than
\* he gained, a key is one tip, and one currency is active where switches do
\* not clash.
THEOREM TipBooksCorrect == Spec => []TipBooks
<1>1. TipInv => TipBooks
  <2> SUFFICES ASSUME TipInv PROVE TipBooks
    OBVIOUS
  <2>1. tips \subseteq T!Tip /\ IsFiniteSet(tips)
    BY DEF TipInv, TipTypes, T!TipsTypeOK
  <2>2. ASSUME NEW u \in Users
        PROVE  /\ Total(TipNet, {t \in tips : t.to = u}) = Total(Nets, tips \cap To(u))
               /\ Total(TipDebit, {t \in tips : t.from = u}) = Total(Debits, tips \cap From(u))
    <3>1. /\ {t \in tips : t.to = u} = tips \cap To(u)
          /\ {t \in tips : t.from = u} = tips \cap From(u)
      BY <2>1 DEF To, From
    <3>2. IsFiniteSet(tips \cap To(u)) /\ IsFiniteSet(tips \cap From(u))
      BY <2>1, FS_Subset
    <3>3. /\ \A t \in tips \cap To(u) : TipNet[t] = Nets[t]
          /\ \A t \in tips \cap From(u) : TipDebit[t] = Debits[t]
      BY <2>1 DEF TipNet, TipDebit, Nets, Debits
    <3>4. /\ Total(TipNet, tips \cap To(u)) = Total(Nets, tips \cap To(u))
          /\ Total(TipDebit, tips \cap From(u)) = Total(Debits, tips \cap From(u))
      BY <3>2, <3>3, TotalAgrees
    <3> QED BY Zenon, <3>1, <3>4
  <2>3. Total(TipFee, tips) = Total(Fees, tips)
    <3>1. \A t \in tips : TipFee[t] = Fees[t]
      BY <2>1 DEF TipFee, Fees
    <3> QED BY <2>1, <3>1, TotalAgrees
  <2>4. Without({"clashing_switches"}) => Cardinality(active) = 1
    <3> SUFFICES ASSUME Without({"clashing_switches"}) PROVE Cardinality(active) = 1
      OBVIOUS
    <3>1. PICK c \in {Points, Token} : active = {c}
      BY DEF TipInv, SwitchOK, Without
    <3> QED BY <3>1, FS_Singleton
  <2>5. \A u \in Users :
          /\ tipBalance[u] = funded[u] + Total(TipNet, {t \in tips : t.to = u})
                                       - Total(TipDebit, {t \in tips : t.from = u})
          /\ funded[u] <= Atomic * ledger[u].gained
          /\ u \notin opened => tipBalance[u] = 0
    BY <2>2 DEF TipInv, AccountsOK
  <2> QED BY <2>3, <2>4, <2>5 DEF TipBooks, TipInv, RowsOK, RowOK
<1> QED BY <1>1, TipsCorrect, PTL

-------------------------------------------------------------------------------
\* Every variable has its type.
THEOREM TypeCorrect == Spec => []TypeOK
<1>1. Init => scene \in Scenes
  BY DEF Init
<1>2. scene \in Scenes /\ [Next]_vars => (scene \in Scenes)'
  BY DEF Next, vars
<1>3. MiningInv /\ QuestTypes /\ FundsOK /\ BadgesOK /\ TipInv /\ scene \in Scenes => TypeOK
  <2> SUFFICES ASSUME MiningInv, QuestTypes, FundsOK, BadgesOK, TipInv, scene \in Scenes PROVE TypeOK
    OBVIOUS
  <2>1. M!MiningTypeOK /\ T!TipsTypeOK /\ SharedOK
    BY DEF MiningInv, MiningTypes, TipInv, TipTypes, FundsOK
  <2>2. Q!QuestsTypeOK
    BY DEF QuestTypes, OfferTypes, BadgesOK, BadgeTypes, Q!QuestsTypeOK, Q!BadgesTypeOK, Statuses, Verdicts,
           Submits, Reviews, BadgeRows, Stews
  <2> QED BY <2>1, <2>2 DEF TypeOK, SharedOK
<1> QED BY <1>1, <1>2, <1>3, MiningCorrect, FundsCorrect, BadgesCorrect, TipsCorrect, PTL DEF Spec
=============================================================================
