---------------------------- MODULE ConsoleSession ----------------------------
(***************************************************************************)
(* The session of an administrator in the console.  One browser keeps an   *)
(* access and a refresh token and a second-factor session as cookies;      *)
(* pages, proxied calls, renewals and code checks overlap, and each may    *)
(* rotate the refresh token, which the provider takes once.                *)
(***************************************************************************)
EXTENDS Integers, Sequences

CONSTANTS ConsoleCalls, Tab,  \* bound: requests at once, and the tab's one renewal
          MaxTokens, MaxSignIns, MaxFactors  \* bounds

VARIABLES
  scene,
  jar,       \* the browser's cookies; 0 is none
  tokens,    \* by number, each an access and a refresh token given together
  signIns, signedIn, leaving,
  granted,   \* the sign-in each second-factor session was given to
  flights,   \* refreshes under way, by the process's map and token
  requests

sessionVars == <<jar, tokens, signIns, signedIn, leaving, granted, flights, requests>>

Kinds == {"page", "api", "renewal", "verify"}
NoCookies == [access |-> 0, refresh |-> 0, factor |-> 0]
Fresh(t) == t # 0 /\ tokens[t].age = "fresh"
Valid(t) == t # 0 /\ tokens[t].age # "expired"
Idle(c) == requests[c].pc \in {"idle", "away"}

\* Signing in or out or a second factor does not meet another request, unless
\* it is the hazard.
Quiet == "overlap_sign" \in scene \/ (~leaving /\ \A c \in DOMAIN requests : Idle(c))
MayBegin(c) ==
  /\ "console" \in scene /\ Idle(c)
  /\ "overlap_sign" \in scene \/
       (~leaving /\ \A d \in DOMAIN requests : requests[d].kind = "verify" => Idle(d))
  /\ "overlap_calls" \in scene \/ \A d \in DOMAIN requests : Idle(d)

-------------------------------------------------------------------------------
(* A request as it arrives, with the cookies it was sent with.             *)

Request(kind) ==
  [pc |-> "idle", kind |-> kind, access |-> 0, refresh |-> 0, factor |-> 0, got |-> 0,
   cleared |-> FALSE, second |-> FALSE, status |-> "none", tries |-> 0, again |-> FALSE, done |-> 0]

SentWith(r, cookies) ==
  [r EXCEPT !.access = cookies.access, !.refresh = cookies.refresh, !.factor = cookies.factor,
            !.got = 0, !.cleared = FALSE, !.second = FALSE, !.status = "none"]

Forwarded(r) == [r EXCEPT !.pc = "sent"]
Answered(r, status) == [r EXCEPT !.pc = "answered", !.status = status]

Refreshes(r) ==
  CASE r.kind = "renewal" -> TRUE
    [] r.kind = "verify" -> r.access = 0
    [] OTHER -> ~Fresh(r.access)

\* The pages' middleware may be a bundle of its own, with a map of its own.
PoolOf(kind) == IF kind = "page" /\ "split" \in scene THEN "pages" ELSE "routes"

\* One refresh at a time for a token: the later ones take the result of the
\* first, which is of the type its route gave it.
RunRefreshWithTokenLock(c, r) ==
  /\ requests' = [requests EXCEPT ![c] = [r EXCEPT !.pc = "waiting"]]
  /\ flights' =
       IF \E f \in flights : f.pool = PoolOf(r.kind) /\ f.token = r.refresh THEN flights
       ELSE flights \cup {[pool |-> PoolOf(r.kind), token |-> r.refresh, kind |-> r.kind, by |-> c]}

\* Without a token a call is answered at once, and its second factor stays.
NotLetIn(r) == Answered([r EXCEPT !.factor = 0], "unauthorized")

WithoutToken(r) ==
  CASE r.kind = "page" -> Answered(r, "away")
    [] r.kind = "api" /\ r.access # 0 -> Forwarded(r)
    [] OTHER -> NotLetIn(r)

Arrive(c, sent) ==
  LET r == SentWith(sent, jar) IN
  /\ \/ Refreshes(r) /\ r.refresh # 0 /\ RunRefreshWithTokenLock(c, r)
     \/ /\ Refreshes(r) /\ r.refresh = 0
        /\ requests' = [requests EXCEPT ![c] = WithoutToken(r)] /\ UNCHANGED flights
     \/ /\ ~Refreshes(r)
        /\ requests' = [requests EXCEPT ![c] = Forwarded(r)] /\ UNCHANGED flights
  /\ UNCHANGED <<jar, tokens, signIns, signedIn, leaving, granted>>

\* A page whose token is fresh passes at once.
OpenPage(c) == MayBegin(c) /\ ~Fresh(jar.access) /\ Arrive(c, Request("page"))
ApiFetch(c) == MayBegin(c) /\ Arrive(c, Request("api"))
VerifyFactor(c) ==
  /\ "codes" \in scene /\ MayBegin(c) /\ Quiet /\ Len(granted) < MaxFactors
  /\ Arrive(c, Request("verify"))

-------------------------------------------------------------------------------
(* The refresh.                                                            *)

\* What a route makes of the result of another's refresh: that of a proxied
\* call has no ok, and is nothing when it failed.
Reading(kind, starter, outcome) ==
  IF kind = "api" \/ starter # "api" THEN outcome ELSE IF outcome = "ok" THEN "untyped" ELSE "crash"

PageAfter(r, seen) ==
  CASE seen = "ok" \/ (seen # "crash" /\ Valid(r.access)) -> Answered(r, "ok")
    [] seen = "crash" -> Answered(r, "error")
    [] OTHER -> Answered(r, "away")

RenewalAfter(r, seen) ==
  CASE seen \in {"ok", "concurrent"} -> Answered(r, "ok")
    [] seen = "invalid" -> Answered([r EXCEPT !.cleared = TRUE], "unauthorized")
    [] OTHER -> Answered(r, "error")

VerifyAfter(r, seen) ==
  CASE seen = "ok" -> Forwarded(r)
    [] seen = "crash" -> Answered(r, "error")
    [] OTHER -> Answered(r, "unauthorized")

\* Only the call that refreshed deletes its cookies; its joiners do not.
ApiAfter(r, seen, mine) ==
  LET s == [r EXCEPT !.cleared = r.cleared \/ (mine /\ seen = "invalid")] IN
  IF seen = "ok" \/ (r.access # 0 /\ ~r.second) THEN Forwarded(s)
  ELSE IF r.second THEN Answered(s, "unauthorized") ELSE NotLetIn(s)

AfterRefresh(r, seen, new, mine) ==
  LET s == IF seen = "ok" THEN [r EXCEPT !.got = new] ELSE r IN
  CASE r.kind = "page" -> PageAfter(s, seen)
    [] r.kind = "renewal" -> RenewalAfter(s, seen)
    [] r.kind = "verify" -> VerifyAfter(s, seen)
    [] OTHER -> ApiAfter(s, seen, mine)

Resolve(f, outcome) ==
  /\ flights' = flights \ {f}
  /\ requests' = [c \in DOMAIN requests |->
       LET r == requests[c] IN
       IF r.pc = "waiting" /\ PoolOf(r.kind) = f.pool /\ r.refresh = f.token
       THEN AfterRefresh(r, Reading(r.kind, f.kind, outcome), Len(tokens) + 1, f.by = c)
       ELSE r]
  /\ UNCHANGED <<jar, signIns, signedIn, leaving, granted>>

Rotated(t) ==
  /\ Len(tokens) < MaxTokens
  /\ tokens' = Append([tokens EXCEPT ![t].spent = TRUE],
                      [of |-> tokens[t].of, age |-> "fresh", spent |-> FALSE, revoked |-> FALSE])

\* "Already used" has the status of an invalid token, and is told apart first.
AlreadyUsed_StatusFirst == "invalid"
AlreadyUsed == "concurrent"

\* The provider rotates a token once; what comes second meets "already used".
RefreshAdminSession(f) ==
  LET old == tokens[f.token] IN
  \/ ~old.spent /\ ~old.revoked /\ Rotated(f.token) /\ Resolve(f, "ok")
  \/ old.spent /\ ~old.revoked /\ UNCHANGED tokens /\ Resolve(f, AlreadyUsed)
  \/ old.revoked /\ UNCHANGED tokens /\ Resolve(f, "invalid")
  \/ /\ "refresh_error" \in scene
     /\ UNCHANGED tokens \/ (~old.spent /\ ~old.revoked /\ Rotated(f.token))
     /\ Resolve(f, "transient")

-------------------------------------------------------------------------------
(* The backend's answer, and the browser's.                                *)

Used(r) == IF r.got # 0 THEN r.got ELSE r.access

\* A call the backend does not let in refreshes once more, with the refresh
\* token it came with; a code check does not.
Rejected(c) ==
  LET r == requests[c]
      s == [r EXCEPT !.second = TRUE]
  IN
  /\ r.pc = "sent"
  /\ ~Valid(Used(r)) \/ (IF r.kind = "api" THEN "backend_401" ELSE "wrong_code") \in scene
  /\ IF r.kind = "api" /\ ~r.second /\ r.refresh # 0 /\ ~r.cleared
     THEN RunRefreshWithTokenLock(c, s)
     ELSE /\ requests' = [requests EXCEPT ![c] =
                 Answered([r EXCEPT !.got = IF r.kind = "verify" THEN 0 ELSE @], "unauthorized")]
          /\ UNCHANGED flights
  /\ UNCHANGED <<jar, tokens, signIns, signedIn, leaving, granted>>

Accepted(c) ==
  LET r == requests[c] IN
  /\ r.pc = "sent" /\ r.kind = "api" /\ Valid(Used(r))
  /\ \E status \in {"ok"} \cup (IF "backend_error" \in scene THEN {"error"} ELSE {}) :
       requests' = [requests EXCEPT ![c] = Answered([r EXCEPT !.done = @ + 1], status)]
  /\ UNCHANGED <<jar, tokens, signIns, signedIn, leaving, granted, flights>>

\* A wrong code is answered without the tokens that were refreshed for it.
CodeChecked(c) ==
  LET r == requests[c] IN
  /\ r.pc = "sent" /\ r.kind = "verify" /\ Valid(Used(r))
  /\ \/ /\ Len(granted) < MaxFactors
        /\ granted' = Append(granted, tokens[Used(r)].of)
        /\ requests' = [requests EXCEPT ![c] =
             Answered([r EXCEPT !.factor = Len(granted) + 1], "ok")]
     \/ /\ "wrong_code" \in scene
        /\ requests' = [requests EXCEPT ![c] = Answered([r EXCEPT !.got = 0], "error")]
        /\ UNCHANGED granted
  /\ UNCHANGED <<jar, tokens, signIns, signedIn, leaving, flights>>

\* The cookies an answer leaves: a proxied call sets the second factor again.
SetCookies(r) ==
  LET factorSet == r.factor # 0 /\ (r.kind = "api" \/ (r.kind = "verify" /\ r.status = "ok")) IN
  [access |-> IF r.got # 0 THEN r.got ELSE IF r.cleared THEN 0 ELSE jar.access,
   refresh |-> IF r.got # 0 THEN r.got ELSE IF r.cleared THEN 0 ELSE jar.refresh,
   factor |-> IF factorSet THEN r.factor
              ELSE IF r.cleared /\ r.kind = "renewal" THEN 0 ELSE jar.factor]

\* "away": the browser is at the sign-in page.
Ended(pc) == [Request("page") EXCEPT !.pc = pc]

\* To sign in, unless the first repetition, whose second one failed in it, is
\* sent once more before the page is gone.
Redirected(r, stays) ==
  IF stays /\ ~r.again THEN [r EXCEPT !.pc = "ready", !.tries = 1, !.again = TRUE] ELSE Ended("away")

\* A call that is not let in renews the session and is sent again, twice; one
\* whose first repetition fails otherwise is sent once more, whatever it did.
AfterAnswer(r, stays) ==
  IF r.kind # "api" \/ r.status = "ok" THEN Ended(IF r.status = "away" THEN "away" ELSE "idle")
  ELSE CASE r.status = "unauthorized" /\ r.tries < 2 ->
              [r EXCEPT !.pc = "renewing", !.tries = @ + 1]
         [] r.status = "error" /\ r.tries = 1 /\ ~r.again ->
              [r EXCEPT !.pc = "ready", !.again = TRUE]
         [] r.tries = 2 -> Redirected(r, stays)
         [] OTHER -> Ended("idle")

AfterRenewal(r, renewed, stays) ==
  IF renewed THEN [r EXCEPT !.pc = "ready"]
  ELSE IF r.tries < 2 THEN [r EXCEPT !.pc = "ready", !.again = TRUE] ELSE Redirected(r, stays)

\* The tab's one renewal ends for every call that waits for it.
Settled(c, r, stays) ==
  IF c # Tab THEN requests' = [requests EXCEPT ![c] = AfterAnswer(r, stays)]
  ELSE requests' = [d \in DOMAIN requests |->
         IF d = Tab THEN Ended("idle")
         ELSE IF requests[d].pc = "renewing" THEN AfterRenewal(requests[d], r.status = "ok", stays)
         ELSE requests[d]]

Deliver(c) ==
  LET r == requests[c] IN
  /\ r.pc = "answered"
  /\ "late_answer" \in scene \/ r.got = 0 \/ r.got >= jar.refresh
  /\ jar' = SetCookies(r)
  /\ \E stays \in BOOLEAN : Settled(c, r, stays)
  /\ UNCHANGED <<tokens, signIns, signedIn, leaving, granted, flights>>

LoseAnswer(c) ==
  /\ "lost_answer" \in scene /\ requests[c].pc = "answered"
  /\ \E stays \in BOOLEAN : Settled(c, [requests[c] EXCEPT !.status = "error"], stays)
  /\ UNCHANGED <<jar, tokens, signIns, signedIn, leaving, granted, flights>>

RefreshSessionOnce ==
  /\ Idle(Tab) /\ \E c \in ConsoleCalls : requests[c].pc = "renewing"
  /\ Arrive(Tab, Request("renewal"))

Resend(c) == requests[c].pc = "ready" /\ Arrive(c, requests[c])

-------------------------------------------------------------------------------
(* The administrator, and the clock.                                       *)

SignIn ==
  /\ "console" \in scene /\ Quiet /\ Len(tokens) < MaxTokens
  /\ signIns < (IF "sign_out" \in scene THEN MaxSignIns ELSE 1)
  /\ signIns' = signIns + 1 /\ signedIn' = signIns + 1
  /\ tokens' = Append(tokens, [of |-> signIns + 1, age |-> "fresh", spent |-> FALSE, revoked |-> FALSE])
  /\ jar' = [access |-> Len(tokens) + 1, refresh |-> Len(tokens) + 1, factor |-> 0]
  /\ requests' = [c \in DOMAIN requests |-> IF Idle(c) THEN Ended("idle") ELSE requests[c]]
  /\ UNCHANGED <<leaving, granted, flights>>

\* Signing out revokes the sessions only from the tab that signed in, and then
\* deletes the cookies.
BeginSignOut ==
  /\ "sign_out" \in scene /\ Quiet /\ signedIn # 0 /\ ~leaving
  /\ leaving' = TRUE
  /\ \/ UNCHANGED tokens
     \/ tokens' = [t \in DOMAIN tokens |-> [tokens[t] EXCEPT !.revoked = TRUE]]
  /\ UNCHANGED <<jar, signIns, signedIn, granted, flights, requests>>

FinishSignOut ==
  /\ leaving /\ leaving' = FALSE /\ signedIn' = 0
  /\ jar' = NoCookies
  /\ UNCHANGED <<tokens, signIns, granted, flights, requests>>

\* An enrolment, whose session the page stores, and the end of the factor.
StoreFactor ==
  /\ "codes" \in scene /\ Quiet /\ Valid(jar.access) /\ Len(granted) < MaxFactors
  /\ granted' = Append(granted, tokens[jar.access].of)
  /\ jar' = [jar EXCEPT !.factor = Len(granted) + 1]
  /\ UNCHANGED <<tokens, signIns, signedIn, leaving, flights, requests>>

ClearFactor ==
  /\ Quiet /\ jar.factor # 0 /\ jar' = [jar EXCEPT !.factor = 0]
  /\ UNCHANGED <<tokens, signIns, signedIn, leaving, granted, flights, requests>>

Older(age) == IF age = "fresh" THEN "leeway" ELSE "expired"
Ages(t) ==
  /\ t = jar.access /\ tokens[t].age # "expired"
  /\ tokens' = [tokens EXCEPT ![t].age = Older(@)]
  /\ UNCHANGED <<jar, signIns, signedIn, leaving, granted, flights, requests>>

CookieExpires ==
  /\ jar.access # 0 /\ tokens[jar.access].age = "expired"
  /\ jar' = [jar EXCEPT !.access = 0]
  /\ UNCHANGED <<tokens, signIns, signedIn, leaving, granted, flights, requests>>

ConsoleInit ==
  /\ jar = NoCookies /\ tokens = <<>> /\ signIns = 0 /\ signedIn = 0 /\ leaving = FALSE
  /\ granted = <<>> /\ flights = {}
  /\ requests = [c \in ConsoleCalls \cup {Tab} |-> Request("page")]

ConsoleStep ==
  \/ \E c \in ConsoleCalls : OpenPage(c) \/ ApiFetch(c) \/ VerifyFactor(c) \/ Resend(c)
  \/ \E c \in ConsoleCalls : Rejected(c) \/ Accepted(c) \/ CodeChecked(c)
  \/ \E c \in ConsoleCalls \cup {Tab} : Deliver(c) \/ LoseAnswer(c)
  \/ \E f \in flights : RefreshAdminSession(f)
  \/ RefreshSessionOnce \/ SignIn \/ BeginSignOut \/ FinishSignOut
  \/ StoreFactor \/ ClearFactor \/ CookieExpires
  \/ \E t \in DOMAIN tokens : Ages(t)

-------------------------------------------------------------------------------
Pcs == {"idle", "away", "waiting", "sent", "answered", "renewing", "ready"}
Statuses == {"none", "ok", "unauthorized", "error", "away"}

ConsoleTypeOK ==
  /\ signIns \in 0..MaxSignIns /\ signedIn \in 0..signIns /\ leaving \in BOOLEAN
  /\ tokens \in Seq([of : 1..signIns, age : {"fresh", "leeway", "expired"},
                     spent : BOOLEAN, revoked : BOOLEAN])
  /\ jar \in [access : 0..Len(tokens), refresh : 0..Len(tokens), factor : 0..Len(granted)]
  /\ granted \in Seq(1..signIns)
  /\ \A f \in flights : f.token \in DOMAIN tokens /\ requests[f.by].pc = "waiting"
  /\ requests \in [ConsoleCalls \cup {Tab} ->
       [pc : Pcs, kind : Kinds, access : 0..Len(tokens), refresh : 0..Len(tokens),
        factor : 0..Len(granted), got : 0..Len(tokens), cleared : BOOLEAN, second : BOOLEAN,
        status : Statuses, tries : 0..2, again : BOOLEAN, done : 0..2]]
=============================================================================
