------------------------------- MODULE TwoFactor -------------------------------
(***************************************************************************)
(* The second factor of the administrators: enrolment, login, recovery     *)
(* codes, disabling, and the policy that requires it of every one of them. *)
(* Apart from its last transaction, a call is a series of single queries.  *)
(***************************************************************************)
EXTENDS Integers, FiniteSetsExt

CONSTANTS Users, NoUser, FactorCalls, MaxSecrets

VARIABLES
  scene, roles, account,
  issued,      \* how many secrets were generated; a secret is its number
  credential,  \* AdminTotpCredential: its secret, 0 if there is no row
  challenge,   \* AdminTotpEnrollmentChallenge, likewise
  codes,       \* recovery codes as they were hashed, one for the ten of a batch
  sessions,    \* unrevoked sessions, as the secrets they were opened with
  required,    \* require2faForAdminPanel
  factoring    \* calls between two queries

factorRows == <<issued, credential, challenge, codes, sessions, required>>

GovernanceRoles == {"owner", "dev", "admin"}
Eligible(u) == roles[u] \cap GovernanceRoles # {}
MayCall(u) == "factors" \in scene /\ account[u] = "active" /\ Eligible(u)

\* A batch of recovery codes is hashed with the dashes between its segments,
\* and a code that is presented is hashed without them.
Batch(secret, renewed) == {[of |-> secret, renewed |-> renewed, dashed |-> TRUE]}
Normalized(code) == [code EXCEPT !.dashed = FALSE]

NoFactor == [kind |-> "none", secret |-> 0]
Totp(secret) == [kind |-> "totp", secret |-> secret]
Recovery(code) == [kind |-> "recovery", code |-> code]
Presented(u) == {Totp(s) : s \in 1..issued} \cup {Recovery(k) : k \in codes[u]}

NoFactorCall == [pc |-> "idle", goal |-> "none", user |-> NoUser,
                 factor |-> NoFactor, secret |-> 0, value |-> FALSE]
Enter(c, call) ==
  /\ factoring[c] = NoFactorCall
  /\ "overlap_factors" \in scene \/ \A o \in FactorCalls : factoring[o] = NoFactorCall
  /\ factoring' = [factoring EXCEPT ![c] = call]
  /\ UNCHANGED factorRows
Leave(c) == factoring' = [factoring EXCEPT ![c] = NoFactorCall]
Doing(c, pc, goal) == factoring[c].pc = pc /\ factoring[c].goal = goal

BeginEnrollment(c, u) ==
  /\ MayCall(u) /\ credential[u] = 0
  /\ Enter(c, [NoFactorCall EXCEPT !.pc = "write", !.goal = "enroll", !.user = u])

\* Bound: one secret where profiles are deleted as well.
MoreSecrets == issued < (IF "removal" \in scene THEN 1 ELSE MaxSecrets)

OfferSecret(c) ==
  /\ Doing(c, "write", "enroll") /\ MoreSecrets
  /\ issued' = issued + 1
  /\ challenge' = [challenge EXCEPT ![factoring[c].user] = issued']
  /\ Leave(c) /\ UNCHANGED <<credential, codes, sessions, required>>

\* confirmEnrollment reads the challenge and checks a code of its secret.
BeginConfirm(c, u) ==
  /\ MayCall(u) /\ challenge[u] # 0
  /\ Enter(c, [NoFactorCall EXCEPT !.pc = "write", !.goal = "confirm", !.user = u,
                                   !.secret = challenge[u]])

\* An expired challenge is deleted when it is confirmed.
ExpiredChallenge(u) ==
  /\ MayCall(u) /\ challenge[u] # 0
  /\ challenge' = [challenge EXCEPT ![u] = 0]
  /\ UNCHANGED <<issued, credential, codes, sessions, required, factoring>>

AfterConfirm(u) == [challenge EXCEPT ![u] = 0]

\* One transaction: it fails as a whole if the challenge is gone.
Confirm(c) ==
  LET u == factoring[c].user  s == factoring[c].secret IN
  /\ Doing(c, "write", "confirm")
  /\ IF challenge[u] = 0 THEN UNCHANGED <<credential, challenge, codes, sessions>>
     ELSE /\ credential' = [credential EXCEPT ![u] = s]
          /\ challenge' = AfterConfirm(u)
          /\ codes' = [codes EXCEPT ![u] = Batch(s, FALSE)]
          /\ sessions' = [sessions EXCEPT ![u] = {s}]
  /\ Leave(c) /\ UNCHANGED <<issued, required>>

\* Login, regeneration and disabling read the credential (and disabling the
\* policy) before they check the factor that is presented.
BeginWithFactor(c, u, goal, factor) ==
  /\ MayCall(u) /\ credential[u] # 0
  /\ goal = "disable" => ~required
  /\ Enter(c, [NoFactorCall EXCEPT !.pc = "verify", !.goal = goal, !.user = u,
                                   !.factor = factor, !.secret = credential[u]])

\* assertValidFactor.  A login reads the credential again; the others pass the
\* one they read, but record its use, which fails when its row is gone.
Accepted(c) ==
  LET u == factoring[c].user  factor == factoring[c].factor
      secret == IF factoring[c].goal = "login" THEN credential[u] ELSE factoring[c].secret
  IN IF factor.kind = "totp" THEN credential[u] # 0 /\ factor.secret = secret
     ELSE Normalized(factor.code) \in codes[u]

Verify(c) ==
  LET u == factoring[c].user  factor == factoring[c].factor IN
  /\ factoring[c].pc = "verify"
  /\ IF Accepted(c)
     THEN factoring' = [factoring EXCEPT ![c].pc = "write", ![c].factor = NoFactor,
            ![c].secret = IF factor.kind = "totp" THEN factor.secret ELSE credential[u]]
     ELSE Leave(c)
  /\ codes' = IF factor.kind = "recovery" /\ Accepted(c)
              THEN [codes EXCEPT ![u] = @ \ {Normalized(factor.code)}] ELSE codes
  /\ UNCHANGED <<issued, credential, challenge, sessions, required>>

OpenSession(c) ==
  LET u == factoring[c].user IN
  /\ Doing(c, "write", "login")
  /\ sessions' = [sessions EXCEPT ![u] = @ \cup {factoring[c].secret}]
  /\ Leave(c) /\ UNCHANGED <<issued, credential, challenge, codes, required>>

RenewCodes(c) ==
  LET u == factoring[c].user IN
  /\ Doing(c, "write", "regenerate")
  /\ codes' = [codes EXCEPT ![u] = Batch(factoring[c].secret, TRUE)]
  /\ Leave(c) /\ UNCHANGED <<issued, credential, challenge, sessions, required>>

AfterDisable_KeepingSessions(u) == sessions
AfterDisable(u) == [sessions EXCEPT ![u] = {}]

\* One transaction: it fails as a whole if the credential is gone.
Disable(c) ==
  LET u == factoring[c].user IN
  /\ Doing(c, "write", "disable")
  /\ IF credential[u] = 0 THEN UNCHANGED <<credential, challenge, codes, sessions>>
     ELSE /\ credential' = [credential EXCEPT ![u] = 0]
          /\ challenge' = [challenge EXCEPT ![u] = 0]
          /\ codes' = [codes EXCEPT ![u] = {}]
          /\ sessions' = AfterDisable(u)
  /\ Leave(c) /\ UNCHANGED <<issued, required>>

\* updatePolicy: the factor is required only while every eligible user has one.
BeginPolicy(c, a, value) ==
  /\ MayCall(a) /\ "owner" \in roles[a]
  /\ value => \A u \in Users : Eligible(u) => credential[u] # 0
  /\ Enter(c, [NoFactorCall EXCEPT !.pc = "write", !.goal = "policy", !.user = a, !.value = value])

SetPolicy(c) ==
  /\ Doing(c, "write", "policy")
  /\ required' = factoring[c].value
  /\ Leave(c) /\ UNCHANGED <<issued, credential, challenge, codes, sessions>>

SessionExpires(u, s) ==
  /\ s \in sessions[u]
  /\ sessions' = [sessions EXCEPT ![u] = @ \ {s}]
  /\ UNCHANGED <<issued, credential, challenge, codes, required, factoring>>

-------------------------------------------------------------------------------
FactorsInit ==
  /\ issued = 0 /\ required = FALSE
  /\ credential = [u \in Users |-> 0] /\ challenge = [u \in Users |-> 0]
  /\ codes = [u \in Users |-> {}] /\ sessions = [u \in Users |-> {}]
  /\ factoring = [c \in FactorCalls |-> NoFactorCall]

FactorStep ==
  \/ \E c \in FactorCalls :
       \/ OfferSecret(c) \/ Confirm(c) \/ Verify(c) \/ OpenSession(c)
       \/ RenewCodes(c) \/ Disable(c) \/ SetPolicy(c)
       \/ \E u \in Users :
            \/ BeginEnrollment(c, u) \/ BeginConfirm(c, u)
            \/ \E goal \in {"login", "regenerate", "disable"}, factor \in Presented(u) :
                 BeginWithFactor(c, u, goal, factor)
            \/ \E value \in BOOLEAN : BeginPolicy(c, u, value)
  \/ \E u \in Users : ExpiredChallenge(u) \/ \E s \in sessions[u] : SessionExpires(u, s)

\* The rows of a profile that is deleted go with it, and no new ones can be
\* written for it, so its calls come to nothing.
FactorsCascade ==
  LET gone(u) == account'[u] = "gone" IN
  /\ credential' = [u \in Users |-> IF gone(u) THEN 0 ELSE credential[u]]
  /\ challenge' = [u \in Users |-> IF gone(u) THEN 0 ELSE challenge[u]]
  /\ codes' = [u \in Users |-> IF gone(u) THEN {} ELSE codes[u]]
  /\ sessions' = [u \in Users |-> IF gone(u) THEN {} ELSE sessions[u]]
  /\ factoring' = [c \in FactorCalls |->
       IF factoring[c].user \in Users /\ gone(factoring[c].user) THEN NoFactorCall ELSE factoring[c]]
  /\ UNCHANGED <<issued, required>>

FactorsTypeOK ==
  /\ issued \in 0..MaxSecrets /\ required \in BOOLEAN
  /\ credential \in [Users -> 0..issued] /\ challenge \in [Users -> 0..issued]
  /\ sessions \in [Users -> SUBSET (1..issued)]
  /\ \A u \in Users : codes[u] \subseteq [of : 1..issued, renewed : BOOLEAN, dashed : BOOLEAN]
  /\ \A c \in FactorCalls :
       /\ factoring[c].pc \in {"idle", "verify", "write"} /\ factoring[c].secret \in 0..issued
       /\ factoring[c].goal \in {"none", "enroll", "confirm", "login", "regenerate", "disable", "policy"}
================================================================================
