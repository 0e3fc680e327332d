------------------------------- MODULE Referrals -------------------------------
(***************************************************************************)
(* Who was referred by whom: with the code a user signs up with, by the    *)
(* user within a window after that, or by an administrator at any time.    *)
(* A binding is checked, then written in a later await without looking     *)
(* again.  The badges and quests it may earn are those modules' own calls. *)
(***************************************************************************)
EXTENDS Integers, FiniteSetsExt

CONSTANTS Users, NoUser, Binders

VARIABLES
  scene, roles, account,
  referrer,  \* referredById of a profile, NoUser if there is none
  early,     \* the users whose bind window is open
  bindings,  \* how often a profile was given a referrer
  binding    \* calls between their checks and their write

NoBinding == [user |-> NoUser, by |-> NoUser]

Unhurried == "overlap_binds" \in scene \/ \A o \in Binders : binding[o] = NoBinding

\* authenticateRequest makes the profile and may give it a referrer at once.
SignUp(u, r) ==
  /\ "referrals" \in scene /\ Unhurried /\ account[u] = "gone"
  /\ r # NoUser => r # u /\ account[r] # "gone"
  /\ account' = [account EXCEPT ![u] = "active"]
  /\ roles' = [roles EXCEPT ![u] = {"user"}]
  /\ referrer' = [referrer EXCEPT ![u] = r]
  /\ bindings' = [bindings EXCEPT ![u] = IF r = NoUser THEN 0 ELSE 1]
  /\ early' = early \cup {u}
  /\ UNCHANGED binding

\* Nobody refers himself, or the one who referred him.
NoLoop_Any(u, r) == r # u
NoLoop(u, r) == r # u /\ referrer[r] # u
Bindable(u, r) ==
  account[u] # "gone" /\ account[r] # "gone" /\ referrer[u] = NoUser /\ NoLoop(u, r)

BeginBind(b, u, r, byAdmin) ==
  /\ "referrals" \in scene /\ Unhurried /\ binding[b] = NoBinding
  /\ byAdmin \/ (account[u] = "active" /\ u \in early)
  /\ Bindable(u, r)
  /\ binding' = [binding EXCEPT ![b] = [user |-> u, by |-> r]]
  /\ UNCHANGED <<roles, account, referrer, early, bindings>>

FinishBind(b) ==
  LET u == binding[b].user  r == binding[b].by IN
  /\ binding[b] # NoBinding
  /\ IF account[u] = "gone" \/ account[r] = "gone" THEN UNCHANGED <<referrer, bindings>>
     ELSE /\ referrer' = [referrer EXCEPT ![u] = r]
          /\ bindings' = [bindings EXCEPT ![u] = @ + 1]
  /\ binding' = [binding EXCEPT ![b] = NoBinding]
  /\ UNCHANGED <<roles, account, early>>

WindowCloses(u) ==
  /\ u \in early
  /\ early' = early \ {u}
  /\ UNCHANGED <<roles, account, referrer, bindings, binding>>

-------------------------------------------------------------------------------
ReferralsInit ==
  /\ referrer = [u \in Users |-> NoUser] /\ early = {}
  /\ bindings = [u \in Users |-> 0] /\ binding = [b \in Binders |-> NoBinding]

ReferralStep ==
  \/ \E b \in Binders :
       \/ FinishBind(b)
       \/ \E u, r \in Users, byAdmin \in BOOLEAN : BeginBind(b, u, r, byAdmin)
  \/ \E u \in Users : WindowCloses(u) \/ \E r \in Users \cup {NoUser} : SignUp(u, r)

\* A profile that is deleted is nobody's referrer any more.
ReferralsCascade ==
  LET gone(u) == account'[u] = "gone" IN
  /\ referrer' = [u \in Users |-> IF gone(u) \/ (referrer[u] # NoUser /\ gone(referrer[u]))
                                  THEN NoUser ELSE referrer[u]]
  /\ bindings' = [u \in Users |-> IF referrer'[u] = NoUser THEN 0 ELSE bindings[u]]
  /\ early' = {u \in early : ~gone(u)}
  /\ UNCHANGED binding

ReferralsTypeOK ==
  /\ referrer \in [Users -> Users \cup {NoUser}] /\ early \subseteq Users
  /\ bindings \in [Users -> Nat]
  /\ binding \in [Binders -> [user : Users \cup {NoUser}, by : Users \cup {NoUser}]]
===============================================================================
