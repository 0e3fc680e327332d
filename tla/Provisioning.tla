------------------------------ MODULE Provisioning ------------------------------
(***************************************************************************)
(* The wallets of the users and the platform's accounts.  Every signed-in  *)
(* request starts ensureWalletForUser in the background, so its awaits of  *)
(* one user overlap with each other and with an administrator who disables *)
(* or enables the wallet.                                                  *)
(***************************************************************************)
EXTENDS Integers, FiniteSetsExt

CONSTANTS
  Users, NoUser, WalletCalls,
  Holders  \* bound: the users whose wallet is at work; the others have theirs

VARIABLES
  scene,
  walletOn,   \* the wallet feature
  wallet,     \* UserWallet rows: status, address (0 if none), whether the failure
              \* reason is the administrator's, whether the last attempt is recent
  custody,    \* how many wallets the custodian holds under the user's name
  barred,     \* the administrator's last word on a wallet was to disable it
  ensuring,   \* calls of ensureWalletForUser, and of ensurePlatformAccount
  platform    \* accounts of one kind without a user

NoEnsure == [pc |-> "idle", user |-> NoUser, address |-> 0]
Beginning(c) == "wallets" \in scene /\ ensuring[c] = NoEnsure
Proceed(c, pc) == ensuring' = [ensuring EXCEPT ![c].pc = pc]
Finish(c) == ensuring' = [ensuring EXCEPT ![c] = NoEnsure]
SetStatus(u, status) == wallet' = [wallet EXCEPT ![u].status = status, ![u].byAdmin = FALSE]
StatusFor(address) == IF address # 0 THEN "ready" ELSE "provisioning"

\* What was read decides how the call goes on: a disabled wallet is woken unless
\* its administrator disabled it, a ready one is returned, and so is one whose
\* last attempt failed within a minute.
AfterLook(found) ==
  IF \/ ~walletOn \/ found.status = "ready"
     \/ (found.status = "disabled" /\ found.byAdmin) \/ (found.status = "error" /\ found.recent)
  THEN "idle"
  ELSE IF found.status = "disabled" THEN "wake" ELSE "mark"

\* The row is found or created.
Look(c, u) ==
  LET w == wallet[u]
      found == IF w.status # "none" THEN w
               ELSE [w EXCEPT !.status = IF walletOn THEN "provisioning" ELSE "disabled"]
      next == AfterLook(found)
  IN
  /\ Beginning(c)
  /\ wallet' = [wallet EXCEPT ![u] = found]
  /\ ensuring' = IF next = "idle" THEN ensuring
                 ELSE [ensuring EXCEPT ![c] = [pc |-> next, user |-> u, address |-> w.address]]
  /\ UNCHANGED <<walletOn, custody, barred, platform>>

\* From here on the call writes without looking again.
Wake(c) ==
  /\ ensuring[c].pc = "wake"
  /\ SetStatus(ensuring[c].user, StatusFor(ensuring[c].address))
  /\ IF ensuring[c].address # 0 THEN Finish(c) ELSE Proceed(c, "mark")
  /\ UNCHANGED <<walletOn, custody, barred, platform>>

Mark(c) ==
  /\ ensuring[c].pc = "mark"
  /\ wallet' = [wallet EXCEPT ![ensuring[c].user].status = "provisioning",
                              ![ensuring[c].user].byAdmin = FALSE,
                              ![ensuring[c].user].recent = TRUE]
  /\ Proceed(c, "custody")
  /\ UNCHANGED <<walletOn, custody, barred, platform>>

\* The custodian is asked for the wallet of the user's name and makes one only
\* if there is none; a second one of that name is refused and the first found.
Held_Another(u) == custody[u] + 1
Held(u) == IF custody[u] = 0 THEN 1 ELSE custody[u]

AskCustodian(c) ==
  LET u == ensuring[c].user IN
  /\ ensuring[c].pc = "custody"
  /\ \/ /\ custody' = [custody EXCEPT ![u] = Held(u)]
        /\ ensuring' = [ensuring EXCEPT ![c].pc = "store", ![c].address = custody'[u]]
     \/ \* made, or not, but not answered
        /\ "custody_error" \in scene
        /\ custody' \in {custody, [custody EXCEPT ![u] = Held(u)]}
        /\ Proceed(c, "fail")
  /\ UNCHANGED <<walletOn, wallet, barred, platform>>

Store(c) ==
  LET u == ensuring[c].user IN
  /\ ensuring[c].pc = "store"
  /\ wallet' = [wallet EXCEPT ![u].status = "ready", ![u].byAdmin = FALSE,
                              ![u].address = ensuring[c].address]
  /\ \/ Finish(c)
     \/ "custody_error" \in scene /\ Proceed(c, "fail")  \* the audit insert failed
  /\ UNCHANGED <<walletOn, custody, barred, platform>>

Fail(c) ==
  LET u == ensuring[c].user IN
  /\ ensuring[c].pc = "fail"
  /\ wallet' = [wallet EXCEPT ![u].status = "error", ![u].byAdmin = FALSE, ![u].recent = TRUE]
  /\ Finish(c)
  /\ UNCHANGED <<walletOn, custody, barred, platform>>

MinutePasses(u) ==
  /\ wallet[u].recent
  /\ wallet' = [wallet EXCEPT ![u].recent = FALSE]
  /\ UNCHANGED <<walletOn, custody, barred, ensuring, platform>>

\* updateWalletUserStatus writes only if the status changes.
Undisturbed(u) == "late_provision" \in scene \/ \A c \in WalletCalls : ensuring[c].user # u

DisableWallet(u) ==
  /\ "wallets" \in scene /\ Undisturbed(u)
  /\ wallet' = IF wallet[u].status = "disabled" THEN wallet
               ELSE [wallet EXCEPT ![u].status = "disabled", ![u].byAdmin = TRUE]
  /\ barred' = [barred EXCEPT ![u] = TRUE]
  /\ UNCHANGED <<walletOn, custody, ensuring, platform>>

EnableWallet(u) ==
  LET status == StatusFor(wallet[u].address) IN
  /\ "wallets" \in scene /\ Undisturbed(u) /\ wallet[u].status # "none"
  /\ IF wallet[u].status = status THEN UNCHANGED wallet ELSE SetStatus(u, status)
  /\ barred' = [barred EXCEPT ![u] = FALSE]
  /\ UNCHANGED <<walletOn, custody, ensuring, platform>>

SwitchFeature ==
  /\ "feature_switched" \in scene
  /\ walletOn' = ~walletOn
  /\ UNCHANGED <<wallet, custody, barred, ensuring, platform>>

\* ensurePlatformAccount.
FindPlatform(c) ==
  /\ "platform" \in scene /\ ensuring[c] = NoEnsure /\ platform = 0
  /\ "overlap_platform" \in scene \/ \A o \in WalletCalls : ensuring[o] = NoEnsure
  /\ Proceed(c, "platform")
  /\ UNCHANGED <<walletOn, wallet, custody, barred, platform>>

CreatePlatform(c) ==
  /\ ensuring[c].pc = "platform"
  /\ platform' = platform + 1
  /\ Finish(c)
  /\ UNCHANGED <<walletOn, wallet, custody, barred>>

-------------------------------------------------------------------------------
ProvisioningInit ==
  /\ walletOn = TRUE /\ platform = 0
  /\ wallet = [u \in Users |->
       IF "wallets" \in scene /\ u \in Holders
       THEN [status |-> "none", address |-> 0, byAdmin |-> FALSE, recent |-> FALSE]
       ELSE [status |-> "ready", address |-> 1, byAdmin |-> FALSE, recent |-> FALSE]]
  /\ custody = [u \in Users |-> wallet[u].address] /\ barred = [u \in Users |-> FALSE]
  /\ ensuring = [c \in WalletCalls |-> NoEnsure]

ProvisioningStep ==
  \/ \E c \in WalletCalls :
       \/ Wake(c) \/ Mark(c) \/ AskCustodian(c) \/ Store(c) \/ Fail(c)
       \/ FindPlatform(c) \/ CreatePlatform(c) \/ \E u \in Holders : Look(c, u)
  \/ \E u \in Holders : MinutePasses(u) \/ DisableWallet(u) \/ EnableWallet(u)
  \/ SwitchFeature

ProvisioningTypeOK ==
  /\ walletOn \in BOOLEAN /\ platform \in Nat
  /\ wallet \in [Users -> [status : {"none", "provisioning", "ready", "error", "disabled"},
                           address : Nat, byAdmin : BOOLEAN, recent : BOOLEAN]]
  /\ custody \in [Users -> Nat] /\ barred \in [Users -> BOOLEAN]
  /\ ensuring \in [WalletCalls ->
       [pc : {"idle", "wake", "mark", "custody", "store", "fail", "platform"},
        user : Users \cup {NoUser}, address : Nat]]
=================================================================================
