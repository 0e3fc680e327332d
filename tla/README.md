# Blocnet: specifications of the backend

Blocnet is a community platform whose backend (`src/backend`, NestJS, Prisma,
PostgreSQL) keeps a custodial wallet, mining points, quests and tips for its
users, and runs the community around projects: roles, proposals, posts, updates
and their moderation, notices, and a ranked feed. This directory holds TLA+
models of those parts, TLC configurations that check them and TLAPS proofs about
them. Paths below are relative to `src/backend/src/` unless they start with
`src/`.

    tlasany M.tla                           parse
    tlc -workers 2 -config MCX_run.cfg MCX  check one run
    tlapm WithdrawalProofs.tla              check the proofs; likewise TotalsProofs,
                                            WithdrawalBooks, WithdrawalRefinement,
                                            DepositProofs, RewardsProofs,
                                            AccountsProofs and CommunityProofs

## 1. The system

One backend process serves HTTP requests and runs several `setInterval`
workers on one event loop. They share the database; handlers interleave at
every `await`. Some writes are single statements, some are `$transaction`s of
the default level (read committed), and the ledger's are mostly serializable.

| component | state | operations | talks to |
|---|---|---|---|
| withdrawals (`wallet/wallet-transaction`, `wallet-admin-withdrawal`, `wallet-withdrawal-settlement`) | `WithdrawalRequest`, `LedgerAccount`, `LedgerEntry` | create, approve, reject, claim, broadcast, confirm, finalize, revert | ledger, custody, chain, audit log |
| settlement worker (`wallet/wallet-settlement-worker`) | `isTickRunning` | a tick: sweeps, then approved withdrawals, then broadcasting ones | sweep, settlement |
| deposit indexer and processor (`wallet/wallet-deposit-indexer`, `wallet-deposit-processor`) | scan cursor, address cache and stream in memory; `OnchainDeposit` | tick, stream events, reprocess, record, credit | chain, ledger |
| sweep (`wallet/wallet-sweep`) | `SweepJob`, `OnchainDeposit` | file a job, claim, send, complete, fail | custody |
| custody (`wallet/custody`) | wallets at the provider | create a wallet, send token, send native | chain |
| provisioning, wallet admin, config (`wallet/*`) | `UserWallet`, runtime configuration | ensure wallet and accounts, enable and disable | custody, all of the above |
| internal transfers, KYC (`wallet/wallet-transaction`, `wallet-admin-kyc`) | ledger, `KycProfile`, `RiskLimit` | transfer within a daily limit, submit, review | provisioning |
| mining (`mining`) | sessions, hourly checkpoints, point ledger, profile points | start, accrue, claim | tip accounts |
| quests, badges (`quests`, `badges`) | `UserQuest`, `QuestSubmission`, `UserBadge`, primary badge | start, submit, review, revoke, auto-complete, grant, delete a badge | mining points |
| tips (`tips`) | `TipAccount`, `TipTransaction`, policy, currencies | open an account, send, change policy or currency | mining points |
| users, roles (`roles`, `users`, `admin-applications`) | `UserRole`, `Profile`, `AdminApplication` | promote, demote, delete, reactivate, apply, review | everything that hangs on a profile |
| admin two-factor (`admin-security`) | credentials, challenges, recovery codes, sessions, policy | enrol, verify, renew codes, disable, require | roles |
| projects (`projects`, `project-proposals`, `project-assignments`) | `Project`, `ProjectProposal`, `ProjectHunter`, invitations | create, propose, decide, assign, invite, answer | users |
| referrals (`referrals`) | `Profile.referredById` | bind at sign-up, by the user, by an administrator | users |
| digest worker (`notifications`) | `lastDigestSentAt` | a tick every five minutes | email |
| moderation (`community-moderation`) | mutes, suspensions, restrictions, warnings on `Profile`; `CommunityModerationAction`, reports | warn, mute, suspend, restrict, clear, report, review | content |
| content (`community-posts`, `comments`, `updates`, `admin-content`) | posts, replies, comments, updates | create, edit, delete, moderate | moderation, levels, notices |
| levels (`levels`) | `UserLevelProgress`, `Profile.currentLevelId` | recalculate | content |
| notices (`notifications`, `follows`, `runtime-flags`) | `Notification`, preferences, follows; flags cached per process | publish, follow, choose, switch a flag, refresh | updates |
| console session (`src/console/lib/admin-session-refresh`, `api-client-http`, `proxy`, API routes) | cookies of one browser; refreshes under way per process; the provider's refresh tokens | open a page, call the API, renew, check a code, sign in and out | admin two-factor, the identity provider |
| edge feed (`edge-engine`) | `EdgeDecision`; circuit breaker in memory | a page of the feed, explain, feedback | updates, follows, scoring service |
| clients (`src/mobile`, `src/console`, `src/homepage`), `src/contracts`, `src/bee` | - | user interface, token, offline scoring | HTTP, chain |

What makes the behaviour hard: a status read before an await and used after it
(reviews, limits, claims, role checks, bars on a user); external effects that
cannot be rolled back (a broadcast transfer, an email); several writes outside a
transaction (a proposal's approval, a sanction and its record, a level); inserts
of audit rows that throw after the work is done; memory lost at a restart
(cursor, stream, circuit); caches refreshed by timers (addresses, flags); lists
read by pages; retries of jobs that may have succeeded; a profile that is
deleted and takes rows of every other part with it. `PROJECT.json` lists each at
its line, with the properties that watch it.

What correctness means, per component:

* withdrawals: money is held once, then either paid once or given back, never
  both; balances always equal the postings; every approved request is decided;
* deposits: every transfer to a known wallet is credited exactly once and not
  before its confirmations; none is passed over; each is swept once;
* transfers and tips: conservation, limits, one effect per key;
* mining and quests: points equal the point ledger, every hour is paid once,
  one reward per completion, a badge for a quest that is completed;
* provisioning: one address per user, the one the custodian has for him; what
  an administrator disabled stays disabled;
* roles: an owner remains; two-factor: sessions and codes belong to the current
  secret; projects: an approved proposal has its project and its hunter, an
  owner exists; referrals: no short cycle, bound once; digests: one per window;
* moderation: what a profile says is what the trail says, each record names
  what was there before; nobody who is barred writes; a decision on content
  stands; levels match the counts;
* console session: cookies belong to the sign-in they came with, a race of
  refreshes ends no session, a retried call is not carried out twice;
* notices: each publication is announced once, to all who had a right to it and
  to nobody who did not want it; the feed misses no update, nor repeats one.

## 2. Modules

| module | what it models |
|---|---|
| `Withdrawal` | user calls, review calls, settlement worker and chain over the withdrawal rows and the ledger |
| `WithdrawalProperties` | its invariants, action and liveness properties, and the refinement mapping |
| `WithdrawalPromise` | the abstract specification: ask, deliver, pay, refund |
| `DepositIndexer` | chain, polling tick, stream, reprocessing, recording and crediting |
| `DepositSweep` | sweep jobs and the sweep part of the settlement tick |
| `DepositPipeline` | both over the same rows, with restarts, the depositor's properties and the refinement mapping |
| `DepositPromise` | the abstract specification: credit, move, close |
| `Mining` | sessions, hourly checkpoints, claims |
| `Badges`, `Quests` | the badges of a user; quests over them, with submissions, reviews and rewards |
| `Tips` | tip accounts, tips, policy, the currency in use |
| `Rewards` | composes the four above over points, their ledger and the tip accounts |
| `Governance` | roles, applications, deactivation and deletion of users |
| `TwoFactor` | the second factor of administrators |
| `Proposals` | projects, proposals, hunters and invitations |
| `Provisioning` | wallets and platform accounts |
| `Transfers` | internal transfers, limits and tiers |
| `Referrals`, `Digest` | who referred whom; the digest worker |
| `ConsoleSession` | an administrator's browser, the console's server and the identity provider |
| `Accounts` | composes the eight above over profiles and roles |
| `Sanctions`, `Content`, `Levels` | sanctions; content and its moderation under them; levels over the content |
| `Notices` | publication of updates, follows, preferences, a cached flag |
| `Feed` | pages of the edge feed, decisions, circuit breaker |
| `Community` | composes the five above over the same items |
| `MCWithdrawal`, `MCDeposit`, `MCRewards`, `MCAccounts`, `MCCommunity` | instances for TLC |
| `Totals` | the total of a quantity over a finite set of rows |
| `TotalsProofs` | TLAPS proofs about totals, used by all that follow |
| `WithdrawalProofs`, `WithdrawalBooks`, `WithdrawalRefinement` | TLAPS proofs about withdrawals: statuses and transfers, the ledger, the refinement |
| `DepositProofs`, `RewardsProofs`, `AccountsProofs`, `CommunityProofs` | TLAPS proofs about the composed modules |

A definition named `X_Something` just before `X` is a plausible bug in `X`; the
properties are tried against it. They are used nowhere else.

### Withdrawal

A step is one database transaction or one custody call, so handlers interleave
where the code awaits.

* `createWithdrawal`: `SubmitCheck` (limits, outside the transaction), then
  `SubmitHold` or `SubmitNothing` (the serializable transaction: replay of a key,
  balance, hold).
* `reviewWithdrawal`: `ReviewRead`, then `Approve` (update by id) or `RejectRead`
  and `RejectCommit` / `RejectRefused` (a read-committed transaction that writes
  absolute values, hence two steps).
* Worker: `ListApproved`, `Claim`, `Prepare`, `Transfer` (or `TransferRefused`,
  `TransferLateError`), `RecordHash` / `RecordError`, `ListBroadcasting`,
  `CheckBroadcast`, `Receipt` / `NoReceipt`, `Finalize...`, `Revert...`, `EndTick`,
  `AbortTick`. `worker` holds the list of the tick and what the handler holds in
  its hands; that the tick excludes itself is `isTickRunning`.
* Chain: `Mine`. Process: `Crash`, which loses calls and tick, not rows.

Two statuses of the enum, `requested` and `failed`, are written by no code. The
ledger is four functions of accounts and a set of entries with their keys.

`Hazards` names what the environment may do; `race_...` lets two calls overlap
where the code does not exclude it, `late_error` is a custody call or a write
that fails after the transfer left, `io_error` any other failing call.

### Deposits

`tick.pc` follows `processNetwork`: `read` (head, address map, scan or not),
`resolve` (first block), `scan` and `credit` (chunk by chunk, deposit by
deposit), `list` and `final` (`finalizeDetectedDeposits`). The stream is `stream`,
`seeking` (the head request that will set the cursor), `inbox` (its task queue)
and `clearing` (a failed stream about to switch the runtime flag off).
`handler` holds a deposit between `recordDetectedDeposit` and
`creditDetectedDeposit`, for the stream and for an administrator. Transfers are
told apart by hash and log index, so a deposit is its own key. Amounts and
confirmations are what they are; addresses are the users who own them.

`DepositSweep` has the same shape: `queue` (file jobs), `jobs` (the listed
page), `claimed`, `sent`. Row status is shared; one action of `DepositPipeline`
is an action of one side, or `Restart` of both.

### Scenes

`Rewards`, `Accounts` and `Community` compose several components whose product
would be far too large. A behaviour therefore starts in one of a set of scenes
and keeps it: `scene` is a set of flags that name the parts at work and the
hazards that may happen. A part that is not named takes no step; the others run
together over the shared rows. A hazard named `overlap_...` lets calls overlap
where the code has no lock, `..._error` lets a call fail between two of its
writes, and the remaining ones are named after what happens
(`late_provision`, `self_deactivate`, `clashing_switches`). A property that a
hazard really breaks says `Without({...})`; a property, or a part of one, that
says nothing holds under all of them. The scenes of a run are `MCScenes` of its
MC module.

### Rewards

* `Mining`: a call first writes the hours that matured (`SyncSession`,
  `CreateHour`, one insert each: a duplicate is refused by the unique key), then
  starts (`PickStart`, `CreateSession`) or claims (`PickClaim`, `SumClaim`,
  `CommitClaim`: the transaction, `ClaimNext`). `funded` is the history of what
  claims paid into the tip account, `View` an overview, `Hour` the clock.
* `Quests`: `StartQuest`; submission in three writes (`ReadForSubmit`,
  `OpenUserQuest`, `CreateSubmission`, `MarkPending`); a review read, then the
  transaction (`BeginReview`, then `Approve`, `RejectSubmission`, `ReopenQuest` or
  `RevokeRead` and `RevokeCommit`, which writes an absolute number of points);
  `CompleteAutoQuest`; `EditReward`, an administrator's change of a quest's
  points or badge. `lapses` is the history of points that were clamped at zero
  or overwritten, `former` that of the badges a quest had before it was edited.
* `Badges`: `Award` and `TakeBack` are part of the quest transactions;
  `GrantBadge`, `CheckMilestone`, `UnsetPrimary`, `DeleteBadge`, `ChoosePrimary` are
  several statements of an administrator or a milestone, `RankBadge` and
  `WritePrimary` their ends. Badges are numbers in the order of their priority.
* `Tips`: `ReadPoints` and `OpenAccount` (a first account opens with the points
  mined so far), `AskTip` (policy read) and `SendTip` (serializable transaction:
  key, balance, fee), `SetPolicy`, `SwitchScan` and `SwitchCommit`.

### Accounts

Calls are checked in one action (`Begin...`) and written in a later one
(`Finish...`), since every service reads first and writes in another await.

* `Governance`: promotion, demotion, deletion, reactivation, hard deletion,
  self-deactivation, sign-in, application and its review. When `FinishHardDelete`
  makes a profile `gone`, the same step takes its credentials, sessions, owned
  projects' rows, proposals and the referrals that point to it
  (`FactorsCascade`, `ProposalsCascade`, `ReferralsCascade`): the foreign keys of
  `src/backend/prisma/schema.prisma`.
* `TwoFactor`: a secret is its number, a code the secret and the batch it was
  made for, hashed as the code hashes it. `OfferSecret`, `Confirm`, `Verify`,
  `OpenSession`, `RenewCodes`, `Disable`, `SetPolicy`, each after its checks.
* `Proposals`: `CreateDirectly`, `Propose`, `BeginDecision`, then the three writes
  `CreateFromProposal`, `AssignApplicant`, `MarkProposal`; `AssignHunter`,
  `InviteHunter`, `Respond`, `JoinProject`.
* `Provisioning`: `Look`, `Wake`, `Mark`, `AskCustodian`, `Store` or `Fail` are the
  awaits of `ensureWalletForUser`; `DisableWallet`, `EnableWallet`, `SwitchFeature`
  the administrator's; `FindPlatform`, `CreatePlatform` the platform account.
* `Transfers`: `BeginTransfer` checks the limit, `CommitTransfer` is the
  serializable transaction; `SubmitKyc`, `ReviewKyc` set the tier.
* `Referrals`: `SignUp`, `BeginBind`, `FinishBind`, `WindowCloses`.
* `Digest`: `BeginTick` takes the time once, `Serve` decides and sends, `Mark`
  writes, `EndTick`, `Restart`; `Advance` lets time pass.
* `ConsoleSession`: a pair of tokens is its number, with the sign-in it is `of`,
  its `age` and whether its refresh token is `spent` or `revoked`. `OpenPage`,
  `ApiFetch`, `VerifyFactor` arrive with the cookies of that moment (`Arrive`);
  `RunRefreshWithTokenLock` joins a refresh of the same token that is under way
  in the same process, `RefreshAdminSession` is the provider's answer, for all
  who wait. `Rejected`, `Accepted` and `CodeChecked` are the backend's answers,
  `Deliver` and `LoseAnswer` what the browser gets of them, `RefreshSessionOnce`
  and `Resend` the client's one renewal and its retry. `SignIn`, `BeginSignOut`,
  `FinishSignOut`, `StoreFactor` and `ClearFactor` write cookies, `Ages` lets a
  token near and pass its end.

### Community

* `Sanctions`: `Order` reads the target, `Impose` writes the profile, `Record`
  files each action with what was there before. A mute of a moderator is cut to
  `MuteCap`, everything to `Cap`.
* `Content`: `Check`, `CheckParent` and `Create` are the awaits of a new post,
  reply, comment or report; `Edit` and `Delete`; `Look`, `SetStatus` and `File` are a
  moderator's decision and its audit entry. A report is an item with a status
  of its own.
* `Levels`: `Recalculate`, `GetMetrics`, `GetTarget`, `GetPrevious`, `SaveProgress`,
  `ShowLevel`, `Announce`: the awaits of one recalculation, which counts twice.
* `Notices`: `Publish`, then `ResolveFlag` (the flag as it is cached), `Resolve`
  (followers by urgency and mute), `LoadRows` (preferences: three queries that
  answer in any order), `Filter` and `Insert`; `Follow`, `Unfollow`, `CheckFollow`
  (the flag) and `SetFollow` (the write, two awaits later), `SetPrefs`; `SetFlag`
  (an administrator's update) and `ReadFlag` (a refresh by the timer), each of
  which has the row's answer in hand until `CacheFlag`, or `FlagError`.
  While a publication is under way, `NoticesWatch` keeps its history: the values
  of the flag that were cached, who was to be told by all of them all along, who
  by one of them at some time, and the preferences everybody had.
* `Feed`: `Open` and `NextPage`, `Find` (the rows before the cursor), `Ask`, then
  `Answer`, `Fail` or `SkipAnalysis` by the circuit, `Persist`; `Explain` scores one
  update again. `FeedsWatch` keeps what a reader had to see all along.
* `Hour` moves the clock for mutes, sanctions and the circuit.

### Assumptions

Wallet, deposit and withdrawal features are on, except where `SwitchFeature`
says. One backend instance runs. Serializable transactions are atomic and single
statements too; so is a transaction that only writes what it computed from rows
no other call writes. In `Withdrawal` and the deposit modules every user has his
wallet and address already; the ledger accounts exist for the users in
`Ledgered` (all, in the runs). `StartBlock` is configured, so the look-back of
an unconfigured network is left out. A transaction hash with several logs is
several deposits handled one by one. The handlers read the head when they
record: an older head only leaves the credit to the next tick. Prices are fixed
and internal transfers move one asset. In `Community`, a published update is
`"active"` like any other content, comments stand for everything that counts for
a level, the order inside a page of the feed is left out, and the flag stands
for every runtime flag.

## 3. Runs

| run | instance | shows |
|---|---|---|
| `withdrawal_faults` | three requests of one user, two reviewers, both custody modes; wallet switches, late errors, failing calls, restarts; 199,152 states | holds, balances, one settlement, one transfer, daily limit, final decisions |
| `withdrawal_promise` | three overlapping submissions, one reviewer, worker fairness; 86,952 states | `WithdrawalPromise` is implemented (nothing refunded is paid) and approved requests are decided |
| `withdrawal_races` | two requests, two reviewers, overlapping submissions, reviews and rejections; 414,518 states | what survives every overlap: hold equals the locked part, nothing overdrawn, confirmed means paid |
| `withdrawal_late_error` | one late error | violates `RefundedUnpaid` |
| `withdrawal_review_race` | two overlapping reviews | violates `SentAtMostOnce` |
| `withdrawal_crash` | one restart, then none | violates `ApprovedSettles` |
| `deposit_ledger` | one deposit; tick, stream and administrator; failing stream, disabled wallet, late sweep errors; 391,988 states | credited once, not before its confirmations |
| `deposit_polling` | three deposits, two of them in one block, polling only; reorganisations, failing calls, restarts, refused sweeps; 308,119 states | nothing passed over but the rest of a block left partly recorded, all else credited and swept in the end, swept once; `DepositPromise` is implemented |
| `deposit_downtime` | stream switched on, no fault at all | violates `NothingSkipped` |
| `rewards` | 15 scenes of mining, quests, badges and tips; about 467,000 states | hours paid, points equal the ledger, one reward per completion, submissions and badges agree with it, tip accounts balance |
| `accounts` | 29 scenes of roles, two-factor, projects, wallets, transfers, referrals, digests and the console's session; about 620,000 states | an owner remains; second factors, projects, wallets, balances, referrals, digests and console sessions agree |
| `community` | 24 scenes of sanctions, content, levels, notices and feed; about 566,000 states | trail and profile agree, decisions stand, levels match, notices and feed are complete |

The violation runs are disagreements with `src/BLOCKCHAIN_ENGINE_DEEP_DIVE.md`;
`PROJECT.json` quotes the lines.

Bounds. `withdrawal_*`: amounts 2, 3 and 3 from a balance of 6: any two requests
fit, three do not; the daily limit of 5 admits the pair with the smallest only.
Two reviewers are two overlapping reviews; in the code more only repeat the
race. In `deposit_polling` the chain stops at block 3 (`MaxHead`), where all three
deposits (one in block 1, two in block 2: the smallest number with a block that
can be partly recorded and one before it) have their two confirmations; range and pages
(`MaxRange`, `Page`, `JobPage`) are smaller than what there is, and one block may
be replaced (`MaxReorg`), fewer than the confirmations. `deposit_ledger` has one
deposit, all that its properties distinguish; `MaxSent` bounds resends. With
`InTreasury <- OnlyD2` the polling run takes the branch of a deposit that is in
the treasury already; it passes too.

`rewards`: two users, of whom one mines and does quests (points of different
users meet only in tips). A session of two hours and three hours of clock reach
a claim that is late and a second session (`MaxSessions`); projections 1 and 2
are a cycle with and without a boost, so that hours of one session are worth
different points, and 1 does not divide evenly. Two submissions per quest are a
rejected and a repeated one; one of the two quests is automatic, both give a
badge, one of them also a milestone's. Two tip keys and amounts are enough for a
replay and for a second tip that no longer fits; the two policies differ in who
pays the fee and which of its limits applies.

`accounts`: three users are the two sides of a race and a third who keeps the
platform owned. `MaxSecrets` of 2 is a secret that replaces another (1 where
profiles are deleted); one project name makes every two proposals clash;
`MaxEntries` of 2 is the smallest number that can exceed a limit together; the
day has 4 slots and the short week 8, ten slots in all, so a weekly reader comes
into his second window and a daily one into his third; one window wraps around
midnight. Two requests of the console and the tab's one renewal are a refresh,
one that joins or overtakes it, and the renewal they share; three pairs of
tokens (`MaxTokens`) are a first, its successor and one spent in between; two
sign-ins and two second factors are one that was left and the one after it.

`community`: `u1` moderates, manages and writes updates, `u2` is a moderator, `u3`
the one who writes and follows. `MaxCalls` counts every call begun: 2 where
sanctions are (a pair of sanctions, or one and a write it should stop), 3
elsewhere (publication, change and refresh; create, moderate and edit). Pages of
one update and two to start with give a second page; two failures open the
circuit; levels need 0, 1 and 2 comments. `Choosers`, the users who change
their settings, is a bound: a follower and somebody who may become one.

Symmetry is that of the calls in progress (and of the reviewers, in `rewards`):
no property, fairness or initial value tells them apart, and these runs have no
liveness property. Deadlock is not an error in the deposit runs, where the chain
stops growing, nor in the three composed ones, where everything that was bounded
may have been used up.

Fairness. `setInterval` keeps ticking and the event loop resumes what it started:
weak fairness of tick, handlers and reviews. Blocks keep coming, and a pending
transfer is mined. `Receipt` is strongly fair: `NoReceipt` and the end of the tick
disable it again and again while the transfer is pending. Failing calls have no
fairness; the liveness properties assume that from some point on none happens
(`Disturbed`), and `Crash` likewise. The composed modules have no worker that
must make progress, except the digest, which promises none.

Disagreements without a run of their own, each found by a change of one cfg, or
by dropping a `Without`:

* `RefundedUnpaid` with `Hazards = {"disable"}` (late_error cfg): a wallet disabled
  while its transfer is in the mempool is refunded.
* `DecisionsAreFinal` with `race_review`: an approval overwrites a rejection.
* `HoldsCoverOpenRequests` with two assets (`TwoAssets`, `SecondInUsdt`): a rejected
  USDT request releases BNT.
* `BooksBalance` with `Hazards = {"race_reject"}`: a rejection writes the balances
  it read before another withdrawal was held (`wallet-admin-withdrawal` 160).
* `BooksBalance` with `LongKeys <- TwoRequests`: cut keys collide.
* `WithinDailyLimit` with `race_submit`.
* `CreditedIsConfirmed` with `reorg`: a recorded transfer that left the chain is
  credited.
* `SweptOnce` and `KeepsDepositPromise` with `Sweeping = {"late_error"}` and
  `MaxSent = 2`: a sweep is sent again.
* `NothingSkipped` and `DepositsArrive` say `PartlyRecorded`: a restart or a failing
  call in the middle of a block leaves one of its deposits recorded, the next
  scan begins behind that block (`wallet-deposit-indexer` 1279), and the others
  are never looked at. Without that exception the polling run violates both.
  `NothingSkipped` with `disable`: the address map of a scan is stale.
* `DepositsArrive` with `Unroutable <- OnlyD2` and `JobPage = 1`: the page is
  taken by a job that can never succeed.
* `EveryHourPaid` with `overlap_calls`: two starts make two sessions.
  `PointsMatchLedger`, `RewardedOnce` and `SubmissionsAgree` with overlapping reviews:
  a quest is rewarded twice, a revocation overwrites points or cuts them at zero;
  a review between a submission's two writes leaves a quest pending for ever.
  `TipBooks` with `clashing_switches`: two active currencies.
* `BadgesAgree` with `overlap_badges` or `badge_error`, or where badges are changed
  while quests are reviewed: a badge that was deleted or revoked stays primary.
  It says `former`: after an administrator gave a quest another badge
  (`quests` 511-529) a revocation looks for the new one (1070-1085), and the old
  one stays with a user whose quest is no longer completed. Without that
  exception the scene `edit_badge` violates it.
* `OwnersRemain` with `overlap_roles`, `self_deactivate` or `promote_inactive`: the
  check counts owners that are deactivated (`roles` service), or none is made.
  An application of any status can be reviewed again.
* `TwoFactorAgrees` with `overlap_factors`: a login or a renewal that overlaps a
  disable leaves a session or codes without a credential; an application that is
  approved makes an administrator without a second factor while the policy
  requires one. And no recovery code that is issued is ever accepted: it is
  hashed with its dashes (`admin-security/admin-two-factor` 224, 741-770) and
  compared without them (782-796), while
  `src/console/components/features/signin/RecoveryCodesStage.tsx:30` says "Each code
  can be used once." The model has codes hashed as they are (`Normalized`).
* `ProjectsAgree` with `decision_error`: the project is made and the proposal stays
  undecided, and cannot be approved because the name is taken.
* `WalletsAgree` with `late_provision` or `feature_switched`: provisioning overwrites
  an administrator's disable; a wallet that was off with the feature is disabled
  without effect (`wallet-admin` 557). With `overlap_platform`: two accounts.
* `TransferBooks` with `overlap_transfers`: the limit is checked outside the
  transaction. `ReferralsAgree` with `overlap_binds`: two users refer each other.
  `DigestOnce` with `restart` or `mark_error`: a digest is sent again.
* `SessionAgrees` with `overlap_sign`: an answer that comes after a sign-out or a
  new sign-in brings the session or the second factor that was left back; with
  `late_answer`: it overwrites newer tokens with spent ones; with `wrong_code`: a
  wrong code sent after the access cookie expired throws the refreshed tokens
  away, since the error answer sets no cookies; with `refresh_error` or
  `lost_answer`: a rotation whose answer is lost loses the session; with
  `overlap_calls`: a page that joins an API call's refresh, or is told that
  another one is under way, goes to sign-in though the session lives; with
  `backend_error` or `lost_answer`: a call that changes something is retried and
  carried out twice.
* `SanctionsAgree` with `single_restriction`: setting one restriction clears the
  other, with no record. `ContentAgrees` with `author_status`: the author of an
  update that was moderated may publish it again (`UpdateUpdateDto.status`), or
  close it while a comment is being written under it; with
  `late_moderation`: a post is written by somebody barred between check and write.
* `NoticesAgree` with `mail_error`: an update is published without notices; with
  `overlap_refresh`: two calls that refresh or change the flag cache their answers in
  the other order, and the older value stays; with `flag_error`: the row is
  changed, the answer is lost and the cache keeps the value it had. The property
  judges a publication by every value of the flag that was cached during it: one
  that read the flag before it was switched on tells those who muted the project,
  and one that read it before it was switched off does not tell them; and a mute
  may be written after the switch-off by a call that had looked before. It
  judges by every mix of the preferences a user had: one who moved his wish from a
  category to an override in one transaction may be told by neither, since the three
  queries may see its two sides. Judged by the row's flag, or by the preferences
  at one moment, it is violated. `EdgeAgrees` with `overlap_feeds`: an older analysis
  overwrites a newer one.

## 4. Proofs

Every invariant and every action property of the passing runs is a theorem, and
so are the refinements of `WithdrawalPromise` and `DepositPromise`. A theorem
holds for every value of the constants that meets the module's named
assumptions: for any number of requests, users, calls, deposits and items, any
scene, and runs of any length.
Where a theorem needs a hypothesis, or its property a `Without`, the disagreements
above show what happens otherwise.

The argument is the same throughout: a property says nothing of what calls in
progress hold, so it is not inductive; the invariant adds, for each place a call
may be at, what it read and may still rely on, and which hazards spare it. Each
was checked by TLC on the run's instance before it was proved. The proofs have
one step per action of the code, and a lemma for each kind of change several
actions make.

### Assumptions on the constants

They are the `...Assumption` of the modules, and what the code or its schema
justifies: amounts are whole and positive, a fee is less than its amount, sets
of users and their roles are finite where owners are counted, `NoUser` and the
like are nobody. Worth a word are:

* `CycleHours > 1` (the code: 24). In a cycle of one hour a session could end in
  the hour in which a call that overlaps with its start took the time.
* `Required[1] = 0`: the first level asks for nothing, as the seeded levels do.
* `Limit` and `Tolerated` are positive: an empty page would never end, and the
  circuit opens after failures only.
* `FirstItemsAssumption`: what is there at first was written and nothing of it
  decided yet.
* `Amounts` of transfers without 0, `Day` positive, a default tier `"basic"` in
  `LimitOf`: the DTO, the clock and the seed.

### Totals

The ledgers' properties compare balances with totals over sets of rows, and
`Total` is a fold. The libraries' induction theorems take an operator and cannot
be used, so `TotalsProofs` does induction with sets in place of predicates:
`SetsByInduction` proves that a finite set has a property (is in a set `G`)
if it has it whenever all its proper subsets have. From this follow that a
total does not depend on the order in which rows are taken, and what it becomes
when a row is added, removed or changed (`TotalOfImage` and the lemmas before it).

### Withdrawals

`WithdrawalProofs`, for every payload that meets `PayloadAssumption` (and, where
noted, `SettingsAssumption`):

* `TypeCorrect`: `TypeOK`, under all hazards.
* `LockedIsHeldCorrect`: the locked balance equals the hold account, under all
  hazards. `HoldInv` adds that a rejection between read and commit saw them
  equal; without that the absolute writes could part them.
* `SettlementCorrect`: `SettlementInv`, if `race_review` is not a hazard, and from
  it `SettledOnceCorrect`, `SentAtMostOnceCorrect`, `ConfirmedIsPaidCorrect` and
  `DecisionsAreFinalCorrect`. It adds three parts. `SentOnce` counts transfers by
  status and by where the worker is; `ReviewsPending` says a review in progress
  looks at a request that is still pending (false when reviews overlap, hence
  the assumption); `InHand` says the worker's current request is broadcasting and
  whether its transfer has left.

`WithdrawalBooks`:

* `NotOverdrawnCorrect`, under all hazards: `OverdraftInv` says that what a
  rejection will write back covers what it read, although it may be out of date.
* `BooksBalanceCorrect`: double entry. `BooksInv` says of each account that it is
  its first balance and the total of its entries, and of a rejection that what
  it read is still there. Hypotheses: not `race_reject`, and no fee on keys that
  are cut (the fee's entry would not be filed).
* `HoldsCoverOpenRequestsCorrect`: the hold of a user is the total of his open
  requests. Hypotheses: neither `race_review` nor `race_reject`, and one asset,
  since a rejection releases BNT whatever was held.
* `WithinDailyLimitCorrect`: `LimitInv` says that what a submission checked is
  still so when it holds the money. Hypotheses: neither `race_submit` nor
  `race_review`.
* `SpendableIsLeftCorrect` and `EarnedIsPaidCorrect` are about the system as a
  whole and no property of a run: a user can spend what he had less his open
  and confirmed requests, and treasury and fee vault together have earned the
  confirmed ones. With the hold account's theorem every unit is with its user, on
  hold, or with the platform for a request that was paid. The first has the
  hypotheses of the hold account, the second needs only that reviews do not overlap.

`WithdrawalRefinement` proves that every behaviour is one of `WithdrawalPromise`
(`KeepsPromiseCorrect`): initial states map to initial states, and each step asks
for, delivers, pays or refunds one request, or leaves the mapped state as it is.
The mapping looks at statuses and transfers; `RefundInv` says that a request is
only refunded once its transfers cannot become payments, which needs
the hold to cover it (`HoldsCoverOpenRequestsCorrect`, `LockedIsHeldCorrect`). From it
also `RefundedUnpaidCorrect`, which the run `withdrawal_late_error` refutes elsewhere.
The hypothesis `Mild` is one asset, overlapping submissions, restarts and, where
the mode is real, failing calls (TLC finds the refinement violated by
a late error, a disabled wallet, and a failing call in mock mode, where a simulated
transfer is settled in the pass that reverts on errors; `SettledLater` says
that real ones never are).

### Deposits

`DepositProofs` has inductive invariants over all of `DepositPipeline`.

* `SweepInv` (`SweepCorrect`), if `late_error` is no hazard of the sweep (refused
  transfers, failing calls and restarts are allowed): a transfer was sent only for
  a job that is processed, and the job in hand knows whether it was sent. From it
  `SweptOnceCorrect`; the property is silent about the hand, so it is not
  inductive.
* `PipelineInv` (`PipelineCorrect`): a deposit in a list is recorded, and an open
  job belongs to a credited one outside the treasury, a completed job to a swept
  one (`JobsFiled`). With it `TypeCorrect` and, under every
  hazard, `CreditedOnceCorrect`: a balance is the total of the deposits credited.
* `KeepsDepositPromiseCorrect`, with the hypothesis of `SweepInv`: every behaviour is
  one of `DepositPromise`. The mapping reads a row that is recorded and not
  credited as awaited and keeps balances and transfers. A step of the indexer
  posts one deposit (`PostsOne`) or maps to a stutter. That the sweeper moves only
  what is credited and not moved yet, and closes only what was moved, takes both
  invariants: `SweepInv` says what was sent for the job in hand, and
  `JobsFiled` that its row is credited still.
* `DeepInv`, without reorganisations: what handlers, tick and rows hold to be
  confirmed is deep enough below the head, which only grows; from it
  `CreditedIsConfirmedCorrect`.
* `PollInv`, if the stream stays off, no wallet is disabled and nothing is reprocessed
  by hand (`Polling`), for any number of deposits in a block: only the tick
  records, in the order of blocks (`InOrder`), and what is missing, other than the
  rest of a partly recorded block, lies above the cursor, in no block before a
  recorded one, and not below the scan, or in its hands. While nothing fails, a
  block begun is in the hands of the scan to its end, so what a cut-off leaves is
  just what `PartlyRecorded` names. From it `NothingSkippedCorrect`.

### Rewards

`RewardsProofs`, for every scene; the properties carry their own `Without`.

* `MiningInv` (`MiningCorrect`): while a call accrues, a session that ended before
  it took the time is on its list, or has all hours but those it still adds
  (`CallOK`); so two calls that overlap add every hour once, and a session is
  claimed with all of them. `OneByOne`, for users whose calls do not overlap. They
  give `EveryHourPaidCorrect`.
* `FundsOK`, `Balanced` and `Covered`: no profile shows more points than its ledger
  gained; it shows exactly what the ledger says until a revocation cuts or
  overwrites it; and what was earned by approvals covers every revocation, so
  nothing is cut unless something was overwritten. They give
  `PointsMatchLedgerCorrect`.
* `QuestOK` relates, quest by quest, status, submissions, reward and the place of
  the submission or review in progress (`Alone`: one each, without overlaps);
  gives `RewardedOnceCorrect` and `SubmissionsAgreeCorrect`.
* `HeldOnce`, `PrimaryOK`, `GivenOK`, `AtRest`: a user holds a badge once, by one
  giver; what a stewardship is about to choose or delete is what it saw; what a
  user holds of a quest whose revocation is under way is the badge the call has
  read, or a former one. They give `BadgesAgreeCorrect`.
* `TipInv`: `AskOK` for a tip between policy and transaction, `SwitchOK` for a
  switch of currency, `AccountsOK` and `RowsOK` for the books; gives
  `TipBooksCorrect`.

### Accounts

`AccountsProofs` proves `AccountsInv` (`AccountsCorrect`), one conjunct per part,
each inductive over the steps of all (the others leave its variables as they
are, or change them by the cascade):

* `OwnersInv`: without overlaps, whoever is about to lose the owner's role or his
  account is not the last one at the time the call is between check and write;
  gives `OwnersRemainCorrect`.
* `FactorInv`: a secret on offer is never the credential (`OfferedIsNew`);
  without overlaps, a call between two queries saw the credential that is still
  there (`Unhindered`); gives `TwoFactorAgreesCorrect`.
* `ProjectInv`: an origin belongs to a decided proposal or to one in hand
  (`InHand`); gives `ProjectsAgreeCorrect`. `WalletInv`: a provisioning call in
  flight holds an address the custodian gave for its user (`Kept`), and unless
  `late_provision` or the feature switch interferes, none works on a wallet that
  was disabled (`KeptDisabled`); with `TransferInv`, gives `WalletsAgreeCorrect`.
  `ReferInv` adds what a binding in flight saw; gives `ReferralsAgreeCorrect`.

Beside it stand three invariants of their own:

* `BooksInv`: a balance is the first one and the total of what was received less
  what was sent; without overlaps, the amount in flight still fits the limit of
  the day, whichever day that is (`LimitsKept`); gives `TransferBooksCorrect`.
* `DigestInv`: no email is later than the tick under way, what is unmarked is the
  email it just sent, and two emails of a reader are as far apart as his cadence
  asks; gives `DigestOnceCorrect`, for any slots, windows and zones.
* `SessionInv`: what requests and refreshes under way know of tokens. Its parts
  hold under growing sets of excluded hazards, `SignHazards` in `FactorHazards` in
  `TokenHazards` in `CallHazards`: `SignsApart` (all that is under way is of this
  sign-in), `FactorNewest`, `TokensInTurn` (newer tokens than the cookies' are on
  their way to them, and only the newest pair is not spent), `OneByOneLetIn`.
  Gives `SessionAgreesCorrect`.

`TypeCorrect` needs all of them, and that no recovery code is hashed as it would
be presented: a code that were accepted after its credential is gone would open
a session of no secret.

### Community

`CommunityProofs`, for every scene, from `TypeInv` (`TypeCorrect`):

* `SanctionInv`: a user no call is about is `Settled`: profile, warnings and
  trail say the same, and each entry names what was there before. Between the
  profile's write and its records the call owes exactly the entries that are
  missing (`Owed`). Gives `SanctionsAgreeCorrect`.
* `WriteInv` (who was allowed to write still is, `Sound`; what is closed keeps its
  text, `Clean`), `RecordInv` (the audit entries of an item chain up to the decision
  in progress) and `LevelInv` (what a recalculation has read is still so,
  `Climbing`); they give `ContentAgreesCorrect`.
* `NoticeInv`: whom a publication will tell lies between who was to be told by each
  flag cached meanwhile and wished it by every mix of his preferences, and who by
  some (`Telling`); the flag it holds was cached meanwhile, and the preferences it
  has loaded are such a mix. `OnceInv`: a published update has its call or its
  notice, one of them and once. `FlagInv`: without overlaps and lost answers, a
  call under way holds what the row still says, and with none the cache has it.
  They give `NoticesAgreeCorrect`.
* `PageInv`: all below the cursor that had to be seen is below it still, all above
  was seen (`Paged`); the newest rows below a cursor leave no gap (`NewestIs`).
  `ReaderInv`, `CircuitInv` and `AnalysisInv` for decisions and circuit. They give
  `EdgeAgreesCorrect`.

Two attempts at proofs changed the models: alternatives of `ConsoleSession` that
overlapped were made disjoint, and `ContentAgrees` now excludes `author_status`
where an author may close the update a comment is being written under.

### Only model-checked

Liveness (`ApprovedSettles`, `DepositsArrive`): fairness and `ENABLED` are out of the
prover's reach. The runs that expect a violation show behaviours, which needs no
proof.

## 5. Not modelled

The parts with status `not_modelled` in `PROJECT.json`, each with its reason:
wrappers of external services, the token contract, offline scoring, price feeds,
and the clients. Within the modelled parts: several networks and processes,
rate-limit backoff, gas, price changes, the page of 100 sweep candidates, what
lists and statistics return, the content of proofs, posts and messages.

Some hazards are known and out of the models: a failed receipt of a withdrawal is
acted on at once, so a reorganisation of its block after that is not seen
(`wallet-withdrawal-settlement` 306); a sweep job is completed on the hash of its
transfer, before any receipt (`wallet-sweep` 336), and gas is not kept back from
a native deposit; an error of the sweep part ends the settlement tick before
withdrawals are looked at; keys against duplicate notices (`auditDedupeKey`) make
the second review of one identity silent; mentions match the beginning of an
email.

The mobile client keeps state of its own and is not modelled: an answer of a token
refresh that comes after sign-out installs the session again; loading older
comments overwrites those that arrived meanwhile; a refresh during "load more" of
notifications leaves a gap.

## 6. Plan

Done: withdrawals, deposits, rewards, accounts with the console's session, and
community, each with the proofs of all its invariants.

What would come next, in this order:

1. The mobile client: session, thread and inbox, composed with `Content` and
   `Notices`.
2. The notification events and the edge engine's administration.
