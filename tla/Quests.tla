-------------------------------- MODULE Quests --------------------------------
(***************************************************************************)
(* Quests: proofs are submitted, reviewed and sometimes revoked; automatic *)
(* quests complete by themselves.  A reward moves the ledger, the points   *)
(* of the profile and a badge.                                             *)
(***************************************************************************)
EXTENDS Badges

CONSTANTS
  Automatic,       \* the quests verified automatically; the others by review
  RewardPoints,    \* points a quest may be worth
  Submitters, Reviewers,  \* calls that may be in progress at once
  NoQuest,
  MaxSubmissions   \* bound: submissions of a user to a quest

VARIABLES
  ledger,       \* MiningPointLedger rows of a user: sums of gains and reversals
  reward,       \* Quest.rewardPoints
  rewardBadge,  \* Quest.rewardBadgeId, or NoBadge
  former,       \* history: the badges a quest had before it was edited
  status,       \* UserQuest.status, "none" without a row
  submissions,  \* QuestSubmission.verificationStatus, oldest first
  granted,      \* history: rewards granted less rewards revoked
  lapses,       \* history: what went wrong when points were written back
  submitter, reviewer  \* the calls

progress == <<status, submissions, granted, lapses>>
wealth == <<points, ledger, held, primary>>
offer == <<reward, rewardBadge, former>>
Manual == Quests \ Automatic

\* A revocation has updated the submission and the user's quest and holds both
\* rows until it commits.
RowFree(u, q) ==
  \A r \in Reviewers :
    reviewer[r].pc = "revoking" => <<reviewer[r].user, reviewer[r].quest>> # <<u, q>>

-------------------------------------------------------------------------------
(* startQuest and submitQuestProof                                         *)

StartQuest(u, q) ==
  /\ "quests" \in scene /\ status[u][q] = "none"
  /\ status' = [status EXCEPT ![u][q] = "in_progress"]
  /\ UNCHANGED <<submissions, granted, lapses, submitter, reviewer, offer, wealth>>

NoSubmit == [pc |-> "idle", user |-> NoUser, quest |-> NoQuest]
Leave(s) == submitter' = [submitter EXCEPT ![s] = NoSubmit]

MaySubmit_WhilePending(u, q) == status[u][q] # "completed"
MaySubmit(u, q) == status[u][q] \notin {"completed", "pending_verification"}

ReadForSubmit(s, u, q) ==
  /\ "quests" \in scene /\ q \in Manual
  /\ submitter[s].pc = "idle" /\ MaySubmit(u, q)
  /\ "overlap_submit" \in scene \/ \A t \in Submitters : submitter[t].pc = "idle"
  /\ submitter' = [submitter EXCEPT ![s] = [pc |-> "open", user |-> u, quest |-> q]]
  /\ UNCHANGED <<progress, reviewer, offer, wealth>>

\* Three statements: the user's quest, the submission, the user's quest.
OpenUserQuest(s) ==
  LET u == submitter[s].user  q == submitter[s].quest IN
  /\ submitter[s].pc = "open" /\ RowFree(u, q)
  /\ status' = [status EXCEPT ![u][q] = "in_progress"]
  /\ submitter' = [submitter EXCEPT ![s].pc = "create"]
  /\ UNCHANGED <<submissions, granted, lapses, reviewer, offer, wealth>>

CreateSubmission(s) ==
  LET u == submitter[s].user  q == submitter[s].quest IN
  /\ submitter[s].pc = "create" /\ Len(submissions[u][q]) < MaxSubmissions
  /\ submissions' = [submissions EXCEPT ![u][q] = Append(@, "pending")]
  /\ submitter' = [submitter EXCEPT ![s].pc = "mark"]
  /\ UNCHANGED <<status, granted, lapses, reviewer, offer, wealth>>

MarkPending(s) ==
  LET u == submitter[s].user  q == submitter[s].quest IN
  /\ submitter[s].pc = "mark" /\ RowFree(u, q)
  /\ status' = [status EXCEPT ![u][q] = "pending_verification"]
  /\ Leave(s)
  /\ UNCHANGED <<submissions, granted, lapses, reviewer, offer, wealth>>

SubmitError(s) ==
  /\ "submit_error" \in scene /\ submitter[s].pc # "idle"
  /\ Leave(s)
  /\ UNCHANGED <<progress, reviewer, offer, wealth>>

-------------------------------------------------------------------------------
(* Rewards                                                                *)

AwardQuestRewards(u, q, gain, badge) ==
  /\ ledger' = [ledger EXCEPT ![u].gained = @ + gain]
  /\ points' = [points EXCEPT ![u] = @ + gain]
  /\ Award(u, badge, q)
  /\ granted' = [granted EXCEPT ![u][q] = @ + 1]

Complete(u, q, gain, badge) ==
  /\ status' = [status EXCEPT ![u][q] = "completed"]
  /\ AwardQuestRewards(u, q, gain, badge)

NotYet_AnyStatus(u, q) == TRUE
NotYet(u, q) == status[u][q] # "completed"

\* completeAutoQuest: the update of the status is what decides.
CompleteAutoQuest(u, q) ==
  /\ {"quests", "auto"} \cap scene # {} /\ q \in Automatic /\ NotYet(u, q)
  /\ Complete(u, q, reward[q], rewardBadge[q])
  /\ UNCHANGED <<submissions, lapses, submitter, reviewer, offer>>

\* updateQuest writes what its caller sends: the points, the badge, or both.
EditReward(q, gain, badge) ==
  /\ gain # reward[q] => "edit_reward" \in scene
  /\ badge # rewardBadge[q] => "edit_badge" \in scene
  /\ reward' = [reward EXCEPT ![q] = gain]
  /\ rewardBadge' = [rewardBadge EXCEPT ![q] = badge]
  /\ former' = [former EXCEPT ![q] = @ \cup ({rewardBadge[q]} \ {badge})]
  /\ UNCHANGED <<progress, submitter, reviewer, wealth>>

-------------------------------------------------------------------------------
(* verifyQuestSubmission and revokeQuestSubmission                         *)

NoReview == [pc |-> "idle", user |-> NoUser, quest |-> NoQuest, row |-> 0,
             reward |-> 0, badge |-> NoBadge, balance |-> 0]
Put(r, review) == reviewer' = [reviewer EXCEPT ![r] = review]
EndReview(r) == Put(r, NoReview)
SetRow(u, q, i, verdict) ==
  submissions' = [submissions EXCEPT ![u][q][i] = verdict]

Reviewable(verdict) == verdict = "pending"

\* The submission, its state and the quest are read before anything is written.
BeginReview(r, u, q, i) ==
  /\ "quests" \in scene /\ reviewer[r].pc = "idle"
  /\ "overlap_reviews" \in scene \/ \A o \in Reviewers : reviewer[o].pc = "idle"
  /\ i \in 1..Len(submissions[u][q])
  /\ "early_review" \in scene \/
       \A s \in Submitters : submitter[s] # [pc |-> "mark", user |-> u, quest |-> q]
  /\ \E decision \in {"approve", "reject", "revoke"} :
       /\ IF decision = "revoke" THEN submissions[u][q][i] = "approved"
          ELSE Reviewable(submissions[u][q][i])
       /\ Put(r, [NoReview EXCEPT !.pc = decision, !.user = u, !.quest = q,
                    !.row = i, !.reward = reward[q], !.badge = rewardBadge[q]])
  /\ UNCHANGED <<progress, submitter, offer, wealth>>

Approve(r) ==
  LET u == reviewer[r].user  q == reviewer[r].quest IN
  /\ reviewer[r].pc = "approve" /\ RowFree(u, q)
  /\ SetRow(u, q, reviewer[r].row, "approved")
  /\ Complete(u, q, reviewer[r].reward, reviewer[r].badge)
  /\ EndReview(r)
  /\ UNCHANGED <<lapses, submitter, offer>>

\* Two statements, no transaction.
RejectSubmission(r) ==
  LET u == reviewer[r].user  q == reviewer[r].quest IN
  /\ reviewer[r].pc = "reject" /\ RowFree(u, q)
  /\ SetRow(u, q, reviewer[r].row, "rejected")
  /\ Put(r, [reviewer[r] EXCEPT !.pc = "reopen"])
  /\ UNCHANGED <<status, granted, lapses, submitter, offer, wealth>>

ReopenQuest(r) ==
  LET u == reviewer[r].user  q == reviewer[r].quest IN
  /\ reviewer[r].pc = "reopen" /\ RowFree(u, q)
  /\ status' = [status EXCEPT ![u][q] = "in_progress"]
  /\ EndReview(r)
  /\ UNCHANGED <<submissions, granted, lapses, submitter, offer, wealth>>

\* The transaction of a revocation takes the two rows, and reads the points ...
RevokeRead(r) ==
  LET u == reviewer[r].user  q == reviewer[r].quest IN
  /\ reviewer[r].pc = "revoke" /\ RowFree(u, q)
  /\ Put(r, [reviewer[r] EXCEPT !.pc = "revoking", !.balance = points[u]])
  /\ UNCHANGED <<progress, submitter, offer, wealth>>

LessReward_Swapped(balance, gain) == IF gain > balance THEN gain - balance ELSE 0
LessReward(balance, gain) == IF balance > gain THEN balance - gain ELSE 0

\* ... and writes them back less the reward, next to a reversing ledger row.
RevokeCommit(r) ==
  LET u == reviewer[r].user  q == reviewer[r].quest
      gain == reviewer[r].reward  balance == reviewer[r].balance IN
  /\ reviewer[r].pc = "revoking"
  /\ SetRow(u, q, reviewer[r].row, "rejected")
  /\ status' = [status EXCEPT ![u][q] = "in_progress"]
  /\ ledger' = [ledger EXCEPT ![u].reversed = @ + gain]
  /\ points' = IF gain = 0 THEN points
               ELSE [points EXCEPT ![u] = LessReward(balance, gain)]
  /\ lapses' = lapses \cup {l \in {"overwritten", "clamped"} : gain > 0 /\
                             IF l = "clamped" THEN balance < gain ELSE points[u] # balance}
  /\ TakeBack(u, reviewer[r].badge, q)
  /\ granted' = [granted EXCEPT ![u][q] = @ - 1]
  /\ EndReview(r)
  /\ UNCHANGED <<submitter, offer>>

\* A failing statement, or a restart: an open transaction leaves nothing.
ReviewError(r) ==
  /\ "review_error" \in scene /\ reviewer[r].pc # "idle"
  /\ EndReview(r)
  /\ UNCHANGED <<progress, submitter, offer, wealth>>

-------------------------------------------------------------------------------
QuestsInit ==
  /\ Init
  /\ status = [u \in Users |-> [q \in Quests |-> "none"]]
  /\ submissions = [u \in Users |-> [q \in Quests |-> <<>>]]
  /\ granted = [u \in Users |-> [q \in Quests |-> 0]]
  /\ lapses = {} /\ former = [q \in Quests |-> {}]
  /\ submitter = [s \in Submitters |-> NoSubmit]
  /\ reviewer = [r \in Reviewers |-> NoReview]

QuestStep ==
  /\ \/ \E u \in Users, q \in Quests :
          \/ StartQuest(u, q) \/ CompleteAutoQuest(u, q)
          \/ \E s \in Submitters : ReadForSubmit(s, u, q)
          \/ \E r \in Reviewers, i \in 1..MaxSubmissions : BeginReview(r, u, q, i)
     \/ \E s \in Submitters :
          OpenUserQuest(s) \/ CreateSubmission(s) \/ MarkPending(s) \/ SubmitError(s)
     \/ \E q \in Quests, gain \in RewardPoints, badge \in Badges \cup {NoBadge} : EditReward(q, gain, badge)
     \/ \E r \in Reviewers :
          Approve(r) \/ RejectSubmission(r) \/ ReopenQuest(r) \/ RevokeRead(r)
          \/ RevokeCommit(r) \/ ReviewError(r)
  /\ UNCHANGED steward

BadgeStep == Step /\ UNCHANGED <<points, ledger, offer, progress, submitter, reviewer>>

QuestsTypeOK ==
  /\ BadgesTypeOK
  /\ reward \in [Quests -> RewardPoints]
  /\ rewardBadge \in [Quests -> Badges \cup {NoBadge}]
  /\ former \in [Quests -> SUBSET (Badges \cup {NoBadge})]
  /\ status \in [Users -> [Quests -> {"none", "in_progress", "pending_verification", "completed"}]]
  /\ submissions \in [Users -> [Quests -> Seq({"pending", "approved", "rejected"})]]
  /\ granted \in [Users -> [Quests -> Int]]
  /\ lapses \subseteq {"overwritten", "clamped"}
  /\ submitter \in [Submitters -> [pc : {"idle", "open", "create", "mark"},
       user : Users \cup {NoUser}, quest : Quests \cup {NoQuest}]]
  /\ reviewer \in [Reviewers ->
       [pc : {"idle", "approve", "reject", "reopen", "revoke", "revoking"},
        user : Users \cup {NoUser}, quest : Quests \cup {NoQuest},
        row : Nat, reward : Nat, badge : Badges \cup {NoBadge}, balance : Nat]]
=============================================================================
