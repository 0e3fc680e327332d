------------------------------- MODULE Community -------------------------------
(***************************************************************************)
(* What people see of each other: content and its moderation, sanctions,   *)
(* levels, notices, and the edge feed, all over the same items.            *)
(* scene says which parts are at work and which hazards may happen.        *)
(***************************************************************************)
EXTENDS Integers, Sequences, FiniteSetsExt

CONSTANTS
  Scenes,  \* bound: the scenes that are looked at
  Users, NoUser, Callers, Rank, Hours, MuteCap, Cap, LastHour, MaxCalls,
  Chiefs, Managers, Speakers, Texts, FirstItems, MaxItems, Required,
  Authors, Followers, Choosers,
  Limit, Tolerated, Pause

ASSUME CommunityAssumption ==
  /\ NoUser \notin Users /\ Rank \in [Users -> 0..3] /\ MuteCap <= Cap
  /\ Chiefs \subseteq {u \in Users : Rank[u] = 3} /\ Managers \subseteq {u \in Users : Rank[u] = 3}
  /\ Speakers \subseteq Users /\ Authors \cup Followers \cup Choosers \subseteq Users
  /\ Hours \subseteq Nat \ {0} /\ LastHour \in Nat \ {0} /\ MaxCalls \in [Scenes -> Nat]
  /\ Required \in Seq(Nat) /\ Required[1] = 0
  /\ {Limit, Tolerated, Texts} \subseteq Nat \ {0} /\ MaxItems \in Nat /\ Pause \in Nat

\* What is there at first was written, and not dealt with yet.
ASSUME FirstItemsAssumption ==
  \A s \in Scenes :
    /\ FirstItems[s] \in Seq([kind : {"post", "reply", "update", "comment", "report"}, by : Users,
                              of : Nat, text : Nat, kept : Nat, status : {"open", "active"},
                              fair : {TRUE}])
    /\ \A i \in DOMAIN FirstItems[s] :
         FirstItems[s][i].status = IF FirstItems[s][i].kind = "report" THEN "open" ELSE "active"

VARIABLES
  scene, clock, calls,
  until, warnings, trail, sanctioning,
  items, records, writing, reviewing,
  progress, shown, told,
  follows, following, prefs, mailing, notices, flagRow, flagCache, refreshing,
  feeds, decisions, circuit

L == INSTANCE Levels
N == INSTANCE Notices
F == INSTANCE Feed

sanctionVars == <<until, warnings, trail, sanctioning>>
contentVars == <<items, records, writing, reviewing>>
levelVars == <<progress, shown, told>>
noticeVars == <<follows, following, prefs, notices, flagRow, flagCache, refreshing>>
feedVars == <<feeds, decisions, circuit>>
vars == <<scene, clock, calls, sanctionVars, contentVars, levelVars, noticeVars, mailing, feedVars>>

Init ==
  /\ scene \in Scenes /\ clock = 1 /\ calls = 0
  /\ L!SanctionsInit /\ L!ContentInit /\ L!LevelsInit /\ N!NoticesInit /\ F!FeedInit

Hour ==
  /\ scene \cap {"sanctions", "follows", "ml_down"} # {} /\ clock < LastHour
  /\ clock' = clock + 1
  /\ UNCHANGED <<calls, sanctionVars, contentVars, levelVars, noticeVars>>

Next ==
  /\ UNCHANGED scene
  /\ \/ Hour /\ N!NoticesWatch /\ F!FeedsWatch
     \/ /\ L!SanctionStep
        /\ UNCHANGED <<clock, contentVars, levelVars, noticeVars, mailing, feedVars>>
     \/ /\ L!WriteStep
        /\ UNCHANGED <<clock, sanctionVars, records, reviewing, levelVars, noticeVars, mailing>>
        /\ F!FeedsWatch
     \/ /\ L!ModerationStep
        /\ UNCHANGED <<clock, sanctionVars, writing, levelVars, noticeVars, mailing>>
        /\ F!FeedsWatch
     \/ /\ L!LevelStep
        /\ UNCHANGED <<clock, sanctionVars, items, records, reviewing, noticeVars, mailing, feedVars>>
     \/ /\ N!SettingStep
        /\ UNCHANGED <<clock, sanctionVars, contentVars, levelVars, notices, flagRow, flagCache,
                       refreshing>>
        /\ N!NoticesWatch /\ F!FeedsWatch
     \/ /\ N!FlagStep
        /\ UNCHANGED <<clock, sanctionVars, contentVars, levelVars, notices, feedVars>>
        /\ N!NoticesWatch
     \/ /\ N!MailStep
        /\ UNCHANGED <<clock, sanctionVars, records, writing, reviewing, levelVars, follows, following,
                       prefs, flagRow, flagCache, refreshing>>
        /\ F!FeedsWatch
     \/ /\ F!FeedStep
        /\ UNCHANGED <<clock, sanctionVars, contentVars, levelVars, noticeVars, mailing>>

Spec == Init /\ [][Next]_vars

-------------------------------------------------------------------------------
Without(hazards) == scene \cap hazards = {}

\* Every variable has its type.
TypeOK ==
  /\ scene \in Scenes /\ clock \in 1..LastHour /\ calls \in 0..MaxCalls[scene]
  /\ L!SanctionsTypeOK /\ L!ContentTypeOK /\ L!LevelsTypeOK /\ N!NoticesTypeOK /\ F!FeedTypeOK

\* What the first n rows of the trail say of a column of a user.
Said(u, k, n) ==
  LET about == {i \in 1..n : trail[i].to = u /\ (trail[i].kind = k \/ (trail[i].kind = "clear" /\ k # "warned"))}
  IN  IF about = {} THEN 0 ELSE trail[Max(about)].next
SaidFirst(u, n) ==
  LET bars == <<"suspend", "mute", "posting", "commenting">>
      set == {i \in 1..4 : Said(u, bars[i], n) # 0}
  IN  IF set = {} THEN 0 ELSE Said(u, bars[Min(set)], n)

\* The trail of a user no call is about tells what bars he is under and, entry
\* by entry, what he was under before, unless calls about him overlap, fail
\* half way, or restrict one thing only, which silently lifts the other.
SanctionsAgree ==
  Without({"overlap_moderators", "record_error", "single_restriction"}) =>
    \A u \in Users :
      (\A c \in Callers : sanctioning[c].to # u) =>
        /\ \A k \in L!Columns : until[u][k] = Said(u, k, Len(trail))
        /\ \A i \in 1..Len(trail) : trail[i].to = u =>
             trail[i].was = IF trail[i].kind = "clear" THEN SaidFirst(u, i - 1)
                            ELSE Said(u, trail[i].kind, i - 1)
        /\ warnings[u] = Cardinality({i \in 1..Len(trail) : trail[i].to = u /\ trail[i].kind = "warned"})

\* The status of an item after the first n audit entries.
Filed(i, n) ==
  LET about == {j \in 1..n : records[j].of = i} IN
  IF about # {} THEN records[Max(about)].next ELSE IF items[i].kind = "report" THEN "open" ELSE "active"
Levelling(u) == \E c \in Callers : writing[c].by = u

\* Content: unless moderation, or an author who sets a status, overtakes a call
\* that had looked already, nothing is written by who is barred or under what is
\* closed, and a comment that was moderated is not edited or deleted.  Unless moderators overlap or fail
\* or an author sets the status, the audit entries of an item chain from its
\* creation to its status.  A level, where its calls do not overlap or fail, is
\* the one of the progress, of the profile and of the last announcement, and
\* counts every comment.
ContentAgrees ==
  /\ Without({"late_moderation"}) => \A i \in 1..Len(items) :
       /\ Without({"author_status"}) => items[i].fair
       /\ items[i].kind = "comment" /\ items[i].status \in {"hidden", "archived"}
            => items[i].text = items[i].kept
  /\ Without({"late_moderation", "overlap_moderators", "record_error", "author_status"}) =>
       \A i \in 1..Len(items) :
         L!Exists(i) /\ (\A c \in Callers : reviewing[c].of # i) =>
           /\ \A j \in 1..Len(records) : records[j].of = i => records[j].was = Filed(i, j - 1)
           /\ items[i].status = Filed(i, Len(records))
  /\ Without({"overlap_writes", "level_error"}) =>
       \A u \in Users : ~Levelling(u) =>
         /\ progress[u].level = shown[u] /\ shown[u] = told[u]
         /\ progress[u].level # 0 /\ Without({"deletions"}) =>
              progress[u].count = L!Count(u) /\ shown[u] = L!LevelOf(progress[u].count)

\* Of an update are told all followers who were to be from its publication on,
\* whichever value of the flag cached meanwhile counts, and wanted to be, and no
\* one who was not to be, or did not want to be, at any moment; and once.  The
\* cached flag, with no call under way, is the row's, unless calls overlapped
\* or an answer was lost.
NoticesAgree ==
  /\ \A i \in 1..Len(notices) :
       notices[i].must \subseteq notices[i].to /\ notices[i].to \subseteq notices[i].may
  /\ Without({"mail_error"}) => \A i \in N!Published :
       i > Len(FirstItems[scene]) /\ (\A c \in Callers : mailing[c].update # i) =>
         Cardinality({j \in 1..Len(notices) : notices[j].update = i}) = 1
  /\ Without({"overlap_refresh", "flag_error"}) /\ (\A c \in Callers : refreshing[c] = "idle")
       => flagCache = flagRow

\* Who pages through his feed sees all that was there all the time, and nothing
\* twice, whatever is published, hidden, or followed meanwhile.  A decision's
\* analysis is of the text that was scored, unless the service failed or his
\* calls overlap.  The circuit is open only after failures in a row.
EdgeAgrees ==
  /\ \A c \in Callers : ~feeds[c].twice /\ (feeds[c].pc = "end" => feeds[c].must \subseteq feeds[c].seen)
  /\ Without({"ml_down", "overlap_feeds"}) =>
       \A u \in Users, i \in 1..MaxItems :
         decisions[u][i].ml \in {-1, decisions[u][i].scored}
  /\ circuit.until > 0 <=> circuit.failures >= Tolerated
===============================================================================
