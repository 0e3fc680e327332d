-------------------------------- MODULE Levels ---------------------------------
(***************************************************************************)
(* A user's level: what he has done is counted twice, in awaits of their   *)
(* own, then his progress and his profile are written and a change is      *)
(* announced.  Comments stand for everything that counts.                  *)
(***************************************************************************)
EXTENDS Content

CONSTANT Required  \* comments that each level requires, lowest level first

VARIABLES
  progress,  \* UserLevelProgress of a user; level 0 without a row
  shown,     \* Profile.currentLevelId
  told       \* the level announced last

NoProgress == [level |-> 0, count |-> 0]

\* Comments that were moderated count, deleted ones do not.
Count(u) == Cardinality({i \in 1..Len(items) :
                           items[i].kind = "comment" /\ items[i].by = u /\ Exists(i)})
LevelOf(n) == Max({1} \cup {l \in 1..Len(Required) : Required[l] <= n})

\* Mining, a quest or the user himself asks for it.
Recalculate(c, u) ==
  /\ "levels" \in scene /\ MayWrite(c, u)
  /\ writing' = [writing EXCEPT ![c] = [NoWrite EXCEPT !.pc = "metrics", !.by = u]]
  /\ UNCHANGED <<progress, shown, told>>

GetMetrics(c) ==
  /\ writing[c].pc = "metrics"
  /\ writing' = [writing EXCEPT ![c].pc = "target", ![c].count = Count(writing[c].by)]
  /\ UNCHANGED <<progress, shown, told>>

GetTarget(c) ==
  /\ writing[c].pc = "target"
  /\ writing' = [writing EXCEPT ![c].pc = "previous", ![c].level = LevelOf(Count(writing[c].by))]
  /\ UNCHANGED <<progress, shown, told>>

GetPrevious(c) ==
  /\ writing[c].pc = "previous"
  /\ writing' = [writing EXCEPT ![c].pc = "save", ![c].previous = progress[writing[c].by].level]
  /\ UNCHANGED <<progress, shown, told>>

SaveProgress(c) ==
  LET w == writing[c] IN
  /\ w.pc = "save"
  /\ progress' = [progress EXCEPT ![w.by] = [level |-> w.level, count |-> w.count]]
  /\ Set(c, "show")
  /\ UNCHANGED <<shown, told>>

ShowLevel(c) ==
  LET w == writing[c] IN
  /\ w.pc = "show"
  /\ shown' = [shown EXCEPT ![w.by] = w.level]
  /\ IF w.level = w.previous THEN Leave(c) ELSE Set(c, "announce")
  /\ UNCHANGED <<progress, told>>

Announce(c) ==
  /\ writing[c].pc = "announce"
  /\ told' = [told EXCEPT ![writing[c].by] = writing[c].level]
  /\ Leave(c)
  /\ UNCHANGED <<progress, shown>>

LevelError(c) ==
  /\ "level_error" \in scene
  /\ writing[c].pc \in {"metrics", "target", "previous", "save", "show", "announce"}
  /\ Leave(c)
  /\ UNCHANGED <<progress, shown, told>>

LevelsInit ==
  /\ progress = [u \in Users |-> NoProgress]
  /\ shown = [u \in Users |-> 0] /\ told = [u \in Users |-> 0]

LevelStep ==
  \E c \in Callers :
    \/ /\ \/ GetMetrics(c) \/ GetTarget(c) \/ GetPrevious(c) \/ SaveProgress(c) \/ ShowLevel(c)
          \/ Announce(c) \/ LevelError(c)
       /\ UNCHANGED calls
    \/ \E u \in Speakers : Recalculate(c, u)

LevelsTypeOK ==
  /\ progress \in [Users -> [level : Nat, count : Nat]]
  /\ shown \in [Users -> Nat] /\ told \in [Users -> Nat]
===============================================================================
