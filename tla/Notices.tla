-------------------------------- MODULE Notices --------------------------------
(***************************************************************************)
(* An update is published and its project's followers are notified: a flag *)
(* says whether their own settings count, then they are looked up, then    *)
(* their preferences, in three queries at a time, then rows are written.   *)
(* The flag is cached by each instance, which refreshes it by a timer.     *)
(***************************************************************************)
EXTENDS Integers, Sequences, FiniteSetsExt

CONSTANTS
  Users, NoUser, Callers,
  Authors,               \* may publish an update of the project
  Followers,             \* follow it at first
  Choosers,              \* bound: the users who change what they want
  MaxCalls               \* bound: calls of a scene

VARIABLES
  scene, clock, calls, items,
  follows,     \* a user's follow of the project: least urgency and end of a mute
  following,   \* calls about to write a follow's settings: of whom
  prefs,       \* whether he wants notices: at all, of updates, of their category
  mailing,     \* publications; modes, always, eligible and had are history
  notices,     \* rows, one entry for each publication; must and may are history
  flagRow, flagCache,  \* followPrefsEnabled
  refreshing   \* calls that refresh or update the flag: what the row answered

Urgencies == {0, 1}
NoFollow == [on |-> FALSE, least |-> 0, muted |-> 0]
Prefs == [master : BOOLEAN, type : {"unset", "on", "off"}, category : BOOLEAN]
FirstPrefs == [master |-> TRUE, type |-> "unset", category |-> TRUE]
Rows == {"settings", "overrides", "categories"}
NoMail == [pc |-> "idle", update |-> 0, urgency |-> 0, strict |-> FALSE, to |-> {},
           unread |-> {}, seen |-> [u \in Users |-> FirstPrefs],
           modes |-> {}, always |-> {}, eligible |-> {}, had |-> [u \in Users |-> {}]]

settings == <<follows, following, prefs>>
flags == <<flagRow, flagCache, refreshing>>
\* Every call of any part counts against the bound.
Begin == calls < MaxCalls[scene] /\ calls' = calls + 1
MayChange(what) == what \in scene /\ Begin

-------------------------------------------------------------------------------
(* Follows, their settings, and preferences                                *)

Follow(u) ==
  /\ MayChange("follows") /\ ~follows[u].on
  /\ follows' = [follows EXCEPT ![u] = [NoFollow EXCEPT !.on = TRUE]]
  /\ UNCHANGED <<following, prefs>>

Unfollow(u) ==
  /\ MayChange("follows") /\ follows[u].on
  /\ follows' = [follows EXCEPT ![u] = NoFollow]
  /\ UNCHANGED <<following, prefs>>

\* updateFollowPreferences looks at the flag, and awaits the project ...
CheckFollow(c, u) ==
  /\ flagCache /\ following[c] = NoUser /\ MayChange("follows")
  /\ following' = [following EXCEPT ![c] = u]
  /\ UNCHANGED <<follows, prefs>>

\* ... before it writes, and makes a follow of the project if there is none.
SetFollow(c, least, muted) ==
  /\ following[c] # NoUser
  /\ follows' = [follows EXCEPT ![following[c]] = [on |-> TRUE, least |-> least, muted |-> muted]]
  /\ following' = [following EXCEPT ![c] = NoUser]
  /\ UNCHANGED <<prefs, calls>>

\* updatePreferences is a transaction; an override may be cleared.
SetPrefs(u, master, type, category) ==
  /\ MayChange("prefs")
  /\ prefs' = [prefs EXCEPT ![u] = [master |-> master, type |-> type, category |-> category]]
  /\ UNCHANGED <<follows, following>>

-------------------------------------------------------------------------------
(* The flag                                                                *)

\* A call of updateConfig or refresh is under way once the row has answered.
MayCall(c) ==
  /\ "flags" \in scene /\ refreshing[c] = "idle"
  /\ "overlap_refresh" \in scene \/ \A d \in Callers : refreshing[d] = "idle"
Answers(c, on) == refreshing' = [refreshing EXCEPT ![c] = IF on THEN "on" ELSE "off"]

SetFlag(c, on) ==
  /\ MayCall(c) /\ Begin
  /\ flagRow' = on /\ Answers(c, on)
  /\ UNCHANGED <<flagCache, settings>>

\* A refresh, or an update of another flag in the same row.
ReadFlag(c) ==
  /\ MayCall(c) /\ Answers(c, flagRow)
  /\ UNCHANGED <<flagRow, flagCache, settings>>

CacheFlag(c) ==
  /\ refreshing[c] # "idle"
  /\ flagCache' = (refreshing[c] = "on")
  /\ refreshing' = [refreshing EXCEPT ![c] = "idle"]
  /\ UNCHANGED <<flagRow, settings>>

\* The answer is lost; the cache stays.
FlagError(c) ==
  /\ "flag_error" \in scene /\ refreshing[c] # "idle"
  /\ refreshing' = [refreshing EXCEPT ![c] = "idle"]
  /\ UNCHANGED <<flagRow, flagCache, settings>>

-------------------------------------------------------------------------------
(* createUpdate.  What it should do is judged by history: the values of    *)
(* the flag cached since the publication, who followed at some moment in a *)
(* way that he is to be told by one of them, who always by all of them,    *)
(* and the preferences everybody had.                                      *)

Awaits(u, urgency, strict) ==
  follows[u].on /\ (~strict \/ (urgency >= follows[u].least /\ clock >= follows[u].muted))
Awaiting == [urgency \in Urgencies |-> [modes \in SUBSET BOOLEAN |->
              {u \in Users : \A strict \in modes : Awaits(u, urgency, strict)}]]
Expecting == [urgency \in Urgencies |-> [modes \in SUBSET BOOLEAN |->
               {u \in Users : \E strict \in modes : Awaits(u, urgency, strict)}]]

NoticesWatch ==
  mailing' = [c \in Callers |->
    IF mailing[c].pc = "idle" THEN mailing[c]
    ELSE LET m == mailing[c]  modes == m.modes \cup {flagCache'} IN
         [m EXCEPT !.modes = modes,
                   !.always = @ \cap Awaiting'[m.urgency][modes],
                   !.eligible = @ \cup Expecting'[m.urgency][modes],
                   !.had = [u \in Users |-> @[u] \cup {prefs'[u]}]]]

\* The three queries for preferences may answer on both sides of a change.
Wishes(p) == p.master /\ p.type # "off" /\ (p.type = "on" \/ p.category)
Mixes(had) ==
  {p \in Prefs : /\ \E q \in had : p.master = q.master
                 /\ \E q \in had : p.type = q.type
                 /\ \E q \in had : p.category = q.category}

Published == {i \in 1..Len(items) : items[i].kind = "update"}

Publish(c, u, urgency) ==
  /\ "publishing" \in scene /\ u \in Authors /\ mailing[c].pc = "idle"
  /\ Begin
  /\ items' = Append(items, [kind |-> "update", by |-> u, of |-> 0, text |-> 0, kept |-> 0,
                             status |-> "active", fair |-> TRUE])
  /\ mailing' = [mailing EXCEPT ![c] =
       [NoMail EXCEPT !.pc = "resolve", !.update = Len(items) + 1, !.urgency = urgency,
          !.modes = {flagCache}, !.always = Awaiting[urgency][{flagCache}],
          !.eligible = Expecting[urgency][{flagCache}], !.had = [v \in Users |-> {prefs[v]}]]]
  /\ UNCHANGED notices

\* resolveEligibleFollowerUserIds reads the flag, and awaits the follows.
ResolveFlag(c) ==
  /\ mailing[c].pc = "resolve"
  /\ mailing' = [mailing EXCEPT ![c].pc = "follows", ![c].strict = flagCache]
  /\ UNCHANGED <<items, notices>>

Alerted_Muted(u, urgency, strict) == follows[u].on /\ (strict => urgency >= follows[u].least)
Alerted(u, urgency, strict) ==
  /\ follows[u].on
  /\ strict => follows[u].muted <= clock /\ urgency >= follows[u].least

Resolve(c) ==
  LET m == mailing[c] IN
  /\ m.pc = "follows"
  /\ mailing' = [mailing EXCEPT ![c].pc = "filter", ![c].unread = Rows,
                                ![c].to = {u \in Users : Alerted(u, m.urgency, m.strict)}]
  /\ UNCHANGED <<items, notices>>

\* loadPreferenceSnapshots: settings, categories and overrides, in any order,
\* and at once where no preference is changed meanwhile.
LoadRows(c, rows) ==
  LET Load(old, new) ==
        [master   |-> IF "settings" \in rows THEN new.master ELSE old.master,
         type     |-> IF "overrides" \in rows THEN new.type ELSE old.type,
         category |-> IF "categories" \in rows THEN new.category ELSE old.category]
  IN
  /\ mailing[c].pc = "filter" /\ rows \subseteq mailing[c].unread
  /\ IF "prefs" \in scene THEN rows # {} ELSE rows = Rows
  /\ mailing' = [mailing EXCEPT ![c].unread = @ \ rows,
                                ![c].seen = [u \in Users |-> Load(@[u], prefs[u])]]
  /\ UNCHANGED <<items, notices>>

\* filterEventsByPreference
Wanted(p) == p.master /\ (IF p.type = "unset" THEN p.category ELSE p.type = "on")

Filter(c) ==
  /\ mailing[c].pc = "filter" /\ mailing[c].unread = {}
  /\ mailing' = [mailing EXCEPT ![c].pc = "insert", ![c].to = {u \in @ : Wanted(mailing[c].seen[u])}]
  /\ UNCHANGED <<items, notices>>

\* createMany, then the push, which fails alone.
Insert(c) ==
  LET m == mailing[c] IN
  /\ m.pc = "insert"
  /\ notices' = Append(notices,
       [update |-> m.update, to |-> m.to,
        must |-> {u \in m.always : \A p \in Mixes(m.had[u]) : Wishes(p)},
        may |-> {u \in m.eligible : \E p \in Mixes(m.had[u]) : Wishes(p)}])
  /\ mailing' = [mailing EXCEPT ![c] = NoMail]
  /\ UNCHANGED items

MailError(c) ==
  /\ "mail_error" \in scene /\ mailing[c].pc # "idle"
  /\ mailing' = [mailing EXCEPT ![c] = NoMail]
  /\ UNCHANGED <<items, notices>>

-------------------------------------------------------------------------------
NoticesInit ==
  /\ follows = [u \in Users |-> [NoFollow EXCEPT !.on = u \in Followers]]
  /\ following = [c \in Callers |-> NoUser] /\ prefs = [u \in Users |-> FirstPrefs]
  /\ mailing = [c \in Callers |-> NoMail] /\ notices = <<>>
  /\ flagRow = TRUE /\ flagCache = TRUE
  /\ refreshing = [c \in Callers |-> "idle"]

SettingStep ==
  \/ \E u \in Choosers :
       \/ Follow(u) \/ Unfollow(u) \/ \E c \in Callers : CheckFollow(c, u)
       \/ \E master, category \in BOOLEAN, type \in {"unset", "on", "off"} :
            SetPrefs(u, master, type, category)
  \/ \E c \in Callers, least \in Urgencies, muted \in {0, clock + 1} : SetFollow(c, least, muted)

FlagStep ==
  \E c \in Callers :
    \/ (ReadFlag(c) \/ CacheFlag(c) \/ FlagError(c)) /\ UNCHANGED calls
    \/ \E on \in BOOLEAN : SetFlag(c, on)

MailStep ==
  \E c \in Callers :
    \/ /\ \/ ResolveFlag(c) \/ Resolve(c) \/ Filter(c) \/ Insert(c) \/ MailError(c)
          \/ \E rows \in SUBSET Rows : LoadRows(c, rows)
       /\ UNCHANGED calls
    \/ \E u \in Users, urgency \in Urgencies : Publish(c, u, urgency)

NoticesTypeOK ==
  /\ follows \in [Users -> [on : BOOLEAN, least : Urgencies, muted : Nat]]
  /\ following \in [Callers -> Users \cup {NoUser}] /\ prefs \in [Users -> Prefs]
  /\ mailing \in [Callers ->
       [pc : {"idle", "resolve", "follows", "filter", "insert"}, update : Nat,
        urgency : Urgencies, strict : BOOLEAN, to : SUBSET Users, unread : SUBSET Rows,
        seen : [Users -> Prefs], modes : SUBSET BOOLEAN, always : SUBSET Users,
        eligible : SUBSET Users, had : [Users -> SUBSET Prefs]]]
  /\ notices \in Seq([update : Nat, to : SUBSET Users, must : SUBSET Users, may : SUBSET Users])
  /\ flagRow \in BOOLEAN /\ flagCache \in BOOLEAN
  /\ refreshing \in [Callers -> {"idle", "on", "off"}]
===============================================================================
