-------------------------------- MODULE Content --------------------------------
(***************************************************************************)
(* Posts and their replies, updates and their comments, and reports about  *)
(* any of them.  Content is checked in one await and written in another;   *)
(* moderators change its status, and file the change, between them.        *)
(***************************************************************************)
EXTENDS Sanctions

CONSTANTS
  Chiefs,     \* owners and admins: they alone moderate updates and comments
  Managers,   \* the owner, and the administrator whose project it is
  Speakers,   \* bound: the users who write
  Texts, FirstItems,
  MaxItems    \* bound

VARIABLES
  items,      \* all content: an item is known by its place
  records,    \* audit entries of moderated items
  reviewing   \* moderators' calls

Statuses == {"active", "hidden", "archived"}  \* an update's "published" is "active"
Verdicts == {"reviewing", "resolved", "dismissed"}
NoWrite == [pc |-> "idle", by |-> NoUser, kind |-> "none", of |-> 0, next |-> "none",
            count |-> 0, level |-> 0, previous |-> 0]
NoReview == [pc |-> "idle", by |-> NoUser, of |-> 0, was |-> "none", next |-> "none"]
Set(c, pc) == writing' = [writing EXCEPT ![c].pc = pc]
Leave(c) == writing' = [writing EXCEPT ![c] = NoWrite]

Exists(i) == items[i].status # "deleted"
MayWrite(c, u) ==
  /\ "content" \in scene /\ writing[c].pc = "idle" /\ reviewing[c].pc = "idle"
  /\ "overlap_writes" \in scene \/ \A w \in Callers : writing[w].by # u
  /\ Begin
MayAdd(c, u, kind) == MayWrite(c, u) /\ kind \in scene /\ Len(items) < MaxItems
Unwatched(w) == writing[w].pc \notin {"parent", "create", "edit", "delete"}

\* createPost, createComment and createReport: what the author may do.
Check(c, u, kind, i) ==
  /\ MayAdd(c, u, kind)
  /\ CASE kind = "post" -> i = 0 /\ MayPost(u)
       [] kind = "reply" -> i # 0 /\ items[i].kind = "post" /\ MayComment(u)
       [] kind = "comment" -> i # 0 /\ items[i].kind = "update" /\ MayComment(u)
       [] OTHER -> i # 0 /\ items[i].kind \in {"post", "reply"} /\ items[i].by # u
  /\ writing' = [writing EXCEPT ![c] =
       [NoWrite EXCEPT !.pc = IF kind \in {"reply", "comment"} THEN "parent" ELSE "create",
                       !.by = u, !.kind = kind, !.of = i]]
  /\ UNCHANGED items

CheckParent(c) ==
  /\ writing[c].pc = "parent"
  /\ IF items[writing[c].of].status = "active" THEN Set(c, "create") ELSE Leave(c)
  /\ UNCHANGED items

\* fair: history, whether the author and the place were open when it was written.
Fair(w) ==
  LET barring == {k \in Bars : until[w.by][k] > clock} IN
  CASE w.kind = "post" -> barring \subseteq {"commenting"}
    [] w.kind = "report" -> TRUE
    [] OTHER -> barring \subseteq {"posting"} /\ items[w.of].status = "active"

\* An update's comment also has its author's level computed anew (Levels).
Create(c) ==
  LET w == writing[c] IN
  /\ w.pc = "create"
  /\ items' = Append(items, [kind |-> w.kind, by |-> w.by, of |-> w.of, text |-> 0, kept |-> 0,
                             status |-> IF w.kind = "report" THEN "open" ELSE "active",
                             fair |-> Fair(w)])
  /\ IF w.kind = "comment" THEN Set(c, "metrics") ELSE Leave(c)

\* updateComment and deleteComment refuse what a moderator has dealt with.
MayChange_Moderated(u, i) == Exists(i) /\ u \in Managers \cup {items[i].by}
MayChange(u, i) ==
  /\ Exists(i) /\ u \in Managers \cup {items[i].by}
  /\ items[i].kind = "comment" => items[i].status = "active"

\* updateUpdate does not, and may be given a status.
Change(c, u, i, what, next) ==
  /\ MayWrite(c, u) /\ items[i].kind \in {"comment", "update"} /\ MayChange(u, i)
  /\ what = "edit" => "edits" \in scene
  /\ what = "delete" => items[i].kind = "comment" /\ "deletions" \in scene
  /\ next # "none" => items[i].kind = "update" /\ what = "edit" /\ "author_status" \in scene
  /\ writing' = [writing EXCEPT ![c] =
       [NoWrite EXCEPT !.pc = what, !.by = u, !.of = i, !.next = next]]
  /\ UNCHANGED items

Edit(c) ==
  LET w == writing[c] IN
  /\ w.pc = "edit"
  /\ items' = IF ~Exists(w.of) THEN items
              ELSE [items EXCEPT ![w.of].text = (@ + 1) % Texts,
                                 ![w.of].status = IF w.next = "none" THEN @ ELSE w.next]
  /\ Leave(c)

Delete(c) ==
  /\ writing[c].pc = "delete"
  /\ items' = [items EXCEPT ![writing[c].of].status = "deleted"]
  /\ Leave(c)

-------------------------------------------------------------------------------
\* moderate...Status and reviewReport: who may set which status ...
MaySet(by, kind, next) ==
  CASE kind \in {"update", "comment"} -> by \in Chiefs
    [] kind = "report" -> Rank[by] >= 1
    [] OTHER -> Rank[by] >= IF next = "archived" THEN 2 ELSE 1

\* ... a look at the status it has ...
Look(c, by, i, next) ==
  /\ "moderation" \in scene /\ reviewing[c].pc = "idle" /\ writing[c].pc = "idle"
  /\ Begin
  /\ "overlap_moderators" \in scene \/ \A o \in Callers : reviewing[o].pc = "idle"
  /\ Exists(i) /\ MaySet(by, items[i].kind, next)
  /\ next \in IF items[i].kind = "report" THEN Verdicts ELSE Statuses
  /\ reviewing' = [reviewing EXCEPT ![c] =
       [pc |-> "set", by |-> by, of |-> i, was |-> items[i].status, next |-> next]]
  /\ UNCHANGED <<items, records>>

\* ... the new status, ...
SetStatus(c) ==
  LET r == reviewing[c] IN
  /\ r.pc = "set"
  /\ "late_moderation" \in scene \/ \A w \in Callers : writing[w].of = r.of => Unwatched(w)
  /\ IF Exists(r.of)
     THEN /\ items' = [items EXCEPT ![r.of].status = r.next, ![r.of].kept = items[r.of].text]
          /\ reviewing' = [reviewing EXCEPT ![c].pc = "file"]
     ELSE reviewing' = [reviewing EXCEPT ![c] = NoReview] /\ UNCHANGED items
  /\ UNCHANGED records

\* ... and the audit entry.
File(c) ==
  LET r == reviewing[c] IN
  /\ r.pc = "file"
  /\ records' = Append(records, [by |-> r.by, of |-> r.of, was |-> r.was, next |-> r.next])
  /\ reviewing' = [reviewing EXCEPT ![c] = NoReview]
  /\ UNCHANGED items

ReviewError(c) ==
  /\ "record_error" \in scene /\ reviewing[c].pc # "idle"
  /\ reviewing' = [reviewing EXCEPT ![c] = NoReview]
  /\ UNCHANGED <<items, records>>

-------------------------------------------------------------------------------
ContentInit ==
  /\ items = FirstItems[scene] /\ records = <<>>
  /\ writing = [c \in Callers |-> NoWrite] /\ reviewing = [c \in Callers |-> NoReview]

WriteStep ==
  \E c \in Callers :
    \/ (CheckParent(c) \/ Create(c) \/ Edit(c) \/ Delete(c)) /\ UNCHANGED calls
    \/ \E u \in Speakers, i \in 0..Len(items) :
         \E kind \in {"post", "reply", "comment", "report"} : Check(c, u, kind, i)
    \/ \E u \in Speakers \cup Managers, i \in 1..Len(items) :
         \E what \in {"edit", "delete"}, next \in Statuses \cup {"none"} : Change(c, u, i, what, next)

ModerationStep ==
  \E c \in Callers :
    \/ (SetStatus(c) \/ File(c) \/ ReviewError(c)) /\ UNCHANGED calls
    \/ \E by \in Users, i \in 1..Len(items), next \in Statuses \cup Verdicts : Look(c, by, i, next)

ContentTypeOK ==
  LET states == Statuses \cup Verdicts \cup {"open", "deleted"} IN
  /\ items \in Seq([kind : {"post", "reply", "update", "comment", "report"}, by : Users, of : Nat,
                    text : Nat, kept : Nat, status : states, fair : BOOLEAN])
  /\ records \in Seq([by : Users, of : Nat, was : states, next : states])
  /\ writing \in [Callers ->
       [pc : {"idle", "parent", "create", "edit", "delete",
              "metrics", "target", "previous", "save", "show", "announce"},
        by : Users \cup {NoUser}, kind : {"none", "post", "reply", "comment", "report"}, of : Nat,
        next : Statuses \cup {"none"}, count : Nat, level : Nat, previous : Nat]]
  /\ reviewing \in [Callers ->
       [pc : {"idle", "set", "file"}, by : Users \cup {NoUser}, of : Nat,
        was : states \cup {"none"}, next : states \cup {"none"}]]
===============================================================================
