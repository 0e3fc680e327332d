------------------------------ MODULE MCCommunity ------------------------------
(* Small instances of Community for TLC. *)
EXTENDS Community, TLC

CONSTANTS u1, u2, u3, c1, c2

MCRank == (u1 :> 3) @@ (u2 :> 1) @@ (u3 :> 0)

Item(kind, by, of) == [kind |-> kind, by |-> by, of |-> of, text |-> 0, kept |-> 0,
                       status |-> "active", fair |-> TRUE]
MCRequired == <<0, 1, 2>>

MCScenes == {
  {"sanctions"},
  {"sanctions", "overlap_moderators"},
  {"sanctions", "record_error", "single_restriction"},
  {"sanctions", "content", "post"},
  {"sanctions", "content", "reply", "late_moderation"},
  {"sanctions", "content", "comment"},
  {"moderation", "content", "reply"},
  {"moderation", "content", "comment", "edits"},
  {"moderation", "content", "deletions", "edits", "late_moderation"},
  {"moderation", "content", "edits", "author_status"},
  {"moderation", "content", "report"},
  {"moderation", "overlap_moderators", "record_error"},
  {"content", "levels", "comment"},
  {"content", "levels", "comment", "deletions", "level_error"},
  {"content", "levels", "comment", "overlap_writes"},
  {"prefs", "publishing"},
  {"follows", "publishing", "flags", "mail_error"},
  {"flags", "overlap_refresh"},
  {"flags", "flag_error"},
  {"feed", "publishing", "moderation"},
  {"feed", "content", "edits"},
  {"feed", "follows"},
  {"feed", "ml_down"},
  {"feed", "content", "edits", "overlap_feeds"}}

MCMaxCalls ==
  [s \in MCScenes |-> IF "sanctions" \in s THEN 2 ELSE 3]

MCFirstItems ==
  [s \in MCScenes |->
     IF "feed" \in s THEN <<Item("update", u1, 0), Item("update", u1, 0)>>
     ELSE IF "publishing" \in s THEN <<>>
     ELSE <<Item("update", u1, 0), Item("post", u2, 0), Item("comment", u3, 1)>>]

Symmetries == Permutations({c1, c2})
===============================================================================
