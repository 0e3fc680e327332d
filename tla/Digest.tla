--------------------------------- MODULE Digest --------------------------------
(***************************************************************************)
(* The worker that emails digests.  A tick takes the time once, then goes  *)
(* through the profiles; a digest is sent to each user who is in his       *)
(* window and has not had one, and marked afterwards with the tick's time. *)
(* Time passes in slots, several to a day and, as a bound, a short week.   *)
(***************************************************************************)
EXTENDS Integers, Sequences, FiniteSetsExt

CONSTANTS
  Readers,      \* the users with an email address and the digest switched on
  Day, Week,    \* slots of a day, and of the seven days a weekly digest waits
  Target,       \* digestHourLocal and digestMinuteLocal of a user, as a slot
  Zone,         \* how far a user's local time is ahead
  Weekly,       \* the users whose cadence is weekly; the others' is daily
  SendWindow,   \* NOTIFICATION_DIGEST_SEND_WINDOW_MINUTES
  LastSlot, MaxEmails

VARIABLES
  scene,
  slot,         \* the current time
  running,      \* isRunning
  now,          \* the tick's time, 0 between ticks
  todo,         \* the users the tick has still to look at
  unmarked,     \* the user whose email is out and whose row is not written yet
  lastSent,     \* lastDigestSentAt, -1 for never
  emails        \* ticks' times of the emails of each user

digestRows == <<lastSent, emails>>
NoReader == {}

LocalDate(u, t) == (t + Zone[u]) \div Day
LocalSlot(u, t) == (t + Zone[u]) % Day
WindowEnd(u) == Target[u] + (IF SendWindow > 1 THEN SendWindow ELSE 1)
Wraps(u) == WindowEnd(u) >= Day

\* Bound: the emails sent to all.
MoreEmails == MapThenSumSet(LAMBDA u : Len(emails[u]), Readers) < MaxEmails

\* isWithinDispatchWindow.
InWindow(u, t) ==
  IF Wraps(u) THEN LocalSlot(u, t) >= Target[u] \/ LocalSlot(u, t) < WindowEnd(u) - Day
  ELSE LocalSlot(u, t) \in Target[u]..(WindowEnd(u) - 1)

\* wasSentInCurrentWindow.
WasSent_WithinDay(u, t) == lastSent[u] # -1 /\ t - lastSent[u] < (IF u \in Weekly THEN Week ELSE 1)
WasSent(u, t) ==
  lastSent[u] # -1 /\ IF u \in Weekly THEN t - lastSent[u] < Week
                      ELSE LocalDate(u, lastSent[u]) = LocalDate(u, t)

\* A tick that finds the database down ends at once and does nothing.
BeginTick ==
  /\ "digest" \in scene /\ ~running
  /\ now' = slot /\ running' = TRUE /\ todo' = Readers
  /\ UNCHANGED <<slot, unmarked, digestRows>>

\* The content may be empty and the email service may not deliver.
Serve(u) ==
  /\ running /\ u \in todo /\ unmarked = NoReader
  /\ todo' = todo \ {u}
  /\ \/ /\ InWindow(u, now) /\ ~WasSent(u, now) /\ MoreEmails
        /\ emails' = [emails EXCEPT ![u] = Append(@, now)]
        /\ unmarked' = {u}
     \/ /\ \/ ~InWindow(u, now) \/ WasSent(u, now)
           \/ "no_content" \in scene \/ ~MoreEmails
        /\ UNCHANGED <<emails, unmarked>>
  /\ UNCHANGED <<slot, running, now, lastSent>>

Mark(u) ==
  /\ running /\ u \in unmarked
  /\ unmarked' = NoReader
  /\ lastSent' = [lastSent EXCEPT ![u] = now]
  /\ UNCHANGED <<slot, running, now, todo, emails>>

\* The write fails, and the tick goes on to the next user.
MarkError(u) ==
  /\ "mark_error" \in scene /\ running /\ u \in unmarked
  /\ unmarked' = NoReader
  /\ UNCHANGED <<slot, running, now, todo, digestRows>>

EndTick ==
  /\ running /\ todo = {} /\ unmarked = NoReader
  /\ running' = FALSE /\ now' = 0
  /\ UNCHANGED <<slot, todo, unmarked, digestRows>>

Restart ==
  /\ "restart" \in scene /\ running
  /\ running' = FALSE /\ now' = 0 /\ todo' = {} /\ unmarked' = NoReader
  /\ UNCHANGED <<slot, digestRows>>

\* A tick may take long.
Advance ==
  /\ "digest" \in scene /\ slot < LastSlot
  /\ slot' = slot + 1
  /\ UNCHANGED <<running, now, todo, unmarked, digestRows>>

-------------------------------------------------------------------------------
DigestInit ==
  /\ slot = 0 /\ now = 0 /\ running = FALSE /\ todo = {} /\ unmarked = NoReader
  /\ lastSent = [u \in Readers |-> -1] /\ emails = [u \in Readers |-> <<>>]

DigestStep ==
  \/ BeginTick \/ EndTick \/ Restart \/ Advance
  \/ \E u \in Readers : Serve(u) \/ Mark(u) \/ MarkError(u)

DigestTypeOK ==
  /\ slot \in 0..LastSlot /\ now \in 0..LastSlot /\ running \in BOOLEAN
  /\ todo \subseteq Readers /\ unmarked \subseteq Readers
  /\ lastSent \in [Readers -> -1..LastSlot]
  /\ \A u \in Readers : \A i \in 1..Len(emails[u]) : emails[u][i] \in 0..LastSlot
===============================================================================
