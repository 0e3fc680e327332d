SPECIFICATION Spec
CONSTANTS
  u1 = u1  u2 = u2  u3 = u3  c1 = c1  c2 = c2
  NoUser = NoUser
  Scenes <- MCScenes
  Users = {u1, u2, u3}  Callers = {c1, c2}  Rank <- MCRank
  Hours = {1, 2}  MuteCap = 1  Cap = 2  LastHour = 2  MaxCalls <- MCMaxCalls
  Chiefs = {u1}  Managers = {u1}  Speakers = {u3}  Texts = 2  FirstItems <- MCFirstItems  MaxItems = 4
  Required <- MCRequired
  Authors = {u1}  Followers = {u3}  Choosers = {u2, u3}
  Limit = 1  Tolerated = 2  Pause = 1
SYMMETRY Symmetries
CHECK_DEADLOCK FALSE
INVARIANTS
  TypeOK
  SanctionsAgree
  ContentAgrees
  NoticesAgree
  EdgeAgrees
