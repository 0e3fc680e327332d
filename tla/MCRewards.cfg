SPECIFICATION Spec
CONSTANTS
  u1 = u1  u2 = u2  q1 = q1  q2 = q2  c1 = c1  c2 = c2  s1 = s1  s2 = s2
  r1 = r1  r2 = r2  k1 = k1  k2 = k2  w1 = w1  w2 = w2  a1 = a1  a2 = a2
  NoUser = NoUser  NoQuest = NoQuest  Given = Given  NoBadge = 0
  Points = Points  Token = Token
  Scenes <- MCScenes
  Users = {u1, u2}  Members = {u1}  Hunters = {u1, u2}  Atomic = 3
  Calls = {c1, c2}  CycleHours = 2  Projections = {1, 2}  BaseProjection = 2  MaxClock = 3  MaxSessions = 2
  Quests = {q1, q2}  Automatic = {q2}  RewardPoints = {1, 2}  FirstReward <- MCFirstReward  FirstBadge <- MCFirstBadge
  Badges = {1, 2}  Milestones <- MCMilestones
  Stewards = {w1, w2}  Submitters = {s1, s2}  Reviewers = {r1, r2}  MaxSubmissions = 2
  Policies <- MCPolicies  DefaultPolicy <- SenderPays  Amounts = {1, 2}  Keys = {k1, k2}  Switchers = {a1, a2}
SYMMETRY Symmetries
CHECK_DEADLOCK FALSE
INVARIANTS
  TypeOK
  EveryHourPaid
  PointsMatchLedger
  RewardedOnce
  SubmissionsAgree
  BadgesAgree
  TipBooks
