SPECIFICATION Spec
CONSTANTS
  u1 = u1  u2 = u2  u3 = u3  c1 = c1  c2 = c2  n1 = n1  k1 = k1  k2 = k2
  NoUser = NoUser
  Scenes <- MCScenes
  Users = {u1, u2, u3}  Governors = {c1, c2}  FirstRoles <- MCFirstRoles  MaxApplications = 1
  RoleMoves = {"owner", "dev", "admin"}  Newcomers = {u2, u3}
  FactorCalls = {c1, c2}  MaxSecrets = 2
  Names = {n1}  Deciders = {c1, c2}  MaxProposals = 2
  WalletCalls = {c1, c2}  Holders = {u1}
  TransferCalls = {c1, c2}  Payers = {u1, u2}  Applicants = {u1}  Amounts = {1, 2}  Keys = {k1, k2}  FirstBalance <- MCFirstBalance
  LimitOf <- MCLimits  Tiers = {"gold", "none"}  MaxEntries = 2  LastDay = 1
  Binders = {c1, c2}
  Readers = {u1, u2, u3}  Day = 4  Week = 8  Target <- MCTarget  Zone <- MCZone  Weekly = {u2}
  SendWindow = 2  LastSlot = 9  MaxEmails = 2
  ConsoleCalls = {c1, c2}  Tab = Tab  MaxTokens = 3  MaxSignIns = 2  MaxFactors = 2
SYMMETRY Symmetries
CHECK_DEADLOCK FALSE
INVARIANTS
  TypeOK
  OwnersRemain
  TwoFactorAgrees
  ProjectsAgree
  WalletsAgree
  TransferBooks
  ReferralsAgree
  DigestOnce
  SessionAgrees
