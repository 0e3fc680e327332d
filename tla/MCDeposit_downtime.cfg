SPECIFICATION Spec
CONSTANTS
  alice = alice
  bob = bob
  d1 = d1
  d2 = d2
  d3 = d3
  NoDeposit = NoDeposit
  Users <- Both
  Deposits <- TwoDeposits
  OwnerOf <- OneEach
  Value <- TwoAndOne
  BlockOf <- TwoBlocks
  Ledgered <- Both
  Confs = 2
  StartBlock = 1
  MaxRange = 2
  Chunk = 1
  Page = 1
  Realtime = {TRUE}
  MaxHead = 3
  MaxReorg = 0
  Hazards = {}
  InTreasury <- NoDeposits
  Unroutable <- NoDeposits
  JobPage = 1
  MaxSent = 1
  Sweeping = {}
INVARIANTS
  NothingSkipped
CHECK_DEADLOCK FALSE
