SPECIFICATION FairSpec
CONSTANTS
  alice = alice
  bob = bob
  d1 = d1
  d2 = d2
  d3 = d3
  NoDeposit = NoDeposit
  Users <- Both
  Deposits <- ThreeDeposits
  OwnerOf <- OneEach
  Value <- TwoAndOne
  BlockOf <- TwoBlocks
  Ledgered <- Both
  Confs = 2
  StartBlock = 1
  MaxRange = 2
  Chunk = 1
  Page = 1
  Realtime = {FALSE}
  MaxHead = 3
  MaxReorg = 1
  Hazards = {"reorg", "io_error", "crash"}
  InTreasury <- NoDeposits
  Unroutable <- NoDeposits
  JobPage = 1
  MaxSent = 1
  Sweeping = {"refusal", "io_error", "crash"}
INVARIANTS
  NothingSkipped
  SweptOnce
PROPERTIES
  KeepsDepositPromise
  DepositsArrive
CHECK_DEADLOCK FALSE
