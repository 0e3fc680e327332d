SPECIFICATION Spec
CONSTANTS
  alice = alice
  bob = bob
  d1 = d1
  d2 = d2
  d3 = d3
  NoDeposit = NoDeposit
  Users <- OnlyAlice
  Deposits <- OneDeposit
  OwnerOf <- AllAlice
  Value <- TwoAndOne
  BlockOf <- SameBlock
  Ledgered <- OnlyAlice
  Confs = 2
  StartBlock = 1
  MaxRange = 2
  Chunk = 1
  Page = 1
  Realtime = {TRUE}
  MaxHead = 2
  MaxReorg = 0
  Hazards = {"stream", "manual", "disable"}
  InTreasury <- NoDeposits
  Unroutable <- NoDeposits
  JobPage = 1
  Sweeping = {"late_error"}
  MaxSent = 2
INVARIANTS
  TypeOK
  CreditedOnce
  CreditedIsConfirmed
CHECK_DEADLOCK FALSE
