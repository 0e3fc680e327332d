SPECIFICATION FairSpec
CONSTANTS
  BNT = BNT
  usdt = usdt
  alice = alice
  r1 = r1
  r2 = r2
  r3 = r3
  NoRequest = NoRequest
  Users <- OneUser
  Assets <- OneAsset
  Requests <- ThreeRequests
  Owner <- OwnerMC
  AssetOf <- AllBNT
  Amount <- UnevenMC
  Fee <- FeeMC
  LongKeys <- NoKeys
  Price <- PriceMC
  InitialBalance <- BalanceMC
  MaxPerDay = 0
  Configured <- OneAsset
  Modes = {"real", "mock"}
  Reviewers = {v1}
  Hazards = {"race_submit"}
PROPERTIES
  KeepsPromise
  ApprovedSettles
