SPECIFICATION FairSpec
CONSTANTS
  BNT = BNT
  usdt = usdt
  alice = alice
  r1 = r1
  r2 = r2
  r3 = r3
  NoRequest = NoRequest
  Users <- OneUser
  Assets <- OneAsset
  Requests <- TwoRequests
  Owner <- OwnerMC
  AssetOf <- AllBNT
  Amount <- UnevenMC
  Fee <- FeeMC
  LongKeys <- NoKeys
  Price <- PriceMC
  InitialBalance <- BalanceMC
  MaxPerDay = 5
  Configured <- OneAsset
  Modes = {"real"}
  Reviewers = {v1}
  Hazards = {"crash"}
PROPERTIES
  ApprovedSettles
