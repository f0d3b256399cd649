SPECIFICATION Spec
CONSTANTS
  WEI = 1
  MaxIterations = 10
  Account = {a1, a2}
  MarketMaker = {a2}
  Request = {r1, r2}
  SpaceAmount = {1, 2}
  Limit = {3, 30}
  PoolAmount = {1}
  MoveAmount = {1}
  Principal = {10, 20}
  Config <- UsualOnly
  SellQuote <- MCSellQuote
  MakerQuote <- MCMakerQuote
  UsdtStep = 1
  InitBalance <- MCInitBalance
  InitPool <- MCInitPool
  MaxDay = 2
  MaxRequests = 3
  MaxMoves = 0
  MaxDailyVolume = 3
  MaxQuota = 2
  NoRequest = NoRequest
INVARIANT GlobalMaximumPerDate
