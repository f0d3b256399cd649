SPECIFICATION Spec
SYMMETRY ClaimerSymmetry
CONSTANTS
  top = top
  sub = sub
  m1 = m1
  Account = {top, sub}
  Miner = {m1}
  Relation <- MCRelation
  Price <- MCPrice
  Expected <- MCExpected
  FreePrice = 15
  FreeExpected = 6
  Bp = {2000, 4000}
  FreeBp = {4000, 8000}
  InitBp <- MCInitBp
  TeamBp = 5000
  MidPrice = 10
  HighPrice = 20
  InitCycle = 2
  MaxCycle = 4
  ExtendCycle = 2
  Day = 2
  StartAt = 1
  InitBalance = 0
  Release = {2}
  Gift = {4}
  Claimer = {q1, q2}
  Buyer = {b1}
  Starter = {j1}
  MaxUpdates = 1
  MaxNow = 3
  MinedAt <- MCMinedAt
  MaxPurchases <- MCMaxPurchases
  MaxIn <- MCMaxIn
  MaxOut <- MCMaxOut
INVARIANT TypeOK
INVARIANT ProducedWithinExpected
INVARIANT Conservation
INVARIANT LogChain
INVARIANT ClaimedWithinLimits
INVARIANT RateFollowsConfig
