SPECIFICATION FairSpec
CONSTANTS
  Sig <- TwoSigs
  Account = {a1}
  Miner = {m1}
  Amount = {1}
  Offer <- MCOffer
  NodeAccount = {a1}
  InitBalance <- MCInitBalance
  WithdrawRound = {w1, w2}
  PurchaseRound = {p1}
  TTL = 1
  Grace = 1
  Retention = 2
  UsdtUntil = 1
  SlotsPerTick = 1
  Lag = 1
  IssueUntil = 0
  MaxNow = 2
  MaxHead = 3
  MaxFaults = 1
  NoTerms = NoTerms
INVARIANT TypeOK
INVARIANT SettlementMatchesChain
INVARIANT SettledExactlyOnce
INVARIANT Conservation
INVARIANT PurchasesCredited
INVARIANT PaidPurchaseGoesThrough
PROPERTY ImplementsEscrow
PROPERTY EverySignatureSettles
