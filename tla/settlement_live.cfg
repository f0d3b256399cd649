SPECIFICATION FairSpec
CONSTANTS
  Sig <- TwoSigs
  Account = {a1}
  Token = {SPACE}
  Amount = {1}
  InitBalance <- MCInitBalance
  Checker = {c1}
  TTL = 1
  Grace = 1
  Retention = 2
  SlotsPerTick = 2
  Lag = 0
  IssueUntil = 0
  MaxNow = 2
  MaxHead = 4
  MaxFaults = 1
  NoTerms = NoTerms
PROPERTY EverySignatureSettles
