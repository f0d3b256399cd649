SPECIFICATION Spec
SYMMETRY CheckerSymmetry
CONSTANTS
  Sig <- TwoSigs
  Account = {a1}
  Token = {SPACE}
  Amount = {1}
  InitBalance <- MCInitBalance
  Checker = {c1, c2}
  TTL = 1
  Grace = 1
  Retention = 2
  SlotsPerTick = 2
  Lag = 1
  IssueUntil = 0
  MaxNow = 2
  MaxHead = 4
  MaxFaults = 1
  NoTerms = NoTerms
INVARIANT TypeOK
INVARIANT SettlementMatchesChain
INVARIANT SettledExactlyOnce
INVARIANT Conservation
PROPERTY GivenUpOnlyAfterGrace
PROPERTY ImplementsEscrow
