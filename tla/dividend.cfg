SPECIFICATION DividendSpec
CONSTANTS
  None = None
  Account = {1, 2, 3, 4}
  InitParent <- MCInitParent
  InitBought <- MCInitBought
  Internal = {}
  FreeInviter = {}
  MarketsNeeded = 1
  MaxVip = 2
  Threshold = {1}
  Creator = {k1}
  Newcomer = {4}
  Buyer = {4}
  Deletable = {1, 4}
  Movable = {1}
  MaxMoves = 1
  MaxBought = 1
  Kinds <- MCKinds
  NodeLevel <- MCNodeLevel
  ManualVip <- MCManualVip
  RuleGroup <- MCRuleGroup
  Fallback = 2
  FeeBp <- MCFeeBp
  FeeUnit = 100
  MaxRounds = 1
INVARIANT PaidOutOfSweeps
INVARIANT SharesInOneLevel
PROPERTY RoundPaysAll
