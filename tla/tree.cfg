SPECIFICATION TreeSpec
CONSTANTS
  u0 = u0
  u1 = u1
  u2 = u2
  u11 = u11
  u12 = u12
  u21 = u21
  u3 = u3
  None = None
  Account = {u0, u1, u2, u11, u12, u21, u3}
  InitParent <- MCInitParent
  InitBought <- MCInitBought
  Internal = {u0}
  FreeInviter = {u2}
  MarketsNeeded = 2
  MaxVip = 2
  Threshold = {1, 2}
  Creator = {k1}
  Newcomer = {u3}
  Buyer = {u3}
  Deletable = {u12}
  Movable = {u1, u11}
  MaxMoves = 1
  MaxBought = 1
  MarketMaker = {u2}
INVARIANT TypeOK
INVARIANT ClosureOfParents
INVARIANT LevelsFollowTree
INVARIANT TeamViewsAgree
