SPECIFICATION Spec
CONSTANTS
  WEI = 4
  MaxIterations = 4
  SellConfig <- SellConfigs
  MakerConfig <- MakerConfigs
  Portion = {1, 2, 3, 5, 9}
  MaxPortions = 13
  MaxMakerVolume = 9
INVARIANT PricedByTheUnit
INVARIANT SplittingGainsNothing
