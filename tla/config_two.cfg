SPECIFICATION Spec
CONSTANTS
  Admin = {p1, p2}
  Key <- FeeKey
  Value <- FeeValues
  Initial <- MCInitial
  BP = 3
INVARIANT FeesReadable
