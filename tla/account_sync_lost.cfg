SPECIFICATION Spec
CONSTANTS
  Caller = {p1, p2}
  MaxLevel = 1
  InitBalance = 1
  Amount = {1}
  MaxBalance = 2
  MaxCalls = 3
INVARIANT LogExplainsBalance
