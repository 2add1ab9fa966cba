CONSTANTS
  Ys = {0, 1, 3}
  MaxLen = 5
  BinSizes = {0, 1, 2, 3}
  MaxCalls = 2
INIT Init
NEXT Next
INVARIANT BinIsGroupMeans
CHECK_DEADLOCK FALSE
