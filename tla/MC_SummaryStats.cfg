CONSTANTS
  Samples <- MCSamples
  Scale = 2
  DblMax = 40
  MaxAdds = 4
INIT Init
NEXT Next
INVARIANTS
  TypeOK
  MinIsSmallestSample
CHECK_DEADLOCK FALSE
